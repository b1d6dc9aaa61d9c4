------------------------------- MODULE Loader -------------------------------
(***************************************************************************)
(* Loading a GGUF file (model_load, vocab_load and weights_load in         *)
(* src/src/core.c) over a mapping of a file that may be cut short at any   *)
(* byte.  An error is fatal: slog(ERROR) ends the process.                 *)
(*                                                                         *)
(* A file is given by its entries; the bytes between them are counted, so  *)
(* that the cursor, the alignment of the data and the offsets of the       *)
(* tensors are those of the code.  A metadata key is a pair of a prefix    *)
(* and a name.  A tensor name is a layer (-1: none) and a suffix.          *)
(***************************************************************************)
EXTENDS Integers, Sequences, FiniteSets, SequencesExt

CONSTANTS
    Files,             \* a sequence of what the path may name, see FileOK
    Cuts,              \* how many bytes may be missing at the end
    KeyBytes,          \* bytes of a name with its length
    MaxDims,           \* GGUF_MAX_DIMS
    DefaultAlignment,  \* GGUF_DEFAULT_ALIGNMENT
    U64Max,            \* UINT64_MAX
    TypeInfo,          \* gguf_types: elements and bytes of a block, for known types
    TableSlack,        \* what tokenizer_table_init adds to twice the entries
    Hash(_)            \* hash_bytes

\* Bytes of the metadata types of fixed size.
Width == [u8 |-> 1, i8 |-> 1, bool |-> 1, u16 |-> 2, i16 |-> 2, u32 |-> 4, i32 |-> 4,
          f32 |-> 4, u64 |-> 8, i64 |-> 8, f64 |-> 8]
IntTypes == {"u8", "i8", "u16", "i16", "u32", "i32", "u64", "i64"}
TypeCode == [u32 |-> 4, i32 |-> 5, f32 |-> 6, string |-> 8, array |-> 9]

HeaderBytes == 24
MinSize == 32

\* The first value of a file is not a number shorter than the word that kv_load
\* reads there.
FileOK(f) ==
    /\ f.magic \in BOOLEAN /\ f.version \in Nat
    /\ \A i \in DOMAIN f.kv : {"type"} \subseteq DOMAIN f.kv[i].value
    /\ f.kv # <<>> => f.kv[1].value.type \in {"u32", "u64", "string", "array"}
    /\ \A i \in DOMAIN f.tensor :
         DOMAIN f.tensor[i] = {"layer", "suffix", "dim", "type", "off"}

ASSUME LoaderAssumption ==
    /\ \A n \in DOMAIN Files : FileOK(Files[n])
    /\ Cuts \subseteq Nat
    /\ {KeyBytes, MaxDims, DefaultAlignment, U64Max, TableSlack} \subseteq Nat \ {0}

VARIABLES
    file, size,   \* the mapped file, by its number in Files
    inspect,      \* opts->inspect
    phase,
    post,         \* the cursor
    kv,           \* the metadata entries parsed so far
    alignment,    \* m->alignment
    arch,         \* m->arch
    tensor,       \* m->tensor; the names are read in the file
    vocab,        \* the two token tables and what was found in them
    weights       \* for every role the number of a tensor

modelVars == <<file, size, inspect, post, kv, alignment, arch, tensor, vocab, weights>>

F == Files[file]

Fatal == phase' = "fatal" /\ UNCHANGED modelVars

-----------------------------------------------------------------------------
(* The file as it was written, and what is left of it.                     *)

\* cursor_skip_value: the bytes of a value, -1 for one that nests too deep or
\* has an unknown type.
RECURSIVE SkipValue(_, _)
SkipValue(v, depth) ==
    LET items == [i \in DOMAIN v.items |-> SkipValue(v.items[i], depth + 1)]
    IN  IF depth > MaxDims THEN -1
        ELSE IF v.type \in DOMAIN Width THEN Width[v.type]
        ELSE IF v.type = "string" THEN 8 + v.len
        ELSE IF v.type # "array" \/ \E i \in DOMAIN v.items : items[i] < 0 THEN -1
        ELSE 12 + FoldLeft(+, 0, items)

TensorEntryBytes(t) == KeyBytes + 16 + 8 * Len(t.dim)

AlignUp(n, a) == IF n % a = 0 THEN n ELSE n + a - (n % a)

\* The product of the dimensions, -1 when it does not fit 64 bits.
Elements(dim) ==
    FoldLeft(LAMBDA n, d : IF n < 0 \/ (d # 0 /\ n > U64Max \div d) THEN -1 ELSE n * d,
             1, dim)

\* tensor_bytes: rounded up to blocks; 0, with a warning, for a type without
\* blocks or a size of more than 64 bits.
TensorBytes(type, n) ==
    IF type \notin DOMAIN TypeInfo THEN 0
    ELSE LET b == TypeInfo[type]
             blocks == ((n + b.elems - 1) % (U64Max + 1)) \div b.elems
         IN  IF blocks > U64Max \div b.bytes THEN 0 ELSE blocks * b.bytes

\* What the writer laid out: the entries, then the data at the stated alignment.
Stated(f) ==
    LET A == {i \in DOMAIN f.kv : f.kv[i].key = <<"general", "alignment">>
                                  /\ f.kv[i].value.type = "u32" /\ f.kv[i].value.v # 0}
    IN  IF A = {} THEN DefaultAlignment ELSE f.kv[Max(A)].value.v
EntriesEnd(f) ==
    HeaderBytes
    + FoldLeft(LAMBDA n, e : n + KeyBytes + 4 + Max({SkipValue(e.value, 0), 0}), 0, f.kv)
    + FoldLeft(LAMBDA n, t : n + TensorEntryBytes(t), 0, f.tensor)
DataStart(f) == AlignUp(EntriesEnd(f), Stated(f))
TensorEnd(f, i) ==
    DataStart(f) + f.tensor[i].off
    + TensorBytes(f.tensor[i].type, Elements(f.tensor[i].dim))
FileEnd(f) == Max({EntriesEnd(f)} \cup {TensorEnd(f, i) : i \in DOMAIN f.tensor})

NoVocab == [type |-> "none"]
NoWeights == [n_layer |-> 0]

LoaderInit ==
    /\ file \in DOMAIN Files
    /\ size \in {Max({FileEnd(F) - c, 0}) : c \in Cuts}
    /\ inspect \in BOOLEAN
    /\ phase = "open"
    /\ post = 0 /\ kv = 0 /\ alignment = DefaultAlignment /\ arch = "UNKNOWN" /\ tensor = <<>>
    /\ vocab = NoVocab /\ weights = NoWeights

\* The memory of a process that has ended.
LoaderGone ==
    /\ phase' = "dead"
    /\ post' = 0 /\ kv' = 0 /\ alignment' = DefaultAlignment /\ arch' = "UNKNOWN" /\ tensor' = <<>>
    /\ vocab' = NoVocab /\ weights' = NoWeights
    /\ UNCHANGED <<file, size, inspect>>

-----------------------------------------------------------------------------
(* model_load.                                                             *)

LoadHeader ==
    /\ phase = "open"
    /\ IF size < MinSize \/ ~F.magic \/ F.version # 3 THEN Fatal
       ELSE /\ post' = HeaderBytes
            /\ phase' = "kv"
            /\ UNCHANGED <<file, size, inspect, kv, alignment, arch, tensor, vocab, weights>>

\* The 32-bit word at the start of a value: the low half of a string's length,
\* the item type of an array.
FirstWord(v) ==
    CASE v.type = "string" -> v.len
      [] v.type = "array" -> TypeCode[v.item]
      [] OTHER -> v.v

\* kv_load reads the alignment at kv->value_pos, which is the first entry's.
AlignmentWord == FirstWord(F.kv[1].value)

KvLoad ==
    /\ phase = "kv"
    /\ IF kv = Len(F.kv)
       THEN phase' = "tensors" /\ UNCHANGED modelVars
       ELSE LET e == F.kv[kv + 1]
                value_pos == post + KeyBytes + 4
                n == SkipValue(e.value, 0)
            IN  IF n < 0 \/ value_pos + n > size THEN Fatal
                ELSE /\ post' = value_pos + n
                     /\ kv' = kv + 1
                     /\ alignment' = IF /\ e.key = <<"general", "alignment">>
                                        /\ e.value.type = "u32" /\ AlignmentWord # 0
                                     THEN AlignmentWord ELSE alignment
                     /\ UNCHANGED <<file, size, inspect, phase, arch, tensor, vocab, weights>>

\* Two dimensions are swapped into rows and columns.
Swapped(dim) == IF Len(dim) = 2 THEN <<dim[2], dim[1]>> ELSE dim

TensorLoad ==
    /\ phase = "tensors" /\ Len(tensor) < Len(F.tensor)
    /\ LET t == F.tensor[Len(tensor) + 1]
       IN  IF \/ Len(t.dim) \notin 1..MaxDims \/ Elements(t.dim) < 0
              \/ post + TensorEntryBytes(t) > size
           THEN Fatal
           ELSE /\ post' = post + TensorEntryBytes(t)
                /\ tensor' = Append(tensor,
                     [dim |-> Swapped(t.dim), offset |-> t.off,
                      bytes |-> TensorBytes(t.type, Elements(t.dim))])
                /\ UNCHANGED <<file, size, inspect, phase, kv, alignment, arch, vocab, weights>>

\* Offsets become offsets in the file.
Rebase ==
    /\ phase = "tensors" /\ Len(tensor) = Len(F.tensor)
    /\ tensor' = [i \in DOMAIN tensor |->
          [tensor[i] EXCEPT !.offset = (@ + AlignUp(post, alignment)) % (U64Max + 1)]]
    /\ phase' = "arch"
    /\ UNCHANGED <<file, size, inspect, post, kv, alignment, arch, vocab, weights>>

-----------------------------------------------------------------------------
(* Metadata, and the architecture's tables of tensors.                     *)

\* model_find_kv: the first entry of that name, as a set.
FindKv(key) ==
    LET I == {i \in 1..kv : F.kv[i].key = key}
    IN  IF I = {} THEN {} ELSE {Min(I)}

\* The value of that entry when it has one of the types, as a set: model_get_key,
\* model_get_array, model_get_i32 ("u32" only) and model_get_int.
Get(key, types) ==
    {F.kv[i].value : i \in {j \in FindKv(key) : F.kv[j].value.type \in types}}
GetI32(key) == {x.v : x \in Get(key, {"u32"})}
GetInt(key) == {x.v : x \in Get(key, IntTypes)}

ArchOf == [llama |-> "LLAMA", qwen2 |-> "QWEN2", qwen35 |-> "QWEN3", deepseek2 |-> "DEEPSEEK",
           falcon |-> "FALCON", falcon_h1 |-> "FALCON_H1", gemma3 |-> "GEMMA3"]
ArchKeyPrefix == [LLAMA |-> "llama", QWEN2 |-> "qwen2", QWEN3 |-> "qwen3",
                  DEEPSEEK |-> "deepseek2", FALCON |-> "falcon", FALCON_H1 |-> "falcon_h1",
                  GEMMA3 |-> "gemma3", UNKNOWN |-> "llama"]

\* model_detect_arch: a file that names none is UNKNOWN, one that names another
\* is refused.
ArchName == {x.v : x \in Get(<<"general", "architecture">>, {"string"})}
ArchRefused == \E n \in ArchName : n \notin DOMAIN ArchOf
DetectedArch == IF ArchName = {} THEN "UNKNOWN" ELSE ArchOf[CHOOSE n \in ArchName : TRUE]

DetectArch ==
    /\ phase = "arch"
    /\ IF ArchRefused THEN Fatal
       ELSE /\ arch' = DetectedArch
            /\ phase' = "check"
            /\ UNCHANGED <<file, size, inspect, post, kv, alignment, tensor, vocab, weights>>

\* The prefixes under which an architecture's metadata is looked up, in order.
KeyPrefixes ==
    LET generic == ArchKeyPrefix[arch]
    IN  IF ArchName \subseteq {generic} THEN <<generic>>
        ELSE <<CHOOSE n \in ArchName : TRUE, generic>>

\* arch_tensor_map: names without a layer.
TopRequired(a) ==
    CASE a = "DEEPSEEK" -> {"token_embd", "output", "output_norm", "output_hc_base",
                               "output_hc_fn", "output_hc_scale"}
      [] a \in {"FALCON", "UNKNOWN"} -> {"token_embd"}
      [] OTHER -> {"token_embd", "output_norm"}
TopNames(a) == TopRequired(a) \cup {"token_embd", "output", "output_norm"}

\* arch_layer_map: suffixes of the tensors of a layer.
Attn == {"attn_norm", "attn_q", "attn_k", "attn_v", "attn_output"}
Ffn == {"ffn_gate", "ffn_down", "ffn_up"}
Biases == {"attn_q.bias", "attn_k.bias", "attn_v.bias"}
LayerRequired(a) ==
    CASE a = "LLAMA" -> Attn \cup Ffn \cup {"ffn_norm"}
      [] a \in {"QWEN2", "QWEN3"} -> {"attn_norm"} \cup Ffn
      [] a \in {"DEEPSEEK", "GEMMA3"} -> Attn \cup Ffn
      [] a = "FALCON_H1" -> Attn \cup Ffn \cup {"ffn_norm", "ssm_in", "ssm_conv1d", "ssm_a",
                                                   "ssm_d", "ssm_dt.bias", "ssm_out"}
      [] OTHER -> {}
LayerOptional(a) ==
    CASE a \in {"LLAMA", "DEEPSEEK"} -> Biases
      [] a \in {"QWEN2", "QWEN3"} ->
           Attn \cup Biases \cup {"attn_qkv", "ssm_out", "attn_gate", "attn_q_norm",
             "attn_k_norm", "ssm_conv1d", "ssm_alpha", "ssm_beta", "ssm_a", "ssm_dt.bias",
             "ssm_norm", "post_attention_norm", "ffn_norm"}
      [] a = "GEMMA3" -> {"attn_q_norm", "attn_k_norm", "post_attention_norm", "ffn_norm",
                             "post_ffw_norm"}
      [] a = "FALCON_H1" -> Biases \cup {"ssm_conv1d.bias", "ssm_norm"}
      [] OTHER -> Attn \cup Ffn \cup {"attn_qkv"}
LayerSuffixes(a) == LayerRequired(a) \cup LayerOptional(a)

\* The role a suffix stands for: its own, but for the norm after attention.
Role(a, suffix) ==
    IF suffix = "ffn_norm" /\ a \in {"LLAMA", "QWEN2", "QWEN3"}
    THEN "post_attention_norm" ELSE suffix

\* model_find_tensor: the first of that name, 0 when there is none.
FindTensor(name) ==
    LET I == {i \in DOMAIN tensor : F.tensor[i].layer = -1 /\ F.tensor[i].suffix = name}
    IN  IF I = {} THEN 0 ELSE Min(I)

\* model_count_layers: 1 when no tensor has a layer.
CountLayers == Max({0} \cup {F.tensor[i].layer : i \in DOMAIN tensor}) + 1

-----------------------------------------------------------------------------
(* model_completeness_check.                                               *)

\* Mutant of IsShard: a model in one part is refused too.
IsShardAny == \E n \in GetInt(<<"split", "count">>) : n >= 1
IsShard == \E n \in GetInt(<<"split", "count">>) : n > 1
TensorsPresent ==
    /\ \A s \in TopRequired(arch) : FindTensor(s) # 0
    /\ \A l \in 0..CountLayers - 1, s \in LayerRequired(arch) :
         \E i \in DOMAIN tensor : F.tensor[i].layer = l /\ F.tensor[i].suffix = s

\* Mutant of PayloadInFile: only the start of the data is compared.
PayloadStartsInFile == \A i \in DOMAIN tensor : tensor[i].offset <= size
PayloadInFile ==
    \A i \in DOMAIN tensor :
       tensor[i].offset <= size /\ tensor[i].bytes <= size - tensor[i].offset

CompletenessCheck ==
    /\ phase = "check"
    /\ IF IsShard \/ ~TensorsPresent \/ ~PayloadInFile
       THEN Fatal
       ELSE /\ phase' = IF inspect THEN "weights" ELSE "vocab"
            /\ UNCHANGED modelVars

-----------------------------------------------------------------------------
(* vocab_load.                                                             *)

\* A string p of the file is the first p.len bytes of the text that p.v names; no
\* two of these texts begin with the same bytes.
Text(p) == <<p.v, p.len>>

\* A string read by cursor_key: its length is kept in one byte.
Key(p) == IF p.len % 256 = 0 THEN <<"", 0>> ELSE <<p.v, p.len % 256>>

\* Mutant of KeyEq: the lengths alone are compared.
KeyEqLen(k1, k2) == k1[2] = k2[2]
KeyEq(k1, k2) == k1 = k2

\* An open-addressing table: entry has the used slots only.
NoTable == [cap |-> 0, entry |-> <<>>]
NextPow2(n) == CHOOSE p \in {2^k : k \in 0..n} : p >= n /\ (p = 1 \/ p \div 2 < n)
NewTable(expected) == [cap |-> NextPow2(expected * 2 + TableSlack), entry |-> <<>>]

Taken(t, k, slot) == slot \in DOMAIN t.entry /\ ~KeyEq(t.entry[slot].key, k)

\* One round of tokenizer_table_put's loop for the next string: on to the next slot,
\* round the end of the table, or the entry is written.
Put(table, k, value) ==
    LET t == vocab[table]
        slot == (Hash(k) + vocab.passed) % t.cap
    IN  IF Taken(t, k, slot)
        THEN [vocab EXCEPT !.passed = (@ + 1) % t.cap]
        ELSE [vocab EXCEPT !.n = @ + 1, !.passed = 0,
                           ![table].entry = (slot :> [key |-> k, value |-> value]) @@ @]

\* The slot where tokenizer_table_get's loop ends; there is one as long as a slot of
\* the table is free.
Slot(t, k) ==
    LET At(d) == (Hash(k) + d) % t.cap
    IN  At(Min({d \in 0..t.cap - 1 : ~Taken(t, k, At(d))}))

\* The value of a key, as a set.
Lookup(t, k) ==
    IF t.cap = 0 \/ Slot(t, k) \notin DOMAIN t.entry THEN {} ELSE {t.entry[Slot(t, k)].value}

Strings(key) == {x \in Get(key, {"array"}) : x.item = "string"}
Tokens == Strings(<<"tokenizer", "tokens">>)
Merges == Strings(<<"tokenizer", "merges">>)
Token == (CHOOSE x \in Tokens : TRUE).items
Merge == IF vocab.type = "BPE" THEN (CHOOSE x \in Merges : TRUE).items ELSE <<>>

\* tokenizer_type and vocab_load: the other flavours are refused.
TokenizerType ==
    LET names == {x.v : x \in Get(<<"tokenizer", "model">>, {"string"})}
    IN  IF names \cap {"llama", "sentencepiece"} # {} THEN "SPM"
        ELSE IF "gpt2" \in names THEN "BPE" ELSE "refused"

\* The arrays are found, and the tables allocated.
VocabBegin ==
    /\ phase = "vocab"
    /\ IF \/ TokenizerType = "refused" \/ Tokens = {}
          \/ (TokenizerType = "BPE" /\ Merges = {})
       THEN Fatal
       ELSE /\ vocab' = [type |-> TokenizerType, n |-> 0, passed |-> 0,
                         tokens |-> NewTable(Len(Token)),
                         merges |-> IF TokenizerType # "BPE" THEN NoTable
                                    ELSE NewTable(Len((CHOOSE x \in Merges : TRUE).items))]
            /\ phase' = "tokens"
            /\ UNCHANGED <<file, size, inspect, post, kv, alignment, arch, tensor, weights>>

\* tokenizer_table_put of the next piece, or when these are done the next merge.
FillTable ==
    /\ phase = "tokens"
    /\ LET n == vocab.n
           tokens == Len(Token)
       IN  /\ vocab' = IF n < tokens THEN Put("tokens", Key(Token[n + 1]), n)
                       ELSE IF n < tokens + Len(Merge)
                       THEN Put("merges", Key(Merge[n + 1 - tokens]), n - tokens)
                       ELSE vocab
           /\ phase' = IF n < tokens + Len(Merge) THEN phase ELSE "special"
    /\ UNCHANGED <<file, size, inspect, post, kv, alignment, arch, tensor, weights>>

\* The pieces tried when the metadata has no id, in the order of the flavour.
BosPieces ==
    LET long == <<"<|begin_of_text|>", "<begin_of_sentence>", "<|im_start|>">>
    IN  IF vocab.type = "SPM" THEN <<"<s>", "<bos>">> \o long ELSE long \o <<"<bos>", "<s>">>
EosPieces ==
    LET long == <<"<|end_of_text|>", "<end_of_sentence>", "<|im_end|>">>
    IN  IF vocab.type = "SPM" THEN <<"</s>", "<eos>">> \o long ELSE long \o <<"<eos>", "</s>">>
SpecialPieces == {"<User>", "<Assistant>", "<think>", "</think>", "DSML", "<|im_start|>",
                  "<|im_end|>", "<start_of_turn>", "<end_of_turn>"}
Piece(s) == <<s, Len(s)>>

\* The first of the pieces that is in the table, as a set.
FirstPiece(pieces) ==
    LET I == {i \in DOMAIN pieces : Lookup(vocab.tokens, Piece(pieces[i])) # {}}
    IN  IF I = {} THEN {} ELSE Lookup(vocab.tokens, Piece(pieces[Min(I)]))
SpecialId(key, pieces) ==
    IF GetI32(key) # {} THEN GetI32(key) ELSE FirstPiece(pieces)

\* An array with an item of that type for every piece, as a set.
PerPiece(name, item) ==
    {x \in Get(<<"tokenizer", name>>, {"array"}) :
       x.item = item /\ Len(x.items) = Len(Token)}

\* The byte-fallback pieces of SPM: the types decide, if there are any for all.
TokenTypes == PerPiece("token_type", "i32")
BytePieces(b) ==
    {i \in DOMAIN Token :
       Token[i].byte = b /\ \A x \in TokenTypes : x.items[i].v = 6}

\* byte_token_ids, as sets: the last such piece, or for BPE what the table has for
\* the character that stands for the byte.
ByteId(b) ==
    IF vocab.type = "BPE"
    THEN UNION {Lookup(vocab.tokens, Key(Token[i])) :
                  i \in {j \in DOMAIN Token : Token[j].byte = b}}
    ELSE IF BytePieces(b) = {} THEN {} ELSE {Max(BytePieces(b)) - 1}

VocabEnd ==
    /\ phase = "special"
    /\ LET bos == SpecialId(<<"tokenizer", "bos">>, BosPieces)
           eos == SpecialId(<<"tokenizer", "eos">>, EosPieces)
       IN  IF bos = {} \/ eos = {} THEN Fatal
           ELSE /\ phase' = "weights"
                /\ vocab' = [bos |-> bos, eos |-> eos,
                             special |-> [s \in SpecialPieces |-> Lookup(vocab.tokens, Piece(s))],
                             scored |-> vocab.type = "SPM" /\ PerPiece("scores", "f32") # {},
                             byte |-> [b \in {p.byte : p \in ToSet(Token)} |-> ByteId(b)]]
                            @@ vocab
                /\ UNCHANGED <<file, size, inspect, post, kv, alignment, arch, tensor, weights>>

-----------------------------------------------------------------------------
(* weights_load.                                                           *)

\* Mutant of LayerTensor: the number in the name is not compared.
LayerTensorAny(l, role) ==
    Max({0} \cup {i \in DOMAIN tensor : /\ F.tensor[i].layer >= 0
                                        /\ F.tensor[i].suffix \in LayerSuffixes(arch)
                                        /\ Role(arch, F.tensor[i].suffix) = role})

\* layers_weights_load: the last tensor of the layer that has the role, 0 when
\* there is none.
LayerTensor(l, role) ==
    Max({0} \cup {i \in DOMAIN tensor : /\ F.tensor[i].layer = l
                                        /\ F.tensor[i].suffix \in LayerSuffixes(arch)
                                        /\ Role(arch, F.tensor[i].suffix) = role})

\* Without an output tensor the embedding is used.
TopTensor(name) ==
    IF name = "output" /\ FindTensor(name) = 0 THEN FindTensor("token_embd")
    ELSE FindTensor(name)

WeightsLoad ==
    /\ phase = "weights"
    /\ IF \E s \in TopRequired(arch) : FindTensor(s) = 0 THEN Fatal
       ELSE /\ weights' = [n_layer |-> CountLayers,
                           top |-> [s \in TopNames(arch) |-> TopTensor(s)],
                           layers |-> [l \in 1..CountLayers |->
                              [r \in {Role(arch, s) : s \in LayerSuffixes(arch)} |->
                                 LayerTensor(l - 1, r)]]]
            /\ phase' = IF inspect THEN "inspected" ELSE "loaded"
            /\ UNCHANGED <<file, size, inspect, post, kv, alignment, arch, tensor, vocab>>

\* engine_open after the lock was taken.
EngineOpen ==
    \/ LoadHeader \/ KvLoad \/ TensorLoad \/ Rebase \/ DetectArch \/ CompletenessCheck
    \/ VocabBegin \/ FillTable \/ VocabEnd \/ WeightsLoad

-----------------------------------------------------------------------------
Checked == {"vocab", "tokens", "special", "weights", "inspected", "loaded"}
Opened == {"inspected", "loaded"}

\* What model_completeness_check promises ("a complete, self-contained GGUF"):
\* the data of every tensor of a known type is where the writer put it, inside
\* the file, and the weight tables of every layer have every tensor the
\* architecture requires, that layer's own, although the check compares names
\* and the tables are filled by role.
LoadedAsWritten ==
    /\ phase \in Checked =>
         \A i \in DOMAIN tensor :
            /\ tensor[i].offset = DataStart(F) + F.tensor[i].off
            /\ TensorEnd(F, i) <= size
    /\ phase \in Opened =>
         \A i \in DOMAIN F.tensor :
            LET l == F.tensor[i].layer
            IN  l >= 0 =>
                  /\ l < weights.n_layer
                  /\ \A s \in LayerRequired(arch) :
                       LET t == weights.layers[l + 1][Role(arch, s)]
                       IN  t # 0 /\ F.tensor[t].layer = l

\* The comment of kv_load: it "records the file alignment from general.alignment
\* if present".
AlignmentRecorded == phase \in Checked => alignment = Stated(F)

\* A file that is all there, stands alone, has the tensors of a known architecture
\* and, unless it is only inspected, a vocabulary with an end and a beginning, is
\* never refused.
HasTensor(l, s) == \E t \in ToSet(F.tensor) : t.layer = l /\ t.suffix = s
HasKey(key, types) ==
    \E e \in ToSet(F.kv) : e.key = key /\ e.value.type \in types
GoodModel ==
    /\ F.magic /\ F.version = 3 /\ size >= FileEnd(F)
    /\ \A e \in ToSet(F.kv) : SkipValue(e.value, 0) >= 0
    /\ \A t \in ToSet(F.tensor) : Len(t.dim) \in 1..MaxDims /\ Elements(t.dim) >= 0
    /\ ~\E e \in ToSet(F.kv) : e.key = <<"split", "count">> /\ e.value.v > 1
    /\ \E e \in ToSet(F.kv) :
         /\ e.key = <<"general", "architecture">> /\ e.value.v \in DOMAIN ArchOf
         /\ \A s \in TopRequired(ArchOf[e.value.v]) : HasTensor(-1, s)
         /\ \A t \in ToSet(F.tensor), s \in LayerRequired(ArchOf[e.value.v]) :
              \A l \in 0..Max({t.layer, 0}) : HasTensor(l, s)
GoodVocab ==
    \E e \in ToSet(F.kv) :
       /\ e.key = <<"tokenizer", "tokens">> /\ e.value.item = "string"
       /\ \E m \in ToSet(F.kv) :
            /\ m.key = <<"tokenizer", "model">>
            /\ \/ m.value.v \in {"llama", "sentencepiece"}
               \/ m.value.v = "gpt2" /\ HasKey(<<"tokenizer", "merges">>, {"array"})
       /\ \A end \in {"bos", "eos"} :
            \/ HasKey(<<"tokenizer", end>>, {"u32"})
            \/ \E p \in ToSet(e.value.items) :
                 p.v \in (IF end = "bos" THEN {"<s>", "<bos>", "<|im_start|>"}
                                         ELSE {"</s>", "<eos>", "<|im_end|>"})
GoodFilesLoad == phase = "fatal" => ~(GoodModel /\ (inspect \/ GoodVocab))

\* The two tables behave as maps: a string of at most 255 bytes is found with the
\* last of the numbers of the strings that have its bytes, all of them, whatever
\* collides with it; a string that the file does not have is not found; and a slot
\* stays free, so that a lookup ends.  Left out, see PiecesFound: longer strings, and
\* those that a longer one is cut to.
TableSound(t, strings) ==
    LET long == {Key(strings[i]) : i \in {j \in DOMAIN strings : strings[j].len > 255}}
        texts == {Text(strings[i]) : i \in DOMAIN strings}
    IN  /\ strings # <<>> => \E slot \in 0..t.cap - 1 : slot \notin DOMAIN t.entry
        /\ \A s \in texts \ long :
             s[2] \in 1..255 =>
               Lookup(t, s) = {Max({i \in DOMAIN strings : Text(strings[i]) = s}) - 1}
        /\ \A s \in texts :
             LET other == <<s[1], s[2] + 1>>
             IN  other[2] <= 255 /\ other \notin texts \cup long => Lookup(t, other) = {}
VocabLoaded == phase \in {"special", "weights", "loaded"} /\ ~inspect
VocabSound ==
    VocabLoaded => TableSound(vocab.tokens, Token) /\ TableSound(vocab.merges, Merge)

\* The comment of the tables: "hash table ... mapping token pieces / merge strings to
\* their IDs / ranks".  The table has every piece under a number that has the
\* piece's bytes.
PiecesFound ==
    VocabLoaded => \A i \in DOMAIN Token :
       \E id \in Lookup(vocab.tokens, Key(Token[i])) : Text(Token[id + 1]) = Text(Token[i])
=============================================================================
