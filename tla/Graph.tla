-------------------------------- MODULE Graph --------------------------------
(***************************************************************************)
(* The static compute graphs that the architectures build (the graph_build *)
(* hooks in src/src/model/) with the node constructors of src/src/graph.c, *)
(* and the backend that assign_backends gives to every node.               *)
(*                                                                         *)
(* A graph_build hook is a straight-line program: every statement adds a   *)
(* node and assigns it to a C variable, and reads nodes through the        *)
(* variables.  It is written here as the sequence of those statements, and *)
(* Build resolves the variables to the nodes they name, as executing the   *)
(* program does.  Weights are kept only where they decide the shape of the *)
(* graph: the optional tensors a model has (opt) and its recurrent layers. *)
(***************************************************************************)
EXTENDS Integers, Sequences, SequencesExt

CONSTANTS
  Embd, Q, KV, Ffn, Vocab,  (* widths: n_embd, q_dim, kv_dim, ffn_hidden,  *)
                            (* n_vocab                                     *)
  Conv(_)                   (* is this layer of qwen35 recurrent?          *)

\* A call of a node constructor, whose result is assigned to var; src are the
\* variables it reads and dim is the node_out_dim of the node.
Stmt(var, op, src, dim) == [var |-> var, op |-> op, src |-> src, dim |-> dim]

When(cond, stmts) == IF cond THEN stmts ELSE <<>>

\* graph_input and graph_embed; gemma3 scales the embeddings.
Prologue(scaled) ==
  <<Stmt("in", "input", {}, 1), Stmt("cur", "embed", {"in"}, Embd)>>
  \o When(scaled, <<Stmt("cur", "scale", {"cur"}, Embd)>>)

\* The SwiGLU or GeGLU block that reads the residual stream h and assigns cur.
FeedForward(h, postNorm) ==
  <<Stmt("hn", "norm", {h}, Embd),
    Stmt("gate", "mm", {"hn"}, Ffn), Stmt("gate", "act", {"gate"}, Ffn),
    Stmt("up", "mm", {"hn"}, Ffn), Stmt("mul", "mul", {"gate", "up"}, Ffn),
    Stmt("down", "mm", {"mul"}, Embd)>>
  \o When(postNorm, <<Stmt("down", "norm", {"down"}, Embd)>>)
  \o <<Stmt("cur", "add", {h, "down"}, Embd)>>

\* The projections of the normed input, and the optional biases.
Projections(opt) ==
  <<Stmt("q", "mm", {"n"}, Q), Stmt("k", "mm", {"n"}, KV), Stmt("v", "mm", {"n"}, KV)>>
  \o When("bias_q" \in opt, <<Stmt("q", "bias", {"q"}, Q)>>)
  \o When("bias_k" \in opt, <<Stmt("k", "bias", {"k"}, KV)>>)
  \o When("bias_v" \in opt, <<Stmt("v", "bias", {"v"}, KV)>>)

Rope == <<Stmt("q", "rope", {"q"}, Q), Stmt("k", "rope", {"k"}, KV)>>
Attn == <<Stmt("attn", "attn", {"q", "k", "v"}, Q)>>
Norm == <<Stmt("n", "norm", {"cur"}, Embd)>>
Out(y, x) == <<Stmt(y, "mm", {x}, Embd)>>

\* One layer of llama and qwen25.
DenseLayer(opt) ==
  Norm \o Projections(opt) \o Rope \o Attn \o Out("o", "attn")
  \o <<Stmt("h", "add", {"cur", "o"}, Embd)>> \o FeedForward("h", FALSE)

\* One layer of gemma3.
GemmaLayer ==
  Norm \o Projections({})
  \o <<Stmt("q", "normh", {"q"}, Q), Stmt("k", "normh", {"k"}, KV)>>
  \o Rope \o <<Stmt("q", "scale", {"q"}, Q)>> \o Attn \o Out("o", "attn")
  \o <<Stmt("o", "norm", {"o"}, Embd), Stmt("h", "add", {"cur", "o"}, Embd)>>
  \o FeedForward("h", TRUE)

\* A gated delta net layer of qwen35.
DeltaLayer(opt) ==
  Norm
  \o <<Stmt("f", "mm", {"n"}, Q + 2 * KV), Stmt("f", "conv", {"f"}, Q + 2 * KV),
       Stmt("f", "act", {"f"}, Q + 2 * KV),
       Stmt("a", "mm", {"n"}, 1), Stmt("b", "mm", {"n"}, 1),
       Stmt("d", "delta", {"f", "a", "b"}, Q)>>
  \o When("gate" \in opt, <<Stmt("ag", "mm", {"n"}, Q), Stmt("ag", "act", {"ag"}, Q),
                            Stmt("d", "mul", {"d", "ag"}, Q)>>)
  \o Out("y", "d") \o <<Stmt("cur", "add", {"cur", "y"}, Embd)>>
  \o FeedForward("cur", FALSE)

\* A dense layer of qwen35.  With a norm of the queries, the projection fq
\* also carries the gate, which is read back after attention.
GatedLayer(opt) ==
  LET normQ == "norm_q" \in opt IN
  Norm
  \o <<Stmt("fq", "mm", {"n"}, IF normQ THEN 2 * Q ELSE Q)>>
  \o When("bias_q" \in opt, <<Stmt("fq", "bias", {"fq"}, IF normQ THEN 2 * Q ELSE Q)>>)
  \o When(normQ, <<Stmt("q", "normh", {"fq"}, Q)>>)
  \o <<Stmt("k", "mm", {"n"}, KV), Stmt("v", "mm", {"n"}, KV)>>
  \o When("bias_k" \in opt, <<Stmt("k", "bias", {"k"}, KV)>>)
  \o When("bias_v" \in opt, <<Stmt("v", "bias", {"v"}, KV)>>)
  \o When("norm_k" \in opt, <<Stmt("k", "normh", {"k"}, KV)>>)
  \o <<Stmt("q", "rope", {IF normQ THEN "q" ELSE "fq"}, Q), Stmt("k", "rope", {"k"}, KV)>>
  \o Attn
  \o When("gate" \in opt, <<Stmt("ag", "mm", {"n"}, Q), Stmt("ag", "act", {"ag"}, Q),
                            Stmt("attn", "mul", {"attn", "ag"}, Q)>>)
  \o When(normQ, <<Stmt("attn", "sigmoid_gate", {"attn", "fq"}, Q)>>)
  \o Out("o", "attn") \o <<Stmt("cur", "add", {"cur", "o"}, Embd)>>
  \o FeedForward("cur", FALSE)

\* One layer of falcon_h1: attention and a Mamba2 mixer read the same input.
FalconLayer(opt) ==
  Norm \o Projections(opt) \o Rope \o Attn \o Out("attn", "attn")
  \o <<Stmt("proj", "mm", {"n"}, Q + 2 * KV + 1), Stmt("cv", "mamba2_conv", {"proj"}, Q + KV),
       Stmt("scan", "mamba2_scan", {"cv", "proj"}, Q)>>
  \o Out("ssm", "scan")
  \o <<Stmt("cur", "add", {"cur", "attn"}, Embd), Stmt("cur", "add", {"cur", "ssm"}, Embd)>>
  \o FeedForward("cur", FALSE)

\* Final norm and LM head; gemma3 may cap the logits.
Epilogue(capped) ==
  <<Stmt("fn", "norm", {"cur"}, Embd), Stmt("logits", "mm", {"fn"}, Vocab)>>
  \o When(capped, <<Stmt("logits", "softcap", {"logits"}, Vocab)>>)

Archs == {"llama", "qwen25", "gemma3", "qwen35", "falcon_h1"}

Layer(arch, opt, l) ==
  CASE arch \in {"llama", "qwen25"} -> DenseLayer(opt)
    [] arch = "gemma3" -> GemmaLayer
    [] arch = "qwen35" -> IF Conv(l) THEN DeltaLayer(opt) ELSE GatedLayer(opt)
    [] arch = "falcon_h1" -> FalconLayer(opt)

\* Mutant of Boundary: the copy follows the first layer of the host.
BoundaryLate(l, ngl, L) ==
  When(ngl > 0 /\ ngl < L /\ l = ngl, <<Stmt("cur", "d2h", {"cur"}, Embd)>>)

\* graph_layer_boundary after layer l (0, 1, ...): in a split plan the last
\* layer on the device ends with a copy to the host.
Boundary(l, ngl, L) ==
  When(ngl > 0 /\ ngl < L /\ l + 1 = ngl, <<Stmt("cur", "d2h", {"cur"}, Embd)>>)

\* graph_set_layer: the statements build nodes of layer l.
InLayer(l, stmts) ==
  [i \in DOMAIN stmts |-> [layer |-> l, stmt |-> stmts[i]]]

\* graph_build for L layers of which ngl are on the device: the program, and
\* node_add for each statement, the variables resolved to positions.
Program(arch, opt, L, ngl) ==
  InLayer(0, Prologue(arch = "gemma3"))
  \o FlattenSeq([i \in 1..L |-> InLayer(i - 1, Layer(arch, opt, i - 1) \o Boundary(i - 1, ngl, L))])
  \o InLayer(L, Epilogue(arch = "gemma3" /\ "softcap" \in opt))

Resolve(prog, i, var) ==
  CHOOSE j \in 1..(i - 1) :
    prog[j].stmt.var = var /\ \A k \in (j + 1)..(i - 1) : prog[k].stmt.var # var

Build(arch, opt, L, ngl) ==
  LET prog == Program(arch, opt, L, ngl) IN
  [i \in DOMAIN prog |->
     [op |-> prog[i].stmt.op, layer |-> prog[i].layer, dim |-> prog[i].stmt.dim,
      src |-> {Resolve(prog, i, var) : var \in prog[i].stmt.src}]]

\* assign_backends: which nodes run on the device.  A copy to the host is a
\* node of the host.
OnDevice(node, L, ngl) ==
  ngl > 0 /\ (ngl >= L \/ node.layer < ngl) /\ node.op # "d2h"

Assign(g, L, ngl) ==
  [i \in DOMAIN g |-> IF OnDevice(g[i], L, ngl) THEN "cuda" ELSE "cpu"]
=============================================================================
