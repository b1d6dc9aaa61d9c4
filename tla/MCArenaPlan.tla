---------------------------- MODULE MCArenaPlan ----------------------------
(* Instances of ArenaPlan: the graphs of every architecture with two       *)
(* layers, on the host, split and on the device, and all small graphs.     *)
EXTENDS ArenaPlan, FiniteSets

\* Layer 0 of qwen35 is recurrent, layer 1 is dense.
ConvLayer(l) == l % 2 = 0

Models == INSTANCE Graph WITH Embd <- 2, Q <- 4, KV <- 2, Ffn <- 6, Vocab <- 7,
                              Conv <- ConvLayer

\* No optional tensor, and all of them.
Options == {{}, {"bias_q", "bias_k", "bias_v", "norm_q", "norm_k", "gate", "softcap"}}

ArchPlans ==
  {[g |-> Models!Build(a, o, 2, ngl),
    backend |-> Models!Assign(Models!Build(a, o, 2, ngl), 2, ngl)] :
     a \in Models!Archs, o \in Options, ngl \in 0..2}

\* Every graph of five nodes with one input, one sink, at most two sources per
\* node and outputs of three sizes, on one backend.
Sources(i) == {s \in SUBSET (1..(i - 1)) : Cardinality(s) \in 1..2}

SmallGraphs ==
  {[i \in 1..5 |-> [op |-> IF i = 1 THEN "input" ELSE "op", layer |-> 0,
                    dim |-> IF i = 1 THEN 1 ELSE d[i], src |-> s[i]]] :
     d \in [2..5 -> {1, 3, 5}],
     s \in {f \in [1..5 -> SUBSET (1..4)] :
              /\ f[1] = {} /\ \A i \in 2..5 : f[i] \in Sources(i)
              /\ \A i \in 1..4 : \E j \in 2..5 : i \in f[j]}}

SmallPlans == {[g |-> gr, backend |-> [i \in 1..5 |-> "cpu"]] : gr \in SmallGraphs}

AllPlans == ArchPlans \cup SmallPlans
=============================================================================
