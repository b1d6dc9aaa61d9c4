---------------------------- MODULE SessionProofs ----------------------------
(***************************************************************************)
(* Proofs about Session, for any context size, micro-batch, vocabulary,    *)
(* prompts and sequence of stateful operations: a batch always fits, the   *)
(* session's tokens are the transcript of the conversation, and what the   *)
(* attention caches and the recurrent states hold is what a fresh session  *)
(* fed with the same tokens would hold.                                    *)
(***************************************************************************)
EXTENDS Session, SequenceTheorems, WellFoundedInduction, TLAPS

IsSeq(s) == s \in Seq({s[i] : i \in DOMAIN s})

(* ---- the invariants ----------------------------------------------------- *)

(* The session's token buffer.                                             *)
BufferTypes == tokens \in [1..Ctx -> Vocab \cup {Unset}] /\ n_tokens \in 0..Ctx

(* Its caches.  Rows are sequences of rows, so they are typed by their own *)
(* elements.                                                               *)
CacheTypes ==
  /\ kv = [o \in AttentionOps |-> kv[o]]
  /\ \A o \in AttentionOps : kv[o] = [p \in 1..Ctx |-> kv[o][p]]
  /\ rec = [o \in Recurrent |-> rec[o]]
  /\ \A o \in Recurrent : IsSeq(rec[o])

(* The locals of graph_execute.                                            *)
PassTypes ==
  batch \in Seq(Vocab) /\ done \in 0..Len(batch) /\ op \in 1..(Ops + 1) /\ IsSeq(x)

(* The locals of the clients.                                              *)
ClientTypes ==
  /\ pc \in {"idle", "chunk", "pass", "sample", "generate", "exited"}
  /\ next \in Vocab \cup {Unset} /\ n_gen \in 0..MaxTokens
  /\ client \in Clients /\ first_turn \in BOOLEAN /\ broken \in BOOLEAN

Types == BufferTypes /\ CacheTypes /\ PassTypes /\ ClientTypes

(* A batch in flight fits behind the session's tokens, the chunk loop is   *)
(* not done, and a chunk has rows, at most n_ubatch.                       *)
BatchFits ==
  /\ pc \in {"chunk", "pass"} => n_tokens + Len(batch) <= Ctx
  /\ pc = "chunk" => done < Len(batch)
  /\ pc = "pass" => Len(x) \in 1..UBatch /\ done + Len(x) <= Len(batch)
  /\ pc \notin {"chunk", "pass"} => batch = <<>> /\ done = 0 /\ x = <<>>
  /\ Len(x) <= UBatch
  /\ pc = "generate" => next \in Vocab

(* The control state of the session.                                       *)
ControlInv == Types /\ BatchFits

(* The tokens that the session owns.                                       *)
History == SubSeq(tokens, 1, n_tokens)

(* What the session holds of what its user saw: positions of the script,   *)
(* in order, all of them as long as no pass has failed.                    *)
HeldSound ==
  /\ script \in Seq(Vocab) /\ held \in Seq(1..Len(script))
  /\ \A i, j \in 1..Len(held) : i < j => held[i] < held[j]
  /\ ~broken => held = [i \in 1..Len(script) |-> i]

(* It is what the session owns and what is in flight.                      *)
ScriptSound ==
  /\ pc \in {"chunk", "pass"} => Kept = History \o batch
  /\ pc \in {"sample", "generate"} => Kept = History
  /\ pc = "idle" => \/ Kept = History
                    \/ n_tokens = Ctx /\ Len(Kept) = Ctx + 1 /\ Front(Kept) = History

(* The rows of the batch that were started are in the token buffer.        *)
Written ==
  /\ pc = "chunk" => \A i \in 1..done : tokens[n_tokens + i] = batch[i]
  /\ pc = "pass" => \A i \in 1..(done + Len(x)) : tokens[n_tokens + i] = batch[i]

(* A conversation starts with an opening prompt, whole or filling the      *)
(* context.                                                                *)
Opened ==
  /\ n_tokens > 0 => \E prompt \in Opening \ {<<>>} :
       /\ Len(Clip(prompt, Ctx)) <= n_tokens
       /\ \A i \in 1..Len(Clip(prompt, Ctx)) : tokens[i] = prompt[i]
  /\ pc \in {"chunk", "pass"} /\ n_tokens = 0 =>
       \E prompt \in Opening \ {<<>>} : batch = Clip(prompt, Ctx)

(* The chat's first_turn is true exactly when its session is empty.        *)
TurnsSound ==
  /\ client = "chat" /\ pc = "idle" => (first_turn <=> n_tokens = 0)
  /\ client = "chat" /\ pc \notin {"idle", "exited"} => ~first_turn
  /\ pc \in {"sample", "generate"} \/ n_gen > 0 => n_tokens > 0
  /\ pc = "idle" => n_gen = 0

(* The transcript of the session.                                          *)
TranscriptInv == ScriptSound /\ Written /\ Opened /\ TurnsSound

(* The positions operation o has seen: in a pass, the operations that have *)
(* run are a chunk ahead of the others.                                    *)
Seen(o) == IF pc = "pass" /\ o < op THEN Pos + Len(x) ELSE Pos

(* What the attention caches hold of the positions seen, what the          *)
(* recurrent states have consumed, and the rows of the chunk, which are    *)
(* the input of the operation that comes next.                             *)
CachesSound ==
  \A o \in AttentionOps : Sound(o) => \A p \in 1..Seen(o) : kv[o][p] = Input(o, p)
StatesSound ==
  ~broken => \A o \in Recurrent :
    /\ Len(rec[o]) = Seen(o)
    /\ \A p \in 1..Seen(o) : rec[o][p] = Input(o, p)
RowsSound ==
  pc = "pass" /\ Sound(op) => \A r \in 1..Len(x) : x[r] = Input(op, Pos + r)

(* The memory of the session is a function of its tokens.                  *)
MemoryInv == CachesSound /\ StatesSound /\ RowsSound

-----------------------------------------------------------------------------
(* ---- sequences ---------------------------------------------------------- *)

(* The token buffers and rows are arrays of known length: a sequence is    *)
(* the function of its elements.                                           *)
LEMMA SeqFcn ==
  ASSUME NEW s, IsSeq(s)
  PROVE  /\ Len(s) \in Nat /\ DOMAIN s = 1..Len(s)
         /\ s = [i \in 1..Len(s) |-> s[i]]
<1>1. s \in Seq({s[i] : i \in DOMAIN s})
  BY DEF IsSeq
<1>2. Len(s) \in Nat /\ DOMAIN s = 1..Len(s) /\ s \in [1..Len(s) -> {s[i] : i \in DOMAIN s}]
  BY <1>1, LenProperties
<1>3. QED
  BY <1>2

(* An array filled from its first to its n-th place is a sequence.         *)
LEMMA FcnSeq ==
  ASSUME NEW f, NEW n \in Nat, f = [i \in 1..n |-> f[i]]
  PROVE  IsSeq(f) /\ Len(f) = n
<1> DEFINE S == {f[i] : i \in DOMAIN f}
<1>1. DOMAIN f = 1..n /\ f \in [1..n -> S]
  OBVIOUS
<1>2. f \in Seq(S)
  BY <1>1, SeqDef
<1>3. Len(f) \in Nat /\ 1..Len(f) = 1..n
  BY <1>1, <1>2, LenProperties
<1>4. Len(f) = n
  BY <1>3
<1>5. QED
  BY <1>2, <1>4 DEF IsSeq

(* A batch and a prompt, sequences of tokens, are such arrays.             *)
LEMMA TokensSeq ==
  ASSUME NEW S, NEW s \in Seq(S)
  PROVE  IsSeq(s) /\ Len(s) \in Nat /\ DOMAIN s = 1..Len(s) /\ \A i \in 1..Len(s) : s[i] \in S
<1>1. Len(s) \in Nat /\ DOMAIN s = 1..Len(s) /\ s \in [1..Len(s) -> S]
  BY LenProperties
<1>2. s = [i \in 1..Len(s) |-> s[i]]
  BY <1>1
<1>3. QED
  BY <1>1, <1>2, FcnSeq

(* The converse.                                                           *)
LEMMA SeqInto ==
  ASSUME NEW S, NEW s, IsSeq(s), \A i \in 1..Len(s) : s[i] \in S
  PROVE  s \in Seq(S)
<1>1. Len(s) \in Nat /\ s = [i \in 1..Len(s) |-> s[i]]
  BY SeqFcn
<1> DEFINE n == Len(s)
<1>2. n \in Nat /\ s = [i \in 1..n |-> s[i]] /\ \A i \in 1..n : s[i] \in S
  BY <1>1
<1> HIDE DEF n
<1>3. s \in [1..n -> S]
  BY <1>2
<1>4. QED
  BY <1>2, <1>3, SeqDef

(* Two rows of the same length and elements are the same.                  *)
LEMMA SameSeq ==
  ASSUME NEW s, NEW t, IsSeq(s), IsSeq(t), Len(s) = Len(t),
         \A i \in 1..Len(s) : s[i] = t[i]
  PROVE  s = t
<1>1. s = [i \in 1..Len(s) |-> s[i]] /\ t = [i \in 1..Len(t) |-> t[i]]
  BY SeqFcn
<1>2. [i \in 1..Len(s) |-> s[i]] = [i \in 1..Len(t) |-> t[i]]
  OBVIOUS
<1>3. QED
  BY <1>1, <1>2

(* n elements of a buffer, from behind the first m.                        *)
LEMMA Slice ==
  ASSUME NEW s, NEW m \in Nat, NEW n \in Nat
  PROVE  /\ SubSeq(s, m + 1, m + n) = [i \in 1..n |-> s[m + i]]
         /\ IsSeq(SubSeq(s, m + 1, m + n))
         /\ Len(SubSeq(s, m + 1, m + n)) = n
<1> DEFINE S == {s[i] : i \in (m + 1)..(m + n)}
           t == SubSeq(s, m + 1, m + n)
<1>1. \A i \in (m + 1)..(m + n) : s[i] \in S
  OBVIOUS
<1>2. m + 1 \in Int /\ m + n \in Int
  OBVIOUS
<1>3. /\ t \in Seq(S)
      /\ Len(t) = IF m + 1 <= m + n THEN (m + n) - (m + 1) + 1 ELSE 0
      /\ \A i \in 1..((m + n) - (m + 1) + 1) : t[i] = s[(m + 1) + i - 1]
  <2> HIDE DEF S
  <2>1. QED
    BY <1>1, <1>2, SubSeqProperties
<1>4. Len(t) = n /\ \A i \in 1..n : t[i] = s[m + i]
  <2> HIDE DEF t, S
  <2>1. (m + n) - (m + 1) + 1 = n
    OBVIOUS
  <2>2. Len(t) = n
    BY <1>3
  <2>3. ASSUME NEW i \in 1..n PROVE t[i] = s[m + i]
    <3>1. t[i] = s[(m + 1) + i - 1]
      BY <1>3, <2>1
    <3>2. (m + 1) + i - 1 = m + i
      OBVIOUS
    <3>3. QED
      BY <3>1, <3>2
  <2>4. QED
    BY <2>2, <2>3
<1>5. t \in [1..n -> S]
  <2> HIDE DEF t, S
  <2>1. QED
    BY <1>3, <1>4, LenProperties
<1>6. t = [i \in 1..n |-> s[m + i]]
  <2> HIDE DEF t, S
  <2>1. QED
    BY <1>4, <1>5
<1>7. t = [i \in 1..n |-> t[i]]
  <2> HIDE DEF t, S
  <2>1. QED
    BY <1>5
<1>8. IsSeq(t)
  <2> HIDE DEF t, S
  <2>1. QED
    BY <1>7, FcnSeq
<1>9. QED
  BY <1>4, <1>6, <1>8

(* The first n elements of a buffer: the history of a session.             *)
LEMMA Prefix ==
  ASSUME NEW s, NEW n \in Nat
  PROVE  /\ SubSeq(s, 1, n) = [i \in 1..n |-> s[i]]
         /\ IsSeq(SubSeq(s, 1, n)) /\ Len(SubSeq(s, 1, n)) = n
<1> DEFINE z == 0
<1>1. z \in Nat /\ z + 1 = 1 /\ z + n = n /\ \A i \in 1..n : z + i = i
  OBVIOUS
<1> HIDE DEF z
<1>2. /\ SubSeq(s, z + 1, z + n) = [i \in 1..n |-> s[z + i]]
      /\ IsSeq(SubSeq(s, z + 1, z + n)) /\ Len(SubSeq(s, z + 1, z + n)) = n
  BY <1>1, Slice
<1>3. [i \in 1..n |-> s[z + i]] = [i \in 1..n |-> s[i]]
  BY <1>1
<1>4. QED
  BY <1>1, <1>2, <1>3

(* One array behind the other.                                             *)
LEMMA Concat ==
  ASSUME NEW s, NEW t, IsSeq(s), IsSeq(t)
  PROVE  /\ IsSeq(s \o t) /\ Len(s \o t) = Len(s) + Len(t)
         /\ \A i \in 1..Len(s) : (s \o t)[i] = s[i]
         /\ \A i \in 1..Len(t) : (s \o t)[Len(s) + i] = t[i]
<1> DEFINE S == {s[i] : i \in DOMAIN s} \cup {t[i] : i \in DOMAIN t}
           c == s \o t
<1>1. s \in Seq(S) /\ t \in Seq(S)
  BY SeqMonotonic DEF IsSeq
<1>2. Len(s) \in Nat /\ Len(t) \in Nat
  BY SeqFcn
<1>3. /\ c \in Seq(S) /\ Len(c) = Len(s) + Len(t)
      /\ \A i \in 1..Len(s) + Len(t) : c[i] = IF i <= Len(s) THEN s[i] ELSE t[i - Len(s)]
  <2> HIDE DEF S
  <2>1. QED
    BY <1>1, ConcatProperties
<1>4. IsSeq(c)
  <2> HIDE DEF S, c
  <2>1. QED
    BY <1>3, TokensSeq
<1>5. ASSUME NEW i \in 1..Len(s) PROVE c[i] = s[i]
  <2> HIDE DEF c
  <2>1. QED
    BY <1>2, <1>3
<1>6. ASSUME NEW i \in 1..Len(t) PROVE c[Len(s) + i] = t[i]
  <2> HIDE DEF c
  <2>1. Len(s) + i \in 1..Len(s) + Len(t) /\ ~(Len(s) + i <= Len(s)) /\ (Len(s) + i) - Len(s) = i
    BY <1>2
  <2>2. QED
    BY <1>3, <2>1
<1>7. QED
  BY <1>3, <1>4, <1>5, <1>6

(* The smaller of two lengths.                                             *)
LEMMA Min2 ==
  ASSUME NEW m \in Int, NEW n \in Int
  PROVE  Min({m, n}) = IF m <= n THEN m ELSE n
<1>1. CASE m <= n
  <2>1. \A z \in {m, n} : m <= z
    BY <1>1
  <2>2. \A z \in {m, n} : (\A y \in {m, n} : z <= y) => z = m
    BY <1>1
  <2>3. Min({m, n}) = m
    BY <2>1, <2>2, Zenon DEF Min
  <2>4. QED
    BY <1>1, <2>3
<1>2. CASE ~(m <= n)
  <2>1. \A z \in {m, n} : n <= z
    BY <1>2
  <2>2. \A z \in {m, n} : (\A y \in {m, n} : z <= y) => z = n
    BY <1>2
  <2>3. Min({m, n}) = n
    BY <2>1, <2>2, Zenon DEF Min
  <2>4. QED
    BY <1>2, <2>3
<1>3. QED
  BY <1>1, <1>2

-----------------------------------------------------------------------------
(* ---- the control state -------------------------------------------------- *)

(* No tokens and no rows.                                                  *)
LEMMA Nothing == <<>> \in Seq(Vocab) /\ IsSeq(<<>>) /\ Len(<<>>) = 0
<1>1. <<>> \in Seq(Vocab) /\ Len(<<>>) = 0
  BY EmptySeq
<1>2. QED
  BY <1>1, TokensSeq

(* The clients clip a prompt to the room that is left: what they pass on   *)
(* is a prefix of it that fits, and not empty.                             *)
LEMMA Clipped ==
  ASSUME NEW prompt \in Seq(Vocab), NEW room \in Nat
  PROVE  /\ Clip(prompt, room) \in Seq(Vocab)
         /\ Len(Clip(prompt, room)) = IF Len(prompt) <= room THEN Len(prompt) ELSE room
         /\ \A i \in 1..Len(Clip(prompt, room)) : Clip(prompt, room)[i] = prompt[i]
         /\ prompt # <<>> /\ room # 0 => Len(Clip(prompt, room)) >= 1
<1> DEFINE n == IF Len(prompt) <= room THEN Len(prompt) ELSE room
           c == SubSeq(prompt, 1, n)
<1>1. Len(prompt) \in Nat /\ \A i \in 1..Len(prompt) : prompt[i] \in Vocab
  BY TokensSeq
<1>2. Min({Len(prompt), room}) = n
  BY <1>1, Min2
<1>3. Clip(prompt, room) = c
  BY <1>2 DEF Clip
<1>4. n \in Nat /\ n <= Len(prompt)
  BY <1>1
<1>5. prompt # <<>> => Len(prompt) >= 1
  <2>1. prompt # <<>> => Len(prompt) \in Nat \ {0}
    BY EmptySeq
  <2>2. QED
    BY <2>1
<1>6. prompt # <<>> /\ room # 0 => n >= 1
  BY <1>1, <1>5
<1>7. c = [i \in 1..n |-> prompt[i]] /\ IsSeq(c) /\ Len(c) = n
  <2> HIDE DEF n
  <2>1. QED
    BY <1>4, Prefix
<1> HIDE DEF c
<1>8. \A i \in 1..Len(c) : c[i] = prompt[i] /\ c[i] \in Vocab
  <2> HIDE DEF n
  <2>1. QED
    BY <1>1, <1>4, <1>7
<1>9. c \in Seq(Vocab)
  BY <1>7, <1>8, SeqInto
<1>10. QED
  BY <1>3, <1>6, <1>7, <1>8, <1>9

(* One turn of the chunk loop of graph_execute: the chunk has rows, its    *)
(* tokens are the next ones of the batch, and they are written behind the  *)
(* rows before them.                                                       *)
LEMMA ChunkStarted ==
  ASSUME ControlInv, StartChunk
  PROVE  /\ Len(x') \in 1..UBatch /\ done + Len(x') <= Len(batch) /\ IsSeq(x')
         /\ \A r \in 1..Len(x') : x'[r] = <<batch[done + r]>>
         /\ tokens' = [p \in 1..Ctx |-> IF p \in (Pos + 1)..(Pos + Len(x'))
                                        THEN batch[done + (p - Pos)] ELSE tokens[p]]
<1> DEFINE n == ChunkRows
           row == SubSeq(batch, done + 1, done + n)
<1>1. /\ Len(batch) \in Nat /\ done \in Nat /\ done < Len(batch) /\ UBatch \in Nat /\ UBatch >= 1
      /\ n_tokens \in Nat
  BY SessionAssumption, TokensSeq DEF ControlInv, Types, PassTypes, BufferTypes, BatchFits, StartChunk
<1>2. n \in 1..UBatch /\ done + n <= Len(batch)
  <2>1. n = IF Len(batch) - done <= UBatch THEN Len(batch) - done ELSE UBatch
    BY <1>1, Min2 DEF ChunkRows
  <2>2. QED
    BY <1>1, <2>1
<1>3. row = [i \in 1..n |-> batch[done + i]] /\ Len(row) = n
  <2> HIDE DEF n
  <2>1. n \in Nat
    BY <1>1, <1>2
  <2>2. QED
    BY <1>1, <2>1, Slice
<1>4. /\ tokens' = [p \in 1..Ctx |-> IF p \in (Pos + 1)..(Pos + Len(row))
                                     THEN row[p - Pos] ELSE tokens[p]]
      /\ x' = [r \in 1..Len(row) |-> <<row[r]>>]
  BY DEF StartChunk
<1> HIDE DEF row, n
<1>5. x' = [r \in 1..n |-> <<batch[done + r]>>]
  BY <1>3, <1>4
<1>6. x' = [r \in 1..n |-> x'[r]]
  BY <1>5
<1>7. IsSeq(x') /\ Len(x') = n
  <2>1. n \in Nat
    BY <1>1, <1>2
  <2>2. QED
    BY <1>6, <2>1, FcnSeq
<1>8. tokens' = [p \in 1..Ctx |-> IF p \in (Pos + 1)..(Pos + n)
                                  THEN batch[done + (p - Pos)] ELSE tokens[p]]
  <2>1. Pos \in Nat
    BY <1>1 DEF Pos
  <2>2. \A p \in (Pos + 1)..(Pos + n) : p - Pos \in 1..n
    BY <1>2, <2>1
  <2>3. \A p \in (Pos + 1)..(Pos + n) : row[p - Pos] = batch[done + (p - Pos)]
    BY <1>3, <2>2
  <2>4. QED
    BY <1>3, <1>4, <2>3
<1>9. \A r \in 1..n : x'[r] = <<batch[done + r]>>
  BY <1>5
<1>10. QED
  BY <1>2, <1>7, <1>8, <1>9

(* op_attn stores the rows of the chunk at their positions, and every row  *)
(* becomes what the cache holds up to its position.                        *)
LEMMA Attended ==
  ASSUME ControlInv, NEW o \in AttentionOps, Attend(o)
  PROVE  /\ kv' = [q \in AttentionOps |-> IF q = o THEN kv'[o] ELSE kv[q]]
         /\ kv'[o] = [p \in 1..Ctx |-> IF p \in (Pos + 1)..(Pos + Len(x))
                                       THEN x[p - Pos] ELSE kv[o][p]]
         /\ rec' = rec /\ IsSeq(x') /\ Len(x') = Len(x)
         /\ \A r \in 1..Len(x) : x'[r] = SubSeq(kv'[o], 1, Pos + r)
<1> DEFINE new == [p \in 1..Ctx |-> IF p \in (Pos + 1)..(Pos + Len(x))
                                    THEN x[p - Pos] ELSE kv[o][p]]
<1>1. /\ kv' = [kv EXCEPT ![o] = new]
      /\ x' = [r \in 1..Len(x) |-> SubSeq(new, 1, Pos + r)]
      /\ rec' = rec
  BY DEF Attend
<1>2. kv = [q \in AttentionOps |-> kv[q]]
  BY DEF ControlInv, Types, CacheTypes
<1>3. Len(x) \in Nat
  BY SeqFcn DEF ControlInv, Types, PassTypes
<1> HIDE DEF new
<1>4. kv'[o] = new /\ kv' = [q \in AttentionOps |-> IF q = o THEN new ELSE kv[q]]
  BY <1>1, <1>2
<1>5. x' = [r \in 1..Len(x) |-> x'[r]] /\ \A r \in 1..Len(x) : x'[r] = SubSeq(new, 1, Pos + r)
  BY <1>1
<1>6. IsSeq(x') /\ Len(x') = Len(x)
  BY <1>3, <1>5, FcnSeq
<1>7. QED
  BY <1>1, <1>4, <1>5, <1>6 DEF new

(* The recurrent operations consume the rows of the chunk in order.        *)
LEMMA Recurred ==
  ASSUME ControlInv, NEW o \in Recurrent, Recur(o)
  PROVE  /\ rec' = [q \in Recurrent |-> IF q = o THEN rec'[o] ELSE rec[q]]
         /\ IsSeq(rec'[o]) /\ Len(rec[o]) \in Nat /\ Len(rec'[o]) = Len(rec[o]) + Len(x)
         /\ \A i \in 1..Len(rec[o]) : rec'[o][i] = rec[o][i]
         /\ \A i \in 1..Len(x) : rec'[o][Len(rec[o]) + i] = x[i]
         /\ kv' = kv /\ IsSeq(x') /\ Len(x') = Len(x)
         /\ \A r \in 1..Len(x) : x'[r] = SubSeq(rec'[o], 1, Len(rec[o]) + r)
<1> DEFINE new == rec[o] \o x
<1>1. /\ rec' = [rec EXCEPT ![o] = new]
      /\ x' = [r \in 1..Len(x) |-> SubSeq(new, 1, Len(rec[o]) + r)]
      /\ kv' = kv
  BY DEF Recur
<1>2. rec = [q \in Recurrent |-> rec[q]] /\ IsSeq(rec[o])
  BY DEF ControlInv, Types, CacheTypes
<1>3. Len(x) \in Nat /\ IsSeq(x) /\ Len(rec[o]) \in Nat
  BY <1>2, SeqFcn DEF ControlInv, Types, PassTypes
<1>4. /\ IsSeq(new) /\ Len(new) = Len(rec[o]) + Len(x)
      /\ \A i \in 1..Len(rec[o]) : new[i] = rec[o][i]
      /\ \A i \in 1..Len(x) : new[Len(rec[o]) + i] = x[i]
  BY <1>2, <1>3, Concat
<1> HIDE DEF new
<1>5. rec'[o] = new /\ rec' = [q \in Recurrent |-> IF q = o THEN new ELSE rec[q]]
  BY <1>1, <1>2
<1>6. /\ x' = [r \in 1..Len(x) |-> x'[r]]
      /\ \A r \in 1..Len(x) : x'[r] = SubSeq(new, 1, Len(rec[o]) + r)
  BY <1>1
<1>7. IsSeq(x') /\ Len(x') = Len(x)
  BY <1>3, <1>6, FcnSeq
<1>8. QED
  BY <1>1, <1>3, <1>4, <1>5, <1>6, <1>7

(* A pass over one chunk keeps the caches caches.                          *)
LEMMA ComputeControl == ASSUME ControlInv, ComputeOp, UNCHANGED client PROVE ControlInv'
<1>1. /\ pc = "pass" /\ pc' = pc /\ op' = op + 1 /\ op \in 1..Ops
      /\ UNCHANGED <<tokens, n_tokens, batch, done, next, n_gen, first_turn, seen, broken>>
  BY SessionAssumption DEF ComputeOp, ControlInv, Types, PassTypes
<1>2. CacheTypes' /\ IsSeq(x') /\ Len(x') = Len(x)
  <2>1. CASE op \in Recurrent
    <3>1. Recur(op)
      BY <2>1 DEF ComputeOp
    <3>2. /\ rec' = [q \in Recurrent |-> IF q = op THEN rec'[op] ELSE rec[q]]
          /\ IsSeq(rec'[op]) /\ kv' = kv /\ IsSeq(x') /\ Len(x') = Len(x)
      BY <2>1, <3>1, Recurred
    <3>3. rec' = [q \in Recurrent |-> rec'[q]]
      BY <3>2
    <3>4. ASSUME NEW q \in Recurrent PROVE IsSeq(rec'[q])
      <4>1. CASE q = op
        BY <3>2, <4>1
      <4>2. CASE q # op
        <5>1. rec'[q] = rec[q]
          BY <3>2, <4>2
        <5>2. IsSeq(rec[q])
          BY DEF ControlInv, Types, CacheTypes
        <5>3. QED
          BY <5>1, <5>2
      <4>3. QED
        BY <4>1, <4>2
    <3>5. QED
      BY <3>2, <3>3, <3>4 DEF ControlInv, Types, CacheTypes
  <2>2. CASE op \notin Recurrent
    <3>1. Attend(op) /\ op \in AttentionOps
      BY <1>1, <2>2 DEF ComputeOp, AttentionOps
    <3>2. /\ kv' = [q \in AttentionOps |-> IF q = op THEN kv'[op] ELSE kv[q]]
          /\ kv'[op] = [p \in 1..Ctx |-> IF p \in (Pos + 1)..(Pos + Len(x))
                                         THEN x[p - Pos] ELSE kv[op][p]]
          /\ rec' = rec /\ IsSeq(x') /\ Len(x') = Len(x)
      BY <3>1, Attended
    <3>3. kv' = [q \in AttentionOps |-> kv'[q]]
      BY <3>2
    <3>4. kv'[op] = [p \in 1..Ctx |-> kv'[op][p]]
      BY <3>2
    <3>5. ASSUME NEW q \in AttentionOps PROVE kv'[q] = [p \in 1..Ctx |-> kv'[q][p]]
      <4>1. CASE q = op
        BY <3>4, <4>1
      <4>2. CASE q # op
        <5>1. kv'[q] = kv[q]
          BY <3>2, <4>2
        <5>2. kv[q] = [p \in 1..Ctx |-> kv[q][p]]
          BY DEF ControlInv, Types, CacheTypes
        <5>3. QED
          BY <5>1, <5>2
      <4>3. QED
        BY <4>1, <4>2
    <3>6. QED
      BY <3>2, <3>3, <3>5 DEF ControlInv, Types, CacheTypes
  <2>3. QED
    BY <2>1, <2>2
<1>3. PassTypes' /\ BufferTypes'
  BY <1>1, <1>2, SessionAssumption DEF ControlInv, Types, PassTypes, BufferTypes
<1>4. BatchFits'
  BY <1>1, <1>2 DEF ControlInv, BatchFits
<1>5. QED
  BY <1>1, <1>2, <1>3, <1>4 DEF ControlInv, Types, ClientTypes

(* The other steps of graph_execute.                                       *)
LEMMA ChunkControl == ASSUME ControlInv, StartChunk, UNCHANGED client PROVE ControlInv'
<1>1. /\ pc = "chunk" /\ pc' = "pass" /\ op' = 1
      /\ UNCHANGED <<n_tokens, cache, batch, done, next, n_gen, first_turn, seen, broken>>
  BY DEF StartChunk
<1>2. /\ Len(x') \in 1..UBatch /\ done + Len(x') <= Len(batch) /\ IsSeq(x')
      /\ tokens' = [p \in 1..Ctx |-> IF p \in (Pos + 1)..(Pos + Len(x'))
                                     THEN batch[done + (p - Pos)] ELSE tokens[p]]
  BY ChunkStarted
<1>3. /\ Len(batch) \in Nat /\ (\A i \in 1..Len(batch) : batch[i] \in Vocab)
      /\ done \in Nat /\ n_tokens \in Nat /\ UBatch \in Nat
  BY TokensSeq, SessionAssumption DEF ControlInv, Types, PassTypes, BufferTypes
<1>4. BufferTypes'
  <2>1. Pos \in Nat /\ Len(x') \in Nat
    BY <1>2, <1>3 DEF Pos
  <2>2. ASSUME NEW p \in (Pos + 1)..(Pos + Len(x')) PROVE batch[done + (p - Pos)] \in Vocab
    <3>1. done + (p - Pos) \in 1..Len(batch)
      BY <1>2, <1>3, <2>1
    <3>2. QED
      BY <1>3, <3>1
  <2>3. \A p \in 1..Ctx : tokens[p] \in Vocab \cup {Unset}
    BY DEF ControlInv, Types, BufferTypes
  <2>4. tokens' \in [1..Ctx -> Vocab \cup {Unset}]
    BY <1>2, <2>2, <2>3
  <2>5. QED
    BY <1>1, <2>4 DEF ControlInv, Types, BufferTypes
<1>5. CacheTypes' /\ ClientTypes' /\ PassTypes'
  BY <1>1, <1>2, SessionAssumption
     DEF ControlInv, Types, CacheTypes, ClientTypes, PassTypes, cache
<1>6. BatchFits'
  BY <1>1, <1>2, <1>3 DEF ControlInv, BatchFits
<1>7. QED
  BY <1>4, <1>5, <1>6 DEF ControlInv, Types

(* The end of a pass: the batch is done or the next chunk has rows left.   *)
LEMMA EndControl == ASSUME ControlInv, EndChunk, UNCHANGED client PROVE ControlInv'
<1>1. /\ pc = "pass" /\ n_tokens' = n_tokens + Owned
      /\ UNCHANGED <<tokens, cache, next, n_gen, first_turn, seen, broken>>
  BY DEF EndChunk
<1>2. /\ Len(batch) \in Nat /\ done \in Nat /\ n_tokens \in Nat /\ Len(x) \in Nat
      /\ Len(x) >= 1 /\ Len(x) <= UBatch /\ done + Len(x) <= Len(batch)
      /\ n_tokens + Len(batch) <= Ctx /\ UBatch \in Nat /\ Ctx \in Nat
  BY <1>1, TokensSeq, SeqFcn, SessionAssumption
     DEF ControlInv, Types, PassTypes, BufferTypes, BatchFits
<1>3. BufferTypes'
  BY <1>1, <1>2 DEF ControlInv, Types, BufferTypes, Owned
<1>4. CacheTypes'
  BY <1>1 DEF ControlInv, Types, CacheTypes, cache
<1>5. CASE LastChunk
  <2>1. pc' = "sample" /\ batch' = <<>> /\ done' = 0 /\ op' = 1 /\ x' = <<>>
    BY <1>5 DEF EndChunk, Return
  <2>2. PassTypes' /\ BatchFits'
    BY <2>1, <1>2, Nothing, SessionAssumption DEF PassTypes, BatchFits
  <2>3. ClientTypes'
    BY <1>1, <2>1 DEF ControlInv, Types, ClientTypes
  <2>4. QED
    BY <1>3, <1>4, <2>2, <2>3 DEF ControlInv, Types
<1>6. CASE ~LastChunk
  <2>1. pc' = "chunk" /\ done' = done + Len(x) /\ UNCHANGED <<batch, op, x>> /\ n_tokens' = n_tokens
    BY <1>1, <1>2, <1>6 DEF EndChunk, Owned
  <2>2. done + Len(x) < Len(batch)
    BY <1>2, <1>6 DEF LastChunk
  <2>3. PassTypes' /\ BatchFits'
    BY <2>1, <2>2, <1>2 DEF ControlInv, Types, PassTypes, BatchFits
  <2>4. ClientTypes'
    BY <1>1, <2>1 DEF ControlInv, Types, ClientTypes
  <2>5. QED
    BY <1>3, <1>4, <2>3, <2>4 DEF ControlInv, Types
<1>7. QED
  BY <1>5, <1>6

(* A call of graph_execute with a batch that fits starts its chunk loop.   *)
LEMMA Executes ==
  ASSUME ControlInv, NEW b \in Seq(Vocab), NEW at \in Nat, Len(b) >= 1,
         at + Len(b) <= Ctx, Execute(b, at)
  PROVE  pc' = "chunk" /\ batch' = b /\ done' = 0 /\ op' = 1 /\ x' = <<>> /\ PassTypes'
         /\ (n_tokens' = at => BatchFits')
<1>1. Len(b) \in Nat
  BY TokensSeq
<1>2. pc' = "chunk" /\ batch' = b /\ done' = 0 /\ op' = 1 /\ x' = <<>>
  BY <1>1, SessionAssumption DEF Execute
<1>3. PassTypes'
  BY <1>1, <1>2, Nothing, SessionAssumption DEF PassTypes
<1>4. n_tokens' = at => BatchFits'
  BY <1>1, <1>2, Nothing, SessionAssumption DEF BatchFits
<1>5. QED
  BY <1>2, <1>3, <1>4

(* Nothing is in flight.                                                   *)
LEMMA Rests ==
  ASSUME batch' = <<>>, done' = 0, op' = 1, x' = <<>>,
         pc' \in {"idle", "sample", "exited"}
  PROVE  PassTypes' /\ BatchFits'
BY Nothing, SessionAssumption DEF PassTypes, BatchFits

(* graph_execute returns early with an error: nothing stays in flight.     *)
LEMMA FailsControl == ASSUME ControlInv, PassFails, UNCHANGED client PROVE ControlInv'
<1>1. /\ batch' = <<>> /\ done' = 0 /\ op' = 1 /\ x' = <<>> /\ broken' = TRUE
      /\ UNCHANGED <<tokens, n_tokens, cache, first_turn>>
  BY DEF PassFails, Return
<1>2. pc' \in {"idle", "exited"} /\ next' \in Vocab \cup {Unset} /\ n_gen' \in 0..MaxTokens
  <2>1. CASE n_gen > 0
    BY <2>1, SessionAssumption DEF PassFails, Finish
  <2>2. CASE ~(n_gen > 0)
    BY <2>2 DEF PassFails, ControlInv, Types, ClientTypes
  <2>3. QED
    BY <2>1, <2>2
<1>4. PassTypes' /\ BatchFits'
  BY <1>1, <1>2, Rests
<1>5. QED
  BY <1>1, <1>2, <1>4
     DEF ControlInv, Types, ClientTypes, CacheTypes, BufferTypes, cache

(* handle_request passes on a prompt clipped to the context, to a session  *)
(* it has reset.                                                           *)
LEMMA Requested ==
  ASSUME ControlInv, Request
  PROVE  /\ \E prompt \in Opening \ {<<>>} : batch' = Clip(prompt, Ctx)
         /\ batch' \in Seq(Vocab) /\ script' = batch' /\ held' = [i \in DOMAIN batch' |-> i]
         /\ pc = "idle" /\ pc' = "chunk" /\ done' = 0 /\ op' = 1 /\ x' = <<>>
         /\ client = "server" /\ Reset /\ UNCHANGED <<tokens, logits, next, n_gen, first_turn>>
         /\ PassTypes' /\ BatchFits'
<1>1. /\ pc = "idle" /\ client = "server" /\ Reset
      /\ UNCHANGED <<tokens, logits, next, n_gen, first_turn>>
  BY DEF Request
<1>2. PICK prompt \in Opening \ {<<>>} :
        /\ script' = Clip(prompt, Ctx) /\ held' = [i \in DOMAIN Clip(prompt, Ctx) |-> i]
        /\ Execute(Clip(prompt, Ctx), 0)
  BY DEF Request
<1>3. prompt \in Seq(Vocab) /\ Ctx \in Nat /\ Ctx # 0 /\ 0 \in Nat
  BY SessionAssumption
<1> DEFINE b == Clip(prompt, Ctx)
<1>4. /\ b \in Seq(Vocab) /\ Len(b) >= 1
      /\ Len(b) = IF Len(prompt) <= Ctx THEN Len(prompt) ELSE Ctx
  BY <1>2, <1>3, Clipped
<1>5. 0 + Len(b) <= Ctx
  <2> HIDE DEF b
  <2>1. Len(prompt) \in Nat
    BY <1>3, TokensSeq
  <2>2. QED
    BY <1>3, <1>4, <2>1
<1>6. script' = b /\ held' = [i \in DOMAIN b |-> i] /\ Execute(b, 0)
  BY <1>2
<1>7. n_tokens' = 0
  BY <1>1 DEF Reset
<1>8. /\ pc' = "chunk" /\ batch' = b /\ done' = 0 /\ op' = 1 /\ x' = <<>>
      /\ PassTypes' /\ BatchFits'
  <2> HIDE DEF b
  <2>1. QED
    BY <1>3, <1>4, <1>5, <1>6, <1>7, Executes
<1>9. QED
  BY <1>1, <1>4, <1>6, <1>8

(* A turn of the chat ends the program or passes on a prompt clipped to    *)
(* the room the conversation has left.                                     *)
LEMMA Turned ==
  ASSUME ControlInv, Turn
  PROVE  /\ client = "chat" /\ pc = "idle" /\ first_turn' = FALSE
         /\ UNCHANGED <<tokens, n_tokens, cache, logits, next, n_gen, broken>>
         /\ \/ pc' = "exited" /\ UNCHANGED <<pass, seen>>
            \/ /\ \E prompt \in (IF first_turn THEN Opening ELSE Continuation) \ {<<>>} :
                     batch' = Clip(prompt, Ctx - n_tokens)
               /\ batch' \in Seq(Vocab) /\ Show(batch')
               /\ pc' = "chunk" /\ done' = 0 /\ op' = 1 /\ x' = <<>>
               /\ PassTypes' /\ BatchFits'
<1>1. client = "chat" /\ pc = "idle" /\ first_turn' = FALSE
  BY DEF Turn
<1> DEFINE P == IF first_turn THEN Opening ELSE Continuation
           room == Ctx - n_tokens
<1>2. PICK prompt \in P :
        IF prompt = <<>> THEN Exit("no tokens")
        ELSE IF room = 0 THEN Exit("context full")
        ELSE /\ Execute(Clip(prompt, room), n_tokens)
             /\ Show(Clip(prompt, room))
             /\ result' = "none"
             /\ UNCHANGED <<tokens, n_tokens, cache, logits, next, n_gen, broken>>
  BY DEF Turn
<1>3. P \subseteq Seq(Vocab)
  BY SessionAssumption
<1>4. n_tokens \in Nat /\ Ctx \in Nat /\ n_tokens <= Ctx /\ room \in Nat
  BY SessionAssumption DEF ControlInv, Types, BufferTypes
<1> HIDE DEF P, room
<1>5. CASE prompt = <<>> \/ room = 0
  <2>1. /\ pc' = "exited"
        /\ UNCHANGED <<tokens, n_tokens, cache, logits, pass, next, n_gen, seen, broken>>
    BY <1>2, <1>5 DEF Exit
  <2>2. QED
    BY <1>1, <2>1
<1>6. CASE prompt # <<>> /\ room # 0
  <2> DEFINE b == Clip(prompt, room)
  <2>1. /\ b \in Seq(Vocab) /\ Len(b) >= 1
        /\ Len(b) = IF Len(prompt) <= room THEN Len(prompt) ELSE room
    BY <1>3, <1>4, <1>6, Clipped
  <2>2. Execute(b, n_tokens) /\ Show(b)
        /\ UNCHANGED <<tokens, n_tokens, cache, logits, next, n_gen, broken>>
    BY <1>2, <1>6
  <2>3. batch' = b /\ prompt \in P \ {<<>>} => 
           \E q \in (IF first_turn THEN Opening ELSE Continuation) \ {<<>>} :
               batch' = Clip(q, Ctx - n_tokens)
    BY DEF P, room
  <2> HIDE DEF b
  <2>4. n_tokens + Len(b) <= Ctx
    <3>1. Len(prompt) \in Nat
      BY <1>3, TokensSeq
    <3>2. QED
      BY <1>4, <2>1, <3>1 DEF room
  <2>5. /\ pc' = "chunk" /\ batch' = b /\ done' = 0 /\ op' = 1 /\ x' = <<>>
        /\ PassTypes' /\ BatchFits'
    BY <1>4, <2>1, <2>2, <2>4, Executes
  <2>6. QED
    BY <1>1, <1>6, <2>1, <2>2, <2>3, <2>5
<1>7. QED
  BY <1>5, <1>6

(* A token that is shown is decoded, unless the context is full.           *)
LEMMA Generated ==
  ASSUME ControlInv, Generate
  PROVE  /\ pc = "generate" /\ next \in Vocab /\ Show(<<next>>)
         /\ UNCHANGED <<tokens, n_tokens, cache, logits, first_turn, broken>>
         /\ \/ /\ n_tokens = Ctx /\ pc' = "idle" /\ next' = Unset /\ n_gen' = 0
               /\ UNCHANGED pass
            \/ /\ n_tokens < Ctx /\ pc' = "chunk" /\ next' = next /\ n_gen' = n_gen + 1
               /\ n_gen' \in 0..MaxTokens /\ n_gen' > 0
               /\ batch' = <<next>> /\ done' = 0 /\ op' = 1 /\ x' = <<>>
               /\ PassTypes' /\ BatchFits'
<1>1. /\ pc = "generate" /\ next # Eos /\ n_gen < MaxTokens /\ Show(<<next>>)
      /\ UNCHANGED <<tokens, n_tokens, cache, logits, first_turn, broken>>
  BY DEF Generate
<1>2. next \in Vocab
  BY <1>1 DEF ControlInv, BatchFits
<1>4. n_tokens \in Nat /\ Ctx \in Nat /\ n_tokens <= Ctx
  BY SessionAssumption DEF ControlInv, Types, BufferTypes
<1>5. CASE n_tokens >= Ctx
  <2>1. pc' = "idle" /\ next' = Unset /\ n_gen' = 0 /\ UNCHANGED pass
    BY <1>5 DEF Generate, Finish
  <2>2. QED
    BY <1>1, <1>2, <1>4, <1>5, <2>1
<1>6. CASE ~(n_tokens >= Ctx)
  <2>1. n_gen' = n_gen + 1 /\ next' = next /\ Execute(<<next>>, n_tokens)
    BY <1>6 DEF Generate
  <2>2. <<next>> \in Seq(Vocab) /\ Len(<<next>>) = 1
    BY <1>2
  <2>3. /\ pc' = "chunk" /\ batch' = <<next>> /\ done' = 0 /\ op' = 1 /\ x' = <<>>
        /\ PassTypes' /\ BatchFits'
    <3> DEFINE b == <<next>>
    <3>1. b \in Seq(Vocab) /\ Len(b) = 1 /\ Execute(b, n_tokens)
      BY <2>1, <2>2
    <3> HIDE DEF b
    <3>2. Len(b) >= 1 /\ n_tokens + Len(b) <= Ctx
      BY <1>4, <1>6, <3>1
    <3>3. /\ pc' = "chunk" /\ batch' = b /\ done' = 0 /\ op' = 1 /\ x' = <<>>
          /\ PassTypes' /\ BatchFits'
      BY <1>1, <1>4, <3>1, <3>2, Executes
    <3>4. QED
      BY <3>3 DEF b
  <2>4. n_gen' \in 0..MaxTokens /\ n_gen' > 0
    BY <1>1, <2>1, SessionAssumption DEF ControlInv, Types, ClientTypes
  <2>5. QED
    BY <1>1, <1>2, <1>4, <1>6, <2>1, <2>3, <2>4
<1>7. QED
  BY <1>5, <1>6

(* The initial session is empty.                                           *)
LEMMA InitControl == Init => ControlInv
<1> SUFFICES ASSUME Init PROVE ControlInv
  OBVIOUS
<1>1. BufferTypes
  BY SessionAssumption DEF Init, BufferTypes
<1>2. CacheTypes
  <2>1. kv = [o \in AttentionOps |-> kv[o]] /\ rec = [o \in Recurrent |-> rec[o]]
    BY DEF Init
  <2>2. \A o \in AttentionOps : kv[o] = [p \in 1..Ctx |-> kv[o][p]]
    BY DEF Init
  <2>3. \A o \in Recurrent : rec[o] = <<>>
    BY DEF Init
  <2>4. QED
    BY <2>1, <2>2, <2>3, Nothing DEF CacheTypes
<1>3. PassTypes
  BY Nothing, SessionAssumption DEF Init, PassTypes
<1>4. broken \in BOOLEAN /\ first_turn \in BOOLEAN
  BY DEF Init
<1>5. ClientTypes
  BY <1>4, Nothing, SessionAssumption DEF Init, ClientTypes
<1>6. BatchFits
  BY Nothing, SessionAssumption DEF Init, BatchFits
<1>7. QED
  BY <1>1, <1>2, <1>3, <1>5, <1>6 DEF ControlInv, Types

(* The steps that change neither the session nor a batch.                  *)
LEMMA LoopControl ==
  ASSUME ControlInv, Sample \/ EndGeneration \/ Generate, UNCHANGED client
  PROVE  ControlInv'
<1>1. CASE Sample
  <2>1. /\ pc' = "generate" /\ next' \in Vocab /\ pc = "sample"
        /\ UNCHANGED <<tokens, n_tokens, cache, pass, n_gen, first_turn, seen, broken>>
    BY <1>1 DEF Sample
  <2>2. BufferTypes' /\ CacheTypes' /\ PassTypes' /\ BatchFits'
    BY <2>1 DEF ControlInv, Types, BufferTypes, CacheTypes, PassTypes, BatchFits, cache, pass
  <2>3. ClientTypes'
    BY <2>1 DEF ControlInv, Types, ClientTypes
  <2>4. QED
    BY <2>2, <2>3 DEF ControlInv, Types
<1>2. CASE EndGeneration
  <2>1. /\ pc = "generate" /\ pc' = "idle" /\ next' = Unset /\ n_gen' = 0
        /\ UNCHANGED <<tokens, n_tokens, cache, pass, first_turn, seen, broken>>
    BY <1>2 DEF EndGeneration, Finish
  <2>2. BufferTypes' /\ CacheTypes' /\ PassTypes' /\ BatchFits'
    BY <2>1 DEF ControlInv, Types, BufferTypes, CacheTypes, PassTypes, BatchFits, cache, pass
  <2>3. ClientTypes'
    BY <2>1, SessionAssumption DEF ControlInv, Types, ClientTypes
  <2>4. QED
    BY <2>2, <2>3 DEF ControlInv, Types
<1>3. CASE Generate
  <2>1. /\ pc = "generate"
        /\ UNCHANGED <<tokens, n_tokens, cache, first_turn, broken>>
    BY <1>3, Generated
  <2>2. /\ pc' \in {"idle", "chunk"} /\ next' \in Vocab \cup {Unset} /\ n_gen' \in 0..MaxTokens
        /\ PassTypes' /\ BatchFits'
    <3>1. CASE pc' = "idle" /\ next' = Unset /\ n_gen' = 0 /\ UNCHANGED pass
      BY <2>1, <3>1, SessionAssumption DEF ControlInv, Types, PassTypes, BatchFits, pass
    <3>2. CASE /\ pc' = "chunk" /\ next' = next /\ n_gen' \in 0..MaxTokens
               /\ PassTypes' /\ BatchFits'
      BY <3>2 DEF ControlInv, Types, ClientTypes
    <3>3. QED
      BY <1>3, <3>1, <3>2, Generated
  <2>3. ClientTypes' /\ BufferTypes' /\ CacheTypes'
    BY <2>1, <2>2 DEF ControlInv, Types, ClientTypes, BufferTypes, CacheTypes, cache
  <2>4. QED
    BY <2>2, <2>3 DEF ControlInv, Types
<1>4. QED
  BY <1>1, <1>2, <1>3

(* What the user makes the program do.                                     *)
LEMMA ArrivalControl == ASSUME ControlInv, Arrival PROVE ControlInv'
<1>0. UNCHANGED client
  BY DEF Arrival
<1>1. CASE RefuseRequest
  BY <1>0, <1>1 DEF RefuseRequest, ControlInv, Types, BufferTypes, CacheTypes, PassTypes,
     ClientTypes, BatchFits, cache, pass
<1>2. ASSUME Reset, UNCHANGED tokens PROVE BufferTypes' /\ CacheTypes' /\ broken' \in BOOLEAN
  <2>1. /\ n_tokens' = 0 /\ rec' = [o \in Recurrent |-> <<>>] /\ kv' = kv /\ broken' \in BOOLEAN
    BY <1>2 DEF Reset
  <2>2. rec' = [o \in Recurrent |-> rec'[o]] /\ \A o \in Recurrent : rec'[o] = <<>>
    BY <2>1
  <2>3. CacheTypes'
    BY <2>1, <2>2, Nothing DEF ControlInv, Types, CacheTypes
  <2>4. QED
    BY <1>2, <2>1, <2>3, SessionAssumption DEF ControlInv, Types, BufferTypes
<1>3. CASE Request
  <2>1. /\ batch' \in Seq(Vocab) /\ pc' = "chunk" /\ Reset
        /\ UNCHANGED <<tokens, next, n_gen, first_turn>> /\ PassTypes' /\ BatchFits'
    BY <1>3, Requested
  <2>2. BufferTypes' /\ CacheTypes' /\ broken' \in BOOLEAN
    BY <1>2, <2>1
  <2>3. ClientTypes'
    BY <1>0, <2>1, <2>2 DEF ControlInv, Types, ClientTypes
  <2>4. QED
    BY <2>1, <2>2, <2>3 DEF ControlInv, Types
<1>4. CASE Turn
  <2>1. /\ pc = "idle" /\ first_turn' \in BOOLEAN
        /\ UNCHANGED <<tokens, n_tokens, cache, next, n_gen, broken>>
    BY <1>4, Turned
  <2>2. pc' \in {"exited", "chunk"} /\ PassTypes' /\ BatchFits'
    <3>1. CASE pc' = "exited" /\ UNCHANGED pass
      BY <2>1, <3>1 DEF ControlInv, Types, ClientTypes, PassTypes, BatchFits, pass
    <3>2. CASE pc' = "chunk" /\ PassTypes' /\ BatchFits'
      BY <3>2
    <3>3. QED
      BY <1>4, <3>1, <3>2, Turned
  <2>3. ClientTypes' /\ BufferTypes' /\ CacheTypes'
    BY <1>0, <2>1, <2>2 DEF ControlInv, Types, ClientTypes, BufferTypes, CacheTypes, cache
  <2>4. QED
    BY <2>2, <2>3 DEF ControlInv, Types
<1>5. CASE Clear
  <2>1. /\ pc = "idle" /\ Reset /\ first_turn' \in BOOLEAN
        /\ UNCHANGED <<tokens, pass, pc, next, n_gen>>
    BY <1>5 DEF Clear
  <2>2. BufferTypes' /\ CacheTypes' /\ broken' \in BOOLEAN
    BY <1>2, <2>1
  <2>3. ClientTypes' /\ PassTypes' /\ BatchFits'
    BY <1>0, <2>1, <2>2, Nothing DEF ControlInv, Types, ClientTypes, PassTypes, BatchFits, pass
  <2>4. QED
    BY <2>2, <2>3 DEF ControlInv, Types
<1>6. CASE Quit
  BY <1>0, <1>6 DEF Quit, Exit, ControlInv, Types, BufferTypes, CacheTypes, PassTypes,
     ClientTypes, BatchFits, cache, pass
<1>7. QED
  BY <1>1, <1>3, <1>4, <1>5, <1>6 DEF Arrival

(* Every step of the session keeps its control state.                      *)
LEMMA NextControl == ASSUME ControlInv, [Next]_vars PROVE ControlInv'
<1>1. CASE Running
  BY <1>1, ChunkControl, ComputeControl, EndControl, LoopControl, FailsControl
     DEF Running, Pass, Loop
<1>2. CASE Arrival
  BY <1>2, ArrivalControl
<1>3. CASE UNCHANGED vars
  BY <1>3 DEF ControlInv, Types, BufferTypes, CacheTypes, PassTypes, ClientTypes, BatchFits,
     vars, cache, pass
<1>4. QED
  BY <1>1, <1>2, <1>3 DEF Next

(* The control state of the session is sound in every reachable state.     *)
LEMMA AlwaysControl == Spec => []ControlInv
<1>1. Init => ControlInv
  BY InitControl
<1>2. ControlInv /\ [Next]_vars => ControlInv'
  BY NextControl
<1>3. QED
  BY <1>1, <1>2, PTL DEF Spec

(* Clipping prompts to the room left, and leaving the generation loop when *)
(* the context is full, is enough: graph_execute is never called with a    *)
(* batch that runs over the token buffer and the caches.                   *)
THEOREM BatchesFit == Spec => []NeverRefused
<1>1. ControlInv => NeverRefused
  BY DEF ControlInv, Types, ClientTypes, NeverRefused
<1>2. QED
  BY <1>1, AlwaysControl, PTL

-----------------------------------------------------------------------------
(* ---- the transcript ----------------------------------------------------- *)

(* The history as an array.                                                *)
LEMMA HistoryIs ==
  ASSUME ControlInv
  PROVE  /\ n_tokens \in Nat /\ IsSeq(History) /\ Len(History) = n_tokens
         /\ History = [i \in 1..n_tokens |-> tokens[i]]
<1>1. n_tokens \in Nat
  BY SessionAssumption DEF ControlInv, Types, BufferTypes
<1>2. QED
  BY <1>1, Prefix DEF History

(* A step that writes behind the session's tokens leaves its history.      *)
LEMMA HistorySame ==
  ASSUME ControlInv, n_tokens' = n_tokens, \A i \in 1..n_tokens : tokens'[i] = tokens[i]
  PROVE  History' = History
<1>1. n_tokens \in Nat /\ History = [i \in 1..n_tokens |-> tokens[i]]
  BY HistoryIs
<1>2. SubSeq(tokens', 1, n_tokens) = [i \in 1..n_tokens |-> tokens'[i]]
  BY <1>1, Prefix
<1>3. History' = SubSeq(tokens', 1, n_tokens)
  BY DEF History
<1>4. QED
  BY <1>1, <1>2, <1>3

(* A session that was reset has no history.                                *)
LEMMA HistoryNone == ASSUME n_tokens' = 0 PROVE History' = <<>>
<1>1. History' = SubSeq(tokens', 1, n_tokens')
  BY DEF History
<1>2. SubSeq(tokens', 1, 0) = <<>>
  BY SubSeqEmpty
<1>3. QED
  BY <1>1, <1>2

(* A conversation that goes on still starts the same way.                  *)
LEMMA StillOpened ==
  ASSUME ControlInv, n_tokens > 0, Opened, n_tokens' \in Nat, n_tokens <= n_tokens',
         \A i \in 1..n_tokens : tokens'[i] = tokens[i]
  PROVE  Opened'
<1>1. PICK prompt \in Opening \ {<<>>} :
        /\ Len(Clip(prompt, Ctx)) <= n_tokens
        /\ \A i \in 1..Len(Clip(prompt, Ctx)) : tokens[i] = prompt[i]
  BY DEF Opened
<1> DEFINE n == Len(Clip(prompt, Ctx))
<1>2. n \in Nat
  <2>1. prompt \in Seq(Vocab) /\ Ctx \in Nat
    BY SessionAssumption
  <2>2. Clip(prompt, Ctx) \in Seq(Vocab)
    BY <2>1, Clipped
  <2>3. QED
    BY <2>2, TokensSeq
<1>3. n <= n_tokens /\ \A i \in 1..n : tokens[i] = prompt[i]
  BY <1>1
<1>4. n_tokens \in Nat
  BY HistoryIs
<1>5. n <= n_tokens' /\ \A i \in 1..n : tokens'[i] = prompt[i]
  <2> HIDE DEF n
  <2>1. QED
    BY <1>2, <1>3, <1>4
<1>6. n_tokens' # 0
  BY <1>4
<1>7. QED
  BY <1>5, <1>6 DEF Opened

(* What the session holds of the script is an array of tokens.             *)
LEMMA KeptSeq ==
  ASSUME HeldSound
  PROVE  /\ Kept \in Seq(Vocab) /\ IsSeq(Kept) /\ Len(Kept) = Len(held)
         /\ Len(held) \in Nat /\ DOMAIN held = 1..Len(held)
         /\ Kept = [i \in 1..Len(held) |-> script[held[i]]]
<1>1. Len(held) \in Nat /\ DOMAIN held = 1..Len(held) /\ \A i \in 1..Len(held) : held[i] \in 1..Len(script)
  BY TokensSeq DEF HeldSound
<1>2. \A i \in 1..Len(script) : script[i] \in Vocab
  BY TokensSeq DEF HeldSound
<1>3. Kept = [i \in 1..Len(held) |-> script[held[i]]]
  BY <1>1 DEF Kept
<1>4. \A i \in 1..Len(held) : Kept[i] \in Vocab
  BY <1>1, <1>2, <1>3
<1>5. IsSeq(Kept) /\ Len(Kept) = Len(held)
  <2> DEFINE n == Len(held)
  <2>1. n \in Nat /\ Kept = [i \in 1..n |-> Kept[i]]
    BY <1>1, <1>3
  <2> HIDE DEF n
  <2>2. IsSeq(Kept) /\ Len(Kept) = n
    BY <2>1, FcnSeq
  <2>3. QED
    BY <2>2 DEF n
<1>6. QED
  BY <1>1, <1>3, <1>4, <1>5, SeqInto

(* Without a failed pass, that is all of it.                               *)
LEMMA AllKept == ASSUME HeldSound, ~broken PROVE Kept = script
<1>1. IsSeq(script) /\ Len(script) \in Nat
  BY TokensSeq DEF HeldSound
<1>2. held = [i \in 1..Len(script) |-> i] /\ DOMAIN held = 1..Len(script)
  BY DEF HeldSound
<1>3. script = [i \in 1..Len(script) |-> script[i]]
  BY <1>1, SeqFcn
<1>4. Kept = [i \in 1..Len(script) |-> script[i]]
  BY <1>2 DEF Kept
<1>5. QED
  BY <1>3, <1>4

(* A request begins a script of its own.                                   *)
LEMMA Begun ==
  ASSUME NEW b \in Seq(Vocab), script' = b, held' = [i \in DOMAIN b |-> i]
  PROVE  HeldSound' /\ Kept' = b
<1>1. Len(b) \in Nat /\ DOMAIN b = 1..Len(b) /\ IsSeq(b) /\ b = [i \in 1..Len(b) |-> b[i]]
  BY TokensSeq, SeqFcn
<1> DEFINE n == Len(b)
           h == [i \in 1..n |-> i]
<1>2. held' = h
  BY <1>1
<1>3. h \in [1..n -> 1..n] /\ \A i \in 1..n : h[i] = i
  OBVIOUS
<1>4. n \in Nat /\ DOMAIN b = 1..n
  BY <1>1
<1> HIDE DEF n
<1>5. Len(h) = n
  <2>1. h = [i \in 1..n |-> h[i]]
    BY <1>3
  <2> HIDE DEF h
  <2>2. QED
    BY <1>4, <2>1, FcnSeq
<1>6. h \in Seq(1..n)
  BY <1>3, <1>4, SeqDef
<1>7. \A i, j \in 1..n : i < j => h[i] < h[j]
  BY <1>3
<1>8. HeldSound'
  BY <1>2, <1>5, <1>6, <1>7 DEF HeldSound, n
<1>9. Kept' = b
  <2>1. Kept' = [i \in 1..n |-> b[h[i]]]
    BY <1>2, <1>3 DEF Kept
  <2>2. [i \in 1..n |-> b[h[i]]] = [i \in 1..n |-> b[i]]
    BY <1>3
  <2>3. QED
    BY <1>1, <2>1, <2>2 DEF n
<1>10. QED
  BY <1>8, <1>9

(* What is shown next is held next.                                        *)
LEMMA Shown ==
  ASSUME HeldSound, NEW b \in Seq(Vocab), Show(b)
  PROVE  Kept' = Kept \o b /\ (broken' = broken => HeldSound')
<1>1. /\ IsSeq(script) /\ Len(script) \in Nat /\ IsSeq(held) /\ Len(held) \in Nat
      /\ IsSeq(b) /\ Len(b) \in Nat /\ DOMAIN b = 1..Len(b)
      /\ \A i \in 1..Len(held) : held[i] \in 1..Len(script)
  BY TokensSeq DEF HeldSound
<1> DEFINE m == Len(script)
           k == Len(held)
           n == Len(b)
           t == [i \in 1..n |-> m + i]
<1>2. script' = script \o b /\ held' = held \o t
  BY <1>1 DEF Show
<1>3. m \in Nat /\ k \in Nat /\ n \in Nat /\ \A i \in 1..k : held[i] \in 1..m
  BY <1>1
<1>4. /\ IsSeq(script \o b) /\ Len(script \o b) = m + n
      /\ \A i \in 1..m : (script \o b)[i] = script[i]
      /\ \A i \in 1..n : (script \o b)[m + i] = b[i]
  BY <1>1, Concat
<1>5. script \o b \in Seq(Vocab)
  BY ConcatProperties DEF HeldSound
<1> HIDE DEF m, k, n
<1>6. IsSeq(t) /\ Len(t) = n /\ \A i \in 1..n : t[i] = m + i
  <2>1. t = [i \in 1..n |-> t[i]] /\ \A i \in 1..n : t[i] = m + i
    OBVIOUS
  <2> HIDE DEF t
  <2>2. QED
    BY <1>3, <2>1, FcnSeq
<1> HIDE DEF t
<1>7. /\ IsSeq(held') /\ Len(held') = k + n
      /\ \A i \in 1..k : held'[i] = held[i]
      /\ \A i \in 1..n : held'[k + i] = m + i
  <2>1. /\ IsSeq(held \o t) /\ Len(held \o t) = k + n
        /\ \A i \in 1..k : (held \o t)[i] = held[i]
        /\ \A i \in 1..n : (held \o t)[k + i] = t[i]
    BY <1>1, <1>6, Concat DEF k
  <2>2. QED
    BY <1>2, <1>6, <2>1
<1>8. \A j \in 1..(k + n) : j > k => j - k \in 1..n /\ held'[j] = m + (j - k)
  BY <1>3, <1>7
<1>9. \A j \in 1..(k + n) : ~(j > k) => j \in 1..k /\ held'[j] = held[j] /\ held[j] \in 1..m
  BY <1>3, <1>7
<1>10. \A j \in 1..(k + n) : held'[j] \in 1..(m + n)
  BY <1>3, <1>8, <1>9
<1>11. Kept' = Kept \o b
  <2>1. Kept = [i \in 1..k |-> script[held[i]]] /\ IsSeq(Kept) /\ Len(Kept) = k
    BY KeptSeq DEF k
  <2>2. /\ IsSeq(Kept \o b) /\ Len(Kept \o b) = k + n
        /\ \A i \in 1..k : (Kept \o b)[i] = Kept[i]
        /\ \A i \in 1..n : (Kept \o b)[k + i] = b[i]
    <3>1. /\ Len(Kept \o b) = Len(Kept) + Len(b) /\ IsSeq(Kept \o b)
          /\ \A i \in 1..Len(Kept) : (Kept \o b)[i] = Kept[i]
          /\ \A i \in 1..Len(b) : (Kept \o b)[Len(Kept) + i] = b[i]
      <4>1. IsSeq(Kept) /\ IsSeq(b)
        BY <1>1, <2>1
      <4>2. QED
        BY <4>1, Concat
    <3>2. Len(Kept) = k /\ Len(b) = n
      BY <2>1 DEF n
    <3>3. QED
      BY <3>1, <3>2
  <2>3. DOMAIN held' = 1..(k + n)
    BY <1>7, SeqFcn
  <2>4. Kept' = [i \in 1..(k + n) |-> script'[held'[i]]]
    BY <2>3 DEF Kept
  <2>5. ASSUME NEW j \in 1..(k + n) PROVE script'[held'[j]] = (Kept \o b)[j]
    <3>1. CASE j > k
      <4>1. j - k \in 1..n /\ held'[j] = m + (j - k) /\ k + (j - k) = j
        BY <1>3, <1>8, <3>1
      <4>2. script'[held'[j]] = b[j - k]
        BY <1>2, <1>4, <4>1
      <4>3. (Kept \o b)[k + (j - k)] = b[j - k]
        BY <2>2, <4>1
      <4>4. QED
        BY <4>1, <4>2, <4>3
    <3>2. CASE ~(j > k)
      <4>1. j \in 1..k /\ held'[j] = held[j] /\ held[j] \in 1..m
        BY <1>9, <3>2
      <4>2. script'[held'[j]] = script[held[j]]
        BY <1>2, <1>4, <4>1
      <4>3. QED
        BY <2>1, <2>2, <4>1, <4>2
    <3>3. QED
      BY <3>1, <3>2
  <2>6. Kept \o b = [j \in 1..(k + n) |-> (Kept \o b)[j]]
    <3> DEFINE c == Kept \o b
    <3>1. IsSeq(c) /\ Len(c) = k + n
      BY <2>2
    <3> HIDE DEF c
    <3>2. c = [j \in 1..(k + n) |-> c[j]]
      BY <3>1, SeqFcn
    <3>3. QED
      BY <3>2 DEF c
  <2>7. QED
    BY <2>4, <2>5, <2>6
<1>12. ASSUME broken' = broken PROVE HeldSound'
  <2>1. script' \in Seq(Vocab) /\ Len(script') = m + n
    BY <1>2, <1>4, <1>5
  <2>2. held' \in Seq(1..(m + n))
    BY <1>7, <1>10, SeqInto
  <2>3. ASSUME NEW i \in 1..(k + n), NEW j \in 1..(k + n), i < j PROVE held'[i] < held'[j]
    <3>1. CASE j > k
      BY <1>3, <1>8, <1>9, <2>3, <3>1
    <3>2. CASE ~(j > k)
      <4>1. i \in 1..k /\ j \in 1..k /\ held'[i] = held[i] /\ held'[j] = held[j]
        BY <1>3, <1>9, <2>3, <3>2
      <4>2. held[i] < held[j]
        BY <2>3, <4>1 DEF HeldSound, k
      <4>3. QED
        BY <4>1, <4>2
    <3>3. QED
      BY <3>1, <3>2
  <2>4. ASSUME ~broken PROVE held' = [i \in 1..(m + n) |-> i]
    <3>1. held = [i \in 1..m |-> i]
      BY <2>4 DEF HeldSound, m
    <3>2. k = m /\ \A i \in 1..m : held[i] = i
      <4>1. held = [i \in 1..m |-> held[i]] /\ \A i \in 1..m : held[i] = i
        BY <3>1
      <4>2. Len(held) = m
        BY <1>3, <4>1, FcnSeq
      <4>3. QED
        BY <4>1, <4>2 DEF k
    <3>3. \A j \in 1..(m + n) : held'[j] = j
      BY <1>3, <1>8, <1>9, <3>2
    <3>4. held' = [j \in 1..(k + n) |-> held'[j]]
      BY <1>7, SeqFcn
    <3>5. QED
      BY <3>2, <3>3, <3>4
  <2>5. QED
    BY <1>7, <1>12, <2>1, <2>2, <2>3, <2>4 DEF HeldSound
<1>13. QED
  BY <1>11, <1>12

(* The end of what is held, a batch that failed, is held no longer.        *)
LEMMA Dropped ==
  ASSUME HeldSound, NEW s \in Seq(Vocab), script' = script, broken' = TRUE,
         held' = SubSeq(held, 1, Len(held) - Len(s))
  PROVE  HeldSound' /\ Kept' = SubSeq(Kept, 1, Len(Kept) - Len(s))
<1>1. /\ Len(held) \in Nat /\ Len(s) \in Nat /\ Len(Kept) = Len(held)
      /\ Kept = [i \in 1..Len(held) |-> script[held[i]]]
      /\ \A i \in 1..Len(held) : held[i] \in 1..Len(script)
  BY KeptSeq, TokensSeq DEF HeldSound
<1> DEFINE n == Len(held) - Len(s)
<1>2. n \in Int /\ n <= Len(held)
  BY <1>1
<1> HIDE DEF n
<1>3. CASE n >= 0
  <2>1. n \in Nat
    BY <1>2, <1>3
  <2>2. held' = [i \in 1..n |-> held[i]] /\ IsSeq(held') /\ Len(held') = n
    <3>1. /\ IsSeq(SubSeq(held, 1, n)) /\ Len(SubSeq(held, 1, n)) = n
          /\ SubSeq(held, 1, n) = [i \in 1..n |-> held[i]]
      BY <2>1, Prefix
    <3>2. QED
      BY <3>1 DEF n
  <2>3. \A i \in 1..n : i \in 1..Len(held) /\ held'[i] = held[i] /\ held[i] \in 1..Len(script)
    <3>1. ASSUME NEW i \in 1..n PROVE i \in 1..Len(held)
      BY <1>1, <1>2, <2>1
    <3>2. QED
      BY <1>1, <2>2, <3>1
  <2>4. held' \in Seq(1..Len(script))
    BY <2>2, <2>3, SeqInto
  <2>5. HeldSound'
    BY <2>2, <2>3, <2>4 DEF HeldSound
  <2>6. Kept' = [i \in 1..n |-> script[held[i]]]
    BY <2>2 DEF Kept
  <2>7. SubSeq(Kept, 1, n) = [i \in 1..n |-> Kept[i]]
    BY <2>1, Prefix
  <2>8. \A i \in 1..n : Kept[i] = script[held[i]]
    BY <1>1, <2>3
  <2>9. QED
    BY <1>1, <2>5, <2>6, <2>7, <2>8 DEF n
<1>4. CASE ~(n >= 0)
  <2>1. held' = <<>> /\ SubSeq(Kept, 1, n) = <<>>
    BY <1>2, <1>4, SubSeqEmpty DEF n
  <2>2. HeldSound'
    <3>1. held' \in Seq(1..Len(script')) /\ Len(held') = 0
      BY <2>1, EmptySeq
    <3>2. \A i, j \in 1..Len(held') : i < j => held'[i] < held'[j]
      BY <3>1
    <3>3. QED
      BY <3>1, <3>2 DEF HeldSound
  <2>3. Kept' = <<>>
    BY <2>1 DEF Kept
  <2>4. QED
    BY <1>1, <2>1, <2>2, <2>3 DEF n
<1>5. QED
  BY <1>2, <1>3, <1>4

(* An empty session holds nothing.                                         *)
LEMMA InitHeld == Init => HeldSound
<1>1. <<>> \in Seq(Vocab) /\ <<>> \in Seq(1..0) /\ Len(<<>>) = 0
  BY EmptySeq
<1>2. [i \in 1..0 |-> i] = <<>>
  OBVIOUS
<1>3. QED
  BY <1>1, <1>2 DEF Init, HeldSound

(* Every step keeps what is held sound.                                    *)
LEMMA NextHeld ==
  ASSUME ControlInv, HeldSound, [Next]_vars
  PROVE  HeldSound'
<1>1. CASE UNCHANGED <<seen, broken>>
  BY <1>1 DEF HeldSound, seen
<1>2. CASE Request
  BY <1>2, Requested, Begun
<1>3. CASE Turn
  BY <1>1, <1>3, Turned, Shown DEF seen
<1>4. CASE Clear
  <2>1. script' = <<>> /\ held' = <<>>
    BY <1>4 DEF Clear
  <2>2. held' = [i \in DOMAIN script' |-> i] /\ script' \in Seq(Vocab)
    BY <2>1, Nothing
  <2>3. QED
    BY <2>2, Begun
<1>5. CASE Generate
  <2>1. next \in Vocab /\ Show(<<next>>) /\ broken' = broken
    BY <1>5, Generated
  <2>2. <<next>> \in Seq(Vocab)
    BY <2>1
  <2>3. QED
    BY <2>1, <2>2, Shown
<1>6. CASE PassFails
  <2>1. /\ script' = script /\ broken' = TRUE /\ held' = SubSeq(held, 1, Len(held) - Len(batch))
    BY <1>6 DEF PassFails
  <2>2. batch \in Seq(Vocab)
    BY DEF ControlInv, Types, PassTypes
  <2>3. QED
    BY <2>1, <2>2, Dropped
<1>7. CASE StartChunk \/ ComputeOp \/ EndChunk \/ Sample \/ EndGeneration \/ RefuseRequest \/ Quit
  BY <1>1, <1>7 DEF StartChunk, ComputeOp, EndChunk, Sample, EndGeneration, RefuseRequest, Quit, Exit
<1>8. CASE UNCHANGED vars
  BY <1>1, <1>8 DEF vars
<1>9. QED
  BY <1>2, <1>3, <1>4, <1>5, <1>6, <1>7, <1>8 DEF Next, Running, Arrival, Pass, Loop

(* The chunk loop writes the batch, row after row, behind the history.     *)
LEMMA ChunkTranscript ==
  ASSUME ControlInv, TranscriptInv, StartChunk, UNCHANGED client
  PROVE  TranscriptInv'
<1>1. /\ pc = "chunk" /\ pc' = "pass"
      /\ UNCHANGED <<n_tokens, batch, done, n_gen, first_turn, Kept>>
  BY DEF StartChunk, seen, Kept
<1>2. /\ Len(x') \in 1..UBatch /\ done + Len(x') <= Len(batch)
      /\ tokens' = [p \in 1..Ctx |-> IF p \in (Pos + 1)..(Pos + Len(x'))
                                     THEN batch[done + (p - Pos)] ELSE tokens[p]]
  BY ChunkStarted
<1>3. /\ Len(batch) \in Nat /\ done \in Nat /\ n_tokens \in Nat /\ UBatch \in Nat /\ Ctx \in Nat
      /\ n_tokens + Len(batch) <= Ctx /\ Len(x') \in Nat
  BY <1>1, <1>2, TokensSeq, SessionAssumption DEF ControlInv, Types, PassTypes, BufferTypes, BatchFits
<1>4. \A i \in 1..(n_tokens + done) : tokens'[i] = tokens[i]
  BY <1>2, <1>3 DEF Pos
<1>5. \A i \in 1..n_tokens : tokens'[i] = tokens[i]
  BY <1>3, <1>4
<1>6. ScriptSound'
  <2>1. History' = History
    BY <1>1, <1>5, HistorySame
  <2>2. QED
    BY <1>1, <2>1 DEF TranscriptInv, ScriptSound
<1>7. Written'
  <2>1. ASSUME NEW i \in 1..(done + Len(x')) PROVE tokens'[n_tokens + i] = batch[i]
    <3>1. CASE i <= done
      <4>1. n_tokens + i \in 1..(n_tokens + done) /\ i \in 1..done
        BY <1>3, <3>1
      <4>2. QED
        BY <1>1, <1>4, <4>1 DEF TranscriptInv, Written
    <3>2. CASE ~(i <= done)
      <4>1. /\ n_tokens + i \in 1..Ctx /\ n_tokens + i \in (Pos + 1)..(Pos + Len(x'))
            /\ done + ((n_tokens + i) - Pos) = i
        BY <1>2, <1>3, <3>2 DEF Pos
      <4>2. tokens'[n_tokens + i] = batch[done + ((n_tokens + i) - Pos)]
        BY <1>2, <4>1
      <4>3. QED
        BY <4>1, <4>2
    <3>3. QED
      BY <3>1, <3>2
  <2>2. QED
    BY <1>1, <2>1 DEF Written
<1>8. Opened'
  <2>1. CASE n_tokens > 0
    BY <1>1, <1>3, <1>5, <2>1, StillOpened DEF TranscriptInv
  <2>2. CASE ~(n_tokens > 0)
    BY <1>1, <1>3, <2>2 DEF TranscriptInv, Opened
  <2>3. QED
    BY <2>1, <2>2
<1>9. TurnsSound'
  BY <1>1 DEF TranscriptInv, TurnsSound
<1>10. QED
  BY <1>6, <1>7, <1>8, <1>9 DEF TranscriptInv

(* The last chunk makes the batch part of the session.                     *)
LEMMA EndTranscript ==
  ASSUME ControlInv, TranscriptInv, EndChunk, UNCHANGED client
  PROVE  TranscriptInv'
<1>1. /\ pc = "pass" /\ n_tokens' = n_tokens + Owned
      /\ UNCHANGED <<tokens, n_gen, first_turn, Kept>>
  BY DEF EndChunk, seen, Kept
<1>2. /\ Len(batch) \in Nat /\ done \in Nat /\ n_tokens \in Nat /\ Len(x) \in Nat
      /\ Len(x) >= 1 /\ done + Len(x) <= Len(batch)
      /\ n_tokens + Len(batch) <= Ctx /\ Ctx \in Nat
  BY <1>1, TokensSeq, SeqFcn, SessionAssumption
     DEF ControlInv, Types, PassTypes, BufferTypes, BatchFits
<1>3. Kept = History \o batch
  BY <1>1 DEF TranscriptInv, ScriptSound
<1>4. CASE LastChunk
  <2>1. pc' = "sample" /\ n_tokens' = n_tokens + Len(batch)
    BY <1>1, <1>4 DEF EndChunk, Owned
  <2>2. \A i \in 1..Len(batch) : tokens[n_tokens + i] = batch[i]
    BY <1>1, <1>4 DEF LastChunk, TranscriptInv, Written
  <2>3. History' = Kept
    <3> DEFINE n == n_tokens + Len(batch)
               h == SubSeq(tokens, 1, n)
    <3>1. History' = h
      BY <1>1, <2>1 DEF History
    <3>2. n \in Nat
      BY <1>2
    <3>3. IsSeq(h) /\ Len(h) = n /\ h = [i \in 1..n |-> tokens[i]]
      <4> HIDE DEF n
      <4>1. QED
        BY <3>2, Prefix
    <3>4. /\ IsSeq(History) /\ Len(History) = n_tokens
          /\ History = [i \in 1..n_tokens |-> tokens[i]] /\ IsSeq(batch)
      BY HistoryIs, TokensSeq DEF ControlInv, Types, PassTypes
    <3>5. /\ IsSeq(Kept) /\ Len(Kept) = n
          /\ \A i \in 1..n_tokens : Kept[i] = History[i]
          /\ \A i \in 1..Len(batch) : Kept[n_tokens + i] = batch[i]
      <4> DEFINE c == History \o batch
      <4>1. /\ IsSeq(c) /\ Len(c) = Len(History) + Len(batch)
            /\ \A i \in 1..Len(History) : c[i] = History[i]
            /\ \A i \in 1..Len(batch) : c[Len(History) + i] = batch[i]
        <5>1. IsSeq(History) /\ IsSeq(batch)
          BY <3>4
        <5>2. QED
          BY <5>1, Concat
      <4>2. c = Kept
        BY <1>3
      <4> HIDE DEF c
      <4>3. QED
        BY <3>4, <4>1, <4>2
    <3> HIDE DEF h
    <3>6. ASSUME NEW i \in 1..n PROVE h[i] = Kept[i]
      <4>1. h[i] = tokens[i]
        <5> HIDE DEF n
        <5>1. QED
          BY <3>3
      <4>2. CASE i <= n_tokens
        <5>1. i \in 1..n_tokens
          BY <1>2, <4>2
        <5>2. QED
          BY <3>4, <3>5, <4>1, <5>1
      <4>3. CASE ~(i <= n_tokens)
        <5>1. PICK j \in 1..Len(batch) : i = n_tokens + j
          <6>1. i - n_tokens \in 1..Len(batch) /\ i = n_tokens + (i - n_tokens)
            BY <1>2, <4>3
          <6>2. QED
            BY <6>1
        <5>2. QED
          BY <2>2, <3>5, <4>1, <5>1
      <4>4. QED
        BY <4>2, <4>3
    <3>7. h = Kept
      <4> HIDE DEF n
      <4>1. QED
        BY <3>3, <3>5, <3>6, SameSeq
    <3>8. QED
      BY <3>1, <3>7
  <2>4. ScriptSound' /\ Written'
    BY <1>1, <2>1, <2>3 DEF ScriptSound, Written
  <2>5. Opened'
    <3>1. CASE n_tokens > 0
      BY <1>1, <1>2, <2>1, <3>1, StillOpened DEF TranscriptInv
    <3>2. CASE ~(n_tokens > 0)
      <4>1. n_tokens = 0
        BY <1>2, <3>2
      <4>2. PICK prompt \in Opening \ {<<>>} : batch = Clip(prompt, Ctx)
        BY <1>1, <4>1 DEF TranscriptInv, Opened
      <4>3. \A i \in 1..Len(batch) : batch[i] = prompt[i]
        <5>1. prompt \in Seq(Vocab) /\ Ctx \in Nat
          BY SessionAssumption
        <5>2. \A i \in 1..Len(Clip(prompt, Ctx)) : Clip(prompt, Ctx)[i] = prompt[i]
          BY <5>1, Clipped
        <5>3. QED
          BY <4>2, <5>2
      <4>4. \A i \in 1..Len(batch) : tokens'[i] = prompt[i]
        BY <1>1, <1>2, <2>2, <4>1, <4>3
      <4>5. n_tokens' = Len(batch)
        BY <1>2, <2>1, <4>1
      <4>6. \E q \in Opening \ {<<>>} :
              /\ Len(Clip(q, Ctx)) <= n_tokens'
              /\ \A i \in 1..Len(Clip(q, Ctx)) : tokens'[i] = q[i]
        BY <1>2, <4>2, <4>4, <4>5
      <4>7. QED
        BY <2>1, <4>6 DEF Opened
    <3>3. QED
      BY <3>1, <3>2
  <2>6. TurnsSound'
    BY <1>1, <1>2, <2>1 DEF TranscriptInv, TurnsSound
  <2>7. QED
    BY <2>4, <2>5, <2>6 DEF TranscriptInv
<1>5. CASE ~LastChunk
  <2>1. pc' = "chunk" /\ done' = done + Len(x) /\ batch' = batch /\ n_tokens' = n_tokens
    BY <1>1, <1>2, <1>5 DEF EndChunk, Owned
  <2>2. History' = History
    BY <1>1, <2>1, HistorySame
  <2>3. ScriptSound' /\ Written'
    BY <1>1, <2>1, <2>2 DEF TranscriptInv, ScriptSound, Written
  <2>4. Opened' /\ TurnsSound'
    BY <1>1, <2>1 DEF TranscriptInv, Opened, TurnsSound
  <2>5. QED
    BY <2>3, <2>4 DEF TranscriptInv
<1>6. QED
  BY <1>4, <1>5

(* A batch whose pass fails is taken out of the transcript again.          *)
LEMMA FailsTranscript ==
  ASSUME ControlInv, HeldSound, TranscriptInv, PassFails, UNCHANGED client
  PROVE  TranscriptInv'
<1>1. /\ pc \in {"chunk", "pass"}
      /\ Kept' = SubSeq(Kept, 1, Len(Kept) - Len(batch))
      /\ UNCHANGED <<tokens, n_tokens, first_turn>>
  <2>1. batch \in Seq(Vocab)
    BY DEF ControlInv, Types, PassTypes
  <2>2. QED
    BY <2>1, Dropped DEF PassFails, ControlInv, Types, ClientTypes
<1>2. /\ Kept = History \o batch /\ IsSeq(History) /\ Len(History) = n_tokens
      /\ IsSeq(batch) /\ Len(batch) \in Nat /\ n_tokens \in Nat
  BY <1>1, HistoryIs, TokensSeq DEF TranscriptInv, ScriptSound, ControlInv, Types, PassTypes
<1>3. Kept' = History /\ History' = History
  <2> DEFINE c == History \o batch
             h == SubSeq(c, 1, n_tokens)
  <2>1. /\ IsSeq(c) /\ Len(c) = Len(History) + Len(batch)
        /\ \A i \in 1..Len(History) : c[i] = History[i]
    BY <1>2, Concat
  <2>2. c = Kept
    BY <1>2
  <2> HIDE DEF c
  <2>3. Len(Kept) - Len(batch) = n_tokens
    BY <1>2, <2>1, <2>2
  <2>4. Kept' = h
    BY <1>1, <2>2, <2>3
  <2>5. h = [i \in 1..n_tokens |-> c[i]] /\ IsSeq(h) /\ Len(h) = n_tokens
    BY <1>2, Prefix
  <2> HIDE DEF h
  <2>6. \A i \in 1..n_tokens : h[i] = History[i]
    BY <1>2, <2>1, <2>5
  <2>7. h = History
    BY <1>2, <2>5, <2>6, SameSeq
  <2>8. QED
    BY <1>1, <2>4, <2>7, HistorySame
<1>4. ScriptSound' /\ Written' /\ pc' \in {"idle", "exited"}
  <2>1. pc' \in {"idle", "exited"}
    BY DEF PassFails, Finish
  <2>2. QED
    BY <1>3, <2>1 DEF ScriptSound, Written
<1>5. Opened'
  <2>1. CASE n_tokens > 0
    BY <1>1, <1>2, <2>1, StillOpened DEF TranscriptInv
  <2>2. CASE ~(n_tokens > 0)
    BY <1>1, <1>4, <2>2 DEF Opened
  <2>3. QED
    BY <2>1, <2>2
<1>6. TurnsSound'
  <2>1. n_gen \in Nat
    BY SessionAssumption DEF ControlInv, Types, ClientTypes
  <2>2. CASE n_gen > 0
    <3>1. pc' = "idle" /\ n_gen' = 0 /\ n_tokens > 0 /\ (client = "chat" => ~first_turn)
      BY <1>1, <2>2 DEF PassFails, Finish, TranscriptInv, TurnsSound
    <3>2. QED
      BY <1>1, <1>2, <3>1 DEF TurnsSound
  <2>3. CASE ~(n_gen > 0)
    <3>1. n_gen' = 0 /\ (client = "chat" => pc' = "exited")
      <4>1. n_gen' = n_gen /\ (client # "server" => pc' = "exited")
        BY <2>3 DEF PassFails
      <4>2. QED
        BY <2>1, <2>3, <4>1
    <3>2. QED
      BY <1>1, <1>4, <3>1 DEF TurnsSound
  <2>4. QED
    BY <2>2, <2>3
<1>7. QED
  BY <1>4, <1>5, <1>6 DEF TranscriptInv

(* A token is shown and decoded, or shown when the context is full.        *)
LEMMA GenerateTranscript ==
  ASSUME ControlInv, HeldSound, TranscriptInv, Generate, UNCHANGED client
  PROVE  TranscriptInv'
<1>1. /\ pc = "generate" /\ next \in Vocab /\ Kept' = Append(Kept, next)
      /\ UNCHANGED <<tokens, n_tokens, first_turn>>
  <2>1. <<next>> \in Seq(Vocab) /\ Kept \in Seq(Vocab) /\ next \in Vocab
    BY Generated, KeptSeq
  <2>2. Kept' = Kept \o <<next>>
    BY <2>1, Generated, Shown
  <2>3. QED
    BY <2>1, <2>2, Generated, AppendIsConcat
<1>2. /\ Kept = History /\ n_tokens > 0 /\ n_tokens \in Nat /\ History' = History
      /\ Kept \in Seq(Vocab) /\ Len(Kept) = n_tokens
      /\ (client = "chat" => ~first_turn)
  BY <1>1, KeptSeq, HistoryIs, HistorySame
     DEF TranscriptInv, ScriptSound, TurnsSound, ControlInv, Types, ClientTypes
<1>3. Opened'
  BY <1>1, <1>2, StillOpened DEF TranscriptInv
<1>4. CASE n_tokens = Ctx /\ pc' = "idle" /\ n_gen' = 0
  <2>1. /\ Kept' \in Seq(Vocab) /\ Len(Kept') = n_tokens + 1
        /\ \A i \in 1..n_tokens : Kept'[i] = Kept[i]
    BY <1>1, <1>2, AppendProperties
  <2>2. Front(Kept') = SubSeq(Kept', 1, n_tokens)
    BY <1>2, <2>1 DEF Front
  <2>3. Front(Kept') = History
    <3> DEFINE f == SubSeq(Kept', 1, n_tokens)
    <3>1. f = [i \in 1..n_tokens |-> Kept'[i]] /\ IsSeq(f) /\ Len(f) = n_tokens
      BY <1>2, Prefix
    <3> HIDE DEF f
    <3>2. \A i \in 1..n_tokens : f[i] = History[i]
      BY <1>2, <2>1, <3>1
    <3>3. IsSeq(History) /\ Len(History) = n_tokens
      BY HistoryIs
    <3>4. f = History
      BY <3>1, <3>2, <3>3, SameSeq
    <3>5. QED
      BY <2>2, <3>4 DEF f
  <2>4. ScriptSound' /\ Written'
    BY <1>1, <1>2, <1>4, <2>1, <2>3 DEF ScriptSound, Written
  <2>5. TurnsSound'
    BY <1>1, <1>2, <1>4 DEF TurnsSound
  <2>6. QED
    BY <1>3, <2>4, <2>5 DEF TranscriptInv
<1>5. CASE pc' = "chunk" /\ batch' = <<next>> /\ done' = 0
  <2>1. Kept' = History \o <<next>>
    <3>1. Append(Kept, next) = Kept \o <<next>>
      BY <1>1, <1>2, AppendIsConcat
    <3>2. QED
      BY <1>1, <1>2, <3>1
  <2>2. ScriptSound' /\ Written'
    BY <1>2, <1>5, <2>1 DEF ScriptSound, Written
  <2>3. TurnsSound'
    BY <1>1, <1>2, <1>5 DEF TurnsSound
  <2>4. QED
    BY <1>3, <2>2, <2>3 DEF TranscriptInv
<1>6. QED
  BY <1>4, <1>5, Generated

(* A prompt arrives, behind the conversation or in a session just reset.   *)
LEMMA ArrivalTranscript ==
  ASSUME ControlInv, HeldSound, TranscriptInv, Arrival
  PROVE  TranscriptInv'
<1>0. UNCHANGED client
  BY DEF Arrival
<1>1. ASSUME UNCHANGED <<tokens, n_tokens, first_turn, n_gen, Kept>>, pc' \in {pc, "exited"},
             pc = "idle"
      PROVE  TranscriptInv'
  <2>1. History' = History
    BY <1>1, HistorySame
  <2>2. ScriptSound' /\ Written' /\ TurnsSound' /\ Opened'
    BY <1>0, <1>1, <2>1 DEF TranscriptInv, ScriptSound, Written, TurnsSound, Opened
  <2>3. QED
    BY <2>2 DEF TranscriptInv
<1>2. CASE RefuseRequest
  BY <1>1, <1>2 DEF RefuseRequest, seen, Kept
<1>3. CASE Quit
  BY <1>1, <1>3 DEF Quit, Exit, seen, Kept
<1>4. CASE Request
  <2>1. /\ \E prompt \in Opening \ {<<>>} : batch' = Clip(prompt, Ctx)
        /\ batch' \in Seq(Vocab) /\ Kept' = batch'
        /\ pc = "idle" /\ pc' = "chunk" /\ done' = 0 /\ client = "server" /\ Reset
        /\ n_gen' = n_gen
    BY <1>4, Requested, Begun
  <2>2. n_tokens' = 0 /\ n_gen = 0
    BY <2>1 DEF Reset, TranscriptInv, TurnsSound
  <2>3. Kept' = History' \o batch'
    <3>1. <<>> \o batch' = batch'
      BY <2>1, ConcatEmptySeq
    <3>2. QED
      BY <2>1, <2>2, <3>1, HistoryNone
  <2>4. ScriptSound' /\ Written'
    BY <2>1, <2>3 DEF ScriptSound, Written
  <2>5. Opened' /\ TurnsSound'
    BY <1>0, <2>1, <2>2 DEF Opened, TurnsSound
  <2>6. QED
    BY <2>4, <2>5 DEF TranscriptInv
<1>5. CASE Clear
  <2>1. n_tokens' = 0 /\ Kept' = <<>> /\ first_turn' = TRUE /\ pc = "idle" /\ pc' = pc /\ n_gen' = n_gen
    <3>1. script' = <<>> /\ held' = <<>>
      BY <1>5 DEF Clear
    <3>2. Kept' = <<>>
      BY <3>1 DEF Kept
    <3>3. QED
      BY <1>5, <3>2 DEF Clear, Reset
  <2>2. ScriptSound' /\ Written'
    BY <2>1, HistoryNone DEF ScriptSound, Written
  <2>3. Opened' /\ TurnsSound'
    BY <2>1 DEF Opened, TranscriptInv, TurnsSound
  <2>4. QED
    BY <2>2, <2>3 DEF TranscriptInv
<1>6. CASE Turn
  <2>1. /\ client = "chat" /\ pc = "idle" /\ ~first_turn'
        /\ UNCHANGED <<tokens, n_tokens, n_gen>>
    BY <1>6, Turned
  <2>2. n_gen = 0 /\ (first_turn <=> n_tokens = 0) /\ n_tokens \in Nat /\ History' = History
    BY <2>1, HistoryIs, HistorySame DEF TranscriptInv, TurnsSound
  <2>3. CASE pc' = "exited"
    <3>1. ScriptSound' /\ Written' /\ TurnsSound'
      BY <2>1, <2>2, <2>3 DEF ScriptSound, Written, TurnsSound
    <3>2. Opened'
      BY <2>1, <2>3 DEF TranscriptInv, Opened
    <3>3. QED
      BY <3>1, <3>2 DEF TranscriptInv
  <2>4. CASE /\ \E prompt \in (IF first_turn THEN Opening ELSE Continuation) \ {<<>>} :
                   batch' = Clip(prompt, Ctx - n_tokens)
             /\ batch' \in Seq(Vocab) /\ Show(batch')
             /\ pc' = "chunk" /\ done' = 0 /\ BatchFits'
    <3>1. n_tokens < Ctx
      <4>1. Len(batch') \in Nat
        BY <2>4, TokensSeq
      <4>2. n_tokens' + Len(batch') <= Ctx /\ 0 < Len(batch')
        BY <2>4 DEF BatchFits
      <4>3. QED
        BY <2>1, <2>2, <4>1, <4>2, SessionAssumption
    <3>2. Kept = History /\ Kept' = Kept \o batch'
      <4>1. Kept = History
        BY <2>1, <2>2, <3>1, SessionAssumption DEF TranscriptInv, ScriptSound
      <4>2. batch' \in Seq(Vocab) /\ Show(batch')
        BY <2>4
      <4>3. Kept' = Kept \o batch'
        BY <4>2, Shown
      <4>4. QED
        BY <4>1, <4>3
    <3>3. ScriptSound' /\ Written'
      BY <2>2, <2>4, <3>2 DEF ScriptSound, Written
    <3>4. Opened'
      <4>1. CASE n_tokens > 0
        BY <2>1, <2>2, <4>1, StillOpened DEF TranscriptInv
      <4>2. CASE ~(n_tokens > 0)
        <5>1. n_tokens = 0 /\ Ctx - n_tokens = Ctx /\ first_turn
          BY <2>2, <4>2, SessionAssumption
        <5>2. \E prompt \in Opening \ {<<>>} : batch' = Clip(prompt, Ctx)
          BY <2>4, <5>1
        <5>3. QED
          BY <2>1, <5>1, <5>2 DEF Opened
      <4>3. QED
        BY <4>1, <4>2
    <3>5. TurnsSound'
      BY <1>0, <2>1, <2>2, <2>4 DEF TurnsSound
    <3>6. QED
      BY <3>3, <3>4, <3>5 DEF TranscriptInv
  <2>5. QED
    BY <1>6, <2>3, <2>4, Turned
<1>7. QED
  BY <1>2, <1>3, <1>4, <1>5, <1>6 DEF Arrival

(* Every step keeps the transcript.                                        *)
LEMMA NextTranscript ==
  ASSUME ControlInv, HeldSound, TranscriptInv, [Next]_vars
  PROVE  TranscriptInv'
<1>1. ASSUME UNCHANGED <<tokens, n_tokens, batch, done, first_turn, n_gen, Kept, client>>,
             pc' = pc, Len(x') = Len(x)
      PROVE  TranscriptInv'
  <2>1. History' = History
    BY <1>1, HistorySame
  <2>2. ScriptSound' /\ Written'
    BY <1>1, <2>1 DEF TranscriptInv, ScriptSound, Written
  <2>3. TurnsSound' /\ Opened'
    BY <1>1 DEF TranscriptInv, TurnsSound, Opened
  <2>4. QED
    BY <2>2, <2>3 DEF TranscriptInv
<1>2. CASE ComputeOp /\ UNCHANGED client
  <2>1. /\ pc' = pc
        /\ UNCHANGED <<tokens, n_tokens, batch, done, first_turn, n_gen, Kept, client>>
    BY <1>2 DEF ComputeOp, seen, Kept
  <2>2. Len(x') = Len(x)
    <3>1. op \in 1..Ops
      BY <1>2, SessionAssumption DEF ComputeOp, ControlInv, Types, PassTypes
    <3>2. CASE op \in Recurrent
      <4>1. Recur(op)
        BY <1>2, <3>2 DEF ComputeOp
      <4>2. QED
        BY <3>2, <4>1, Recurred
    <3>3. CASE op \notin Recurrent
      <4>1. Attend(op) /\ op \in AttentionOps
        BY <1>2, <3>1, <3>3 DEF ComputeOp, AttentionOps
      <4>2. QED
        BY <4>1, Attended
    <3>4. QED
      BY <3>2, <3>3
  <2>3. QED
    BY <1>1, <2>1, <2>2
<1>3. CASE (Sample \/ EndGeneration) /\ UNCHANGED client
  <2>1. /\ pc \in {"sample", "generate"} /\ pc' \in {"generate", "idle"}
        /\ (pc' = "idle" => n_gen' = 0) /\ n_gen' \in {n_gen, 0}
        /\ UNCHANGED <<tokens, n_tokens, first_turn, Kept, client>>
    BY <1>3 DEF Sample, EndGeneration, Finish, seen, Kept
  <2>2. History' = History /\ n_tokens \in Nat
    BY <2>1, HistorySame, HistoryIs
  <2>3. ScriptSound' /\ Written'
    BY <2>1, <2>2 DEF TranscriptInv, ScriptSound, Written
  <2>4. TurnsSound' /\ Opened'
    BY <2>1, <2>2 DEF TranscriptInv, TurnsSound, Opened
  <2>5. QED
    BY <2>3, <2>4 DEF TranscriptInv
<1>4. CASE UNCHANGED vars
  BY <1>1, <1>4 DEF vars, pass, seen, Kept
<1>5. CASE Running
  BY <1>2, <1>3, <1>5, ChunkTranscript, EndTranscript, GenerateTranscript, FailsTranscript
     DEF Running, Pass, Loop
<1>6. CASE Arrival
  BY <1>6, ArrivalTranscript
<1>7. QED
  BY <1>4, <1>5, <1>6 DEF Next

(* An empty session has an empty transcript.                               *)
LEMMA InitTranscript == Init => TranscriptInv
<1> SUFFICES ASSUME Init PROVE TranscriptInv
  OBVIOUS
<1>1. /\ n_tokens = 0 /\ Kept = <<>> /\ pc = "idle" /\ n_gen = 0 /\ first_turn = TRUE
  BY DEF Init, Kept
<1>2. History = <<>>
  BY <1>1, SubSeqEmpty DEF History
<1>3. ScriptSound /\ Written /\ Opened /\ TurnsSound
  BY <1>1, <1>2 DEF ScriptSound, Written, Opened, TurnsSound
<1>4. QED
  BY <1>3 DEF TranscriptInv

(* The conversation starts with as much of an opening prompt as fits.      *)
LEMMA StartsOpening ==
  ASSUME ControlInv, Opened, n_tokens > 0
  PROVE  \E prompt \in Opening \ {<<>>} : IsPrefix(Clip(prompt, n_tokens), tokens)
<1>1. PICK prompt \in Opening \ {<<>>} :
        /\ Len(Clip(prompt, Ctx)) <= n_tokens
        /\ \A i \in 1..Len(Clip(prompt, Ctx)) : tokens[i] = prompt[i]
  BY DEF Opened
<1>2. /\ prompt \in Seq(Vocab) /\ Ctx \in Nat /\ n_tokens \in Nat /\ n_tokens <= Ctx
      /\ tokens = [i \in 1..Ctx |-> tokens[i]]
  BY SessionAssumption DEF ControlInv, Types, BufferTypes
<1> DEFINE c == Clip(prompt, n_tokens)
           n == Len(c)
<1>3. /\ Len(Clip(prompt, Ctx)) = IF Len(prompt) <= Ctx THEN Len(prompt) ELSE Ctx
      /\ c \in Seq(Vocab) /\ n = IF Len(prompt) <= n_tokens THEN Len(prompt) ELSE n_tokens
      /\ \A i \in 1..n : c[i] = prompt[i]
  BY <1>2, Clipped
<1>4. Len(prompt) \in Nat /\ n \in Nat
  BY <1>2, <1>3, TokensSeq
<1> HIDE DEF n, c
<1>5. Len(Clip(prompt, Ctx)) = n
  BY <1>1, <1>2, <1>3, <1>4
<1>6. \A i \in 1..n : c[i] = tokens[i]
  BY <1>1, <1>3, <1>5
<1>7. SubSeq(c, 1, n) = [i \in 1..n |-> c[i]] /\ SubSeq(tokens, 1, n) = [i \in 1..n |-> tokens[i]]
  BY <1>4, Prefix
<1>8. Len(tokens) = Ctx
  BY <1>2, FcnSeq
<1>9. n <= Len(tokens) /\ SubSeq(c, 1, n) = SubSeq(tokens, 1, n)
  <2>1. n <= Len(tokens)
    BY <1>1, <1>2, <1>4, <1>5, <1>8
  <2>2. [i \in 1..n |-> c[i]] = [i \in 1..n |-> tokens[i]]
    BY <1>6
  <2>3. QED
    BY <1>7, <2>1, <2>2, Zenon
<1>10. IsPrefix(c, tokens)
  BY <1>9 DEF IsPrefix, n
<1>11. QED
  BY <1>10 DEF c

(* The session's tokens are what its user saw, in order, however the       *)
(* prompts were clipped: all of it while no pass fails, but for a token    *)
(* shown at a full context, and all but the batches of the passes that     *)
(* failed otherwise.  A conversation always starts with an opening prompt: *)
(* handle_request resets before every request, and the chat goes on with a *)
(* continuation only behind what an opening prompt started.                *)
THEOREM TranscriptKept == Spec => []HistoryIsTranscript
<1>1. ControlInv /\ HeldSound /\ TranscriptInv => HistoryIsTranscript
  <2> SUFFICES ASSUME ControlInv, HeldSound, TranscriptInv PROVE HistoryIsTranscript
    OBVIOUS
  <2>1. /\ pc = "sample" => History = Kept
        /\ pc = "idle" => History = Kept \/ (n_tokens = Ctx /\ History = Front(Kept))
    BY DEF TranscriptInv, ScriptSound
  <2>2. n_tokens > 0 => \E prompt \in Opening \ {<<>>} : IsPrefix(Clip(prompt, n_tokens), tokens)
    BY StartsOpening DEF TranscriptInv
  <2>3. DOMAIN held = 1..Len(held) /\ \A i, j \in 1..Len(held) : i < j => held[i] < held[j]
    BY KeptSeq DEF HeldSound
  <2>4. ~broken => Kept = script
    BY AllKept
  <2>5. QED
    BY <2>1, <2>2, <2>3, <2>4 DEF HistoryIsTranscript, History
<1>2. Init => TranscriptInv /\ HeldSound
  BY InitTranscript, InitHeld
<1>3. ControlInv /\ HeldSound /\ TranscriptInv /\ [Next]_vars => TranscriptInv' /\ HeldSound'
  BY NextTranscript, NextHeld
<1>4. QED
  BY <1>1, <1>2, <1>3, AlwaysControl, PTL DEF Spec

-----------------------------------------------------------------------------
(* ---- the memory --------------------------------------------------------- *)

(* The numbers of a session.                                               *)
LEMMA Numbers ==
  ASSUME ControlInv
  PROVE  /\ n_tokens \in Nat /\ done \in Nat /\ Pos \in Nat /\ Len(x) \in Nat
         /\ op \in 1..(Ops + 1) /\ Ops \in Nat /\ Ctx \in Nat /\ Len(batch) \in Nat
         /\ \A o : Seen(o) \in Nat
         /\ pc = "pass" => Pos + Len(x) <= Ctx
<1>1. /\ n_tokens \in Nat /\ done \in Nat /\ Len(x) \in Nat /\ op \in 1..(Ops + 1) /\ Ops \in Nat
      /\ Len(batch) \in Nat /\ Ctx \in Nat
  BY SeqFcn, TokensSeq, SessionAssumption DEF ControlInv, Types, PassTypes, BufferTypes
<1>2. Pos \in Nat
  BY <1>1 DEF Pos
<1>3. \A o : Seen(o) \in Nat
  BY <1>1, <1>2 DEF Seen
<1>4. pc = "pass" => Pos + Len(x) <= Ctx
  BY <1>1 DEF ControlInv, BatchFits, Pos
<1>5. QED
  BY <1>1, <1>2, <1>3, <1>4

(* What an operation gets for a position depends on the token there, or on *)
(* what the operation before it remembers up to there.                     *)
LEMMA InputKept ==
  ASSUME NEW o \in Nat, NEW p \in Nat,
         o = 1 => tokens'[p] = tokens[p],
         o # 1 /\ o - 1 \in Recurrent => \A i \in 1..p : rec'[o - 1][i] = rec[o - 1][i],
         o # 1 /\ o - 1 \notin Recurrent => \A i \in 1..p : kv'[o - 1][i] = kv[o - 1][i]
  PROVE  Input(o, p)' = Input(o, p)
<1>1. CASE o = 1
  BY <1>1 DEF Input
<1>2. CASE o # 1 /\ o - 1 \in Recurrent
  <2> DEFINE s == rec[o - 1]
             t == rec'[o - 1]
  <2>1. \A i \in 1..p : t[i] = s[i]
    BY <1>2
  <2>2. Input(o, p) = SubSeq(s, 1, p) /\ Input(o, p)' = SubSeq(t, 1, p)
    BY <1>2 DEF Input
  <2> HIDE DEF s, t
  <2>3. SubSeq(s, 1, p) = [i \in 1..p |-> s[i]] /\ SubSeq(t, 1, p) = [i \in 1..p |-> t[i]]
    BY Prefix
  <2>4. [i \in 1..p |-> s[i]] = [i \in 1..p |-> t[i]]
    BY <2>1
  <2>5. QED
    BY <2>2, <2>3, <2>4, Zenon
<1>3. CASE o # 1 /\ o - 1 \notin Recurrent
  <2> DEFINE s == kv[o - 1]
             t == kv'[o - 1]
  <2>1. \A i \in 1..p : t[i] = s[i]
    BY <1>3
  <2>2. Input(o, p) = SubSeq(s, 1, p) /\ Input(o, p)' = SubSeq(t, 1, p)
    BY <1>3 DEF Input
  <2> HIDE DEF s, t
  <2>3. SubSeq(s, 1, p) = [i \in 1..p |-> s[i]] /\ SubSeq(t, 1, p) = [i \in 1..p |-> t[i]]
    BY Prefix
  <2>4. [i \in 1..p |-> s[i]] = [i \in 1..p |-> t[i]]
    BY <2>1
  <2>5. QED
    BY <2>2, <2>3, <2>4, Zenon
<1>4. QED
  BY <1>1, <1>2, <1>3

(* A step between passes that leaves the buffers alone and moves no        *)
(* operation.                                                              *)
LEMMA MemoryKept ==
  ASSUME MemoryInv, pc' # "pass", broken' = broken, UNCHANGED <<tokens, kv, rec>>,
         \A o \in 1..Ops : Seen(o)' = Seen(o)
  PROVE  MemoryInv'
<1>1. \A o, p : Input(o, p)' = Input(o, p)
  BY DEF Input
<1>2. \A o : Sound(o)' <=> Sound(o)
  BY DEF Sound
<1>3. AttentionOps \subseteq 1..Ops /\ Recurrent \subseteq 1..Ops
  BY SessionAssumption DEF AttentionOps
<1>4. CachesSound'
  BY <1>1, <1>2, <1>3 DEF MemoryInv, CachesSound
<1>5. StatesSound'
  BY <1>1, <1>3 DEF MemoryInv, StatesSound
<1>6. QED
  BY <1>4, <1>5 DEF MemoryInv, RowsSound

(* A chunk is written behind what the operations have seen, and its rows   *)
(* are the embedded tokens.                                                *)
LEMMA ChunkMemory == ASSUME ControlInv, MemoryInv, StartChunk PROVE MemoryInv'
<1>1. /\ pc = "chunk" /\ pc' = "pass" /\ op' = 1
      /\ UNCHANGED <<n_tokens, kv, rec, batch, done, broken>>
  BY DEF StartChunk, cache
<1>2. /\ Len(x') \in 1..UBatch /\ done + Len(x') <= Len(batch)
      /\ \A r \in 1..Len(x') : x'[r] = <<batch[done + r]>>
      /\ tokens' = [p \in 1..Ctx |-> IF p \in (Pos + 1)..(Pos + Len(x'))
                                     THEN batch[done + (p - Pos)] ELSE tokens[p]]
  BY ChunkStarted
<1>3. /\ Pos \in Nat /\ done \in Nat /\ n_tokens \in Nat /\ Len(batch) \in Nat /\ Ctx \in Nat
      /\ n_tokens + Len(batch) <= Ctx /\ Pos = n_tokens + done /\ Pos' = Pos /\ UBatch \in Nat
  BY <1>1, Numbers, SessionAssumption DEF ControlInv, BatchFits, Pos
<1>4. AttentionOps \subseteq 1..Ops /\ Recurrent \subseteq 1..Ops /\ Ops \in Nat
  BY SessionAssumption DEF AttentionOps
<1>5. \A o \in 1..Ops : Seen(o)' = Pos /\ Seen(o) = Pos
  BY <1>1, <1>3, <1>4 DEF Seen
<1>6. \A p \in 1..Pos : tokens'[p] = tokens[p]
  BY <1>2, <1>3
<1>7. ASSUME NEW o \in 1..Ops, NEW p \in 1..Pos PROVE Input(o, p)' = Input(o, p)
  <2>1. o \in Nat /\ p \in Nat /\ tokens'[p] = tokens[p]
    BY <1>3, <1>4, <1>6
  <2>2. QED
    BY <1>1, <2>1, InputKept
<1>8. \A o : Sound(o)' <=> Sound(o)
  BY <1>1 DEF Sound
<1>9. CachesSound'
  BY <1>1, <1>4, <1>5, <1>7, <1>8 DEF MemoryInv, CachesSound
<1>10. StatesSound'
  <2>1. SUFFICES ASSUME ~broken, NEW o \in Recurrent
                 PROVE  /\ Len(rec[o]) = Seen(o)'
                        /\ \A p \in 1..Seen(o)' : rec[o][p] = Input(o, p)'
    BY <1>1 DEF StatesSound
  <2>2. Len(rec[o]) = Pos /\ \A p \in 1..Pos : rec[o][p] = Input(o, p)
    BY <1>4, <1>5, <2>1 DEF MemoryInv, StatesSound
  <2>3. QED
    BY <1>4, <1>5, <1>7, <2>2
<1>11. ASSUME NEW r \in 1..Len(x') PROVE x'[r] = Input(1, Pos + r)'
  <2>1. /\ Pos + r \in 1..Ctx /\ Pos + r \in (Pos + 1)..(Pos + Len(x'))
        /\ done + ((Pos + r) - Pos) = done + r
    BY <1>2, <1>3
  <2>2. tokens'[Pos + r] = batch[done + ((Pos + r) - Pos)]
    BY <1>2, <2>1
  <2>3. tokens'[Pos + r] = batch[done + r]
    BY <2>1, <2>2
  <2>4. Input(1, Pos + r)' = <<tokens'[Pos + r]>>
    BY <1>1 DEF Input, Pos
  <2>5. QED
    BY <1>2, <2>3, <2>4
<1>12. QED
  BY <1>1, <1>3, <1>9, <1>10, <1>11 DEF MemoryInv, RowsSound

(* An operation that is not the one that runs, in front of it or behind    *)
(* it: its memory is not written, and its input changes only for positions *)
(* it has not seen.                                                        *)
LEMMA OthersKept ==
  ASSUME ControlInv, ComputeOp, NEW k \in 1..Ops, k = op
  PROVE  /\ pc = "pass" /\ op \in 1..Ops /\ pc' = pc /\ op' = op + 1 /\ broken' = broken
         /\ Pos' = Pos /\ Len(x') = Len(x)
         /\ Seen(k) = Pos /\ Seen(k)' = Pos + Len(x)
         /\ \A o \in (1..Ops) \ {k} : Seen(o)' = Seen(o)
         /\ \A o \in AttentionOps \ {k} : kv'[o] = kv[o]
         /\ \A o \in Recurrent \ {k} : rec'[o] = rec[o]
         /\ \A o \in 1..(Ops + 1) : \A p \in Nat : (p <= Pos \/ o # k + 1) /\ StatesSound /\ ~broken
                => Input(o, p)' = Input(o, p)
         /\ \A o \in 1..(Ops + 1) : \A p \in Nat :
                (p <= Pos \/ o # k + 1) /\ k \notin Recurrent => Input(o, p)' = Input(o, p)
         /\ \A o \in 1..k : \A p \in Nat : Input(o, p)' = Input(o, p)
<1>1. /\ pc = "pass" /\ k = op /\ op \in 1..Ops /\ pc' = pc /\ op' = op + 1
      /\ UNCHANGED <<tokens, n_tokens, batch, done, broken>>
  BY SessionAssumption DEF ComputeOp, ControlInv, Types, PassTypes
<1>2. /\ n_tokens \in Nat /\ done \in Nat /\ Pos \in Nat /\ Len(x) \in Nat /\ Ops \in Nat
      /\ Ctx \in Nat /\ Pos + Len(x) <= Ctx
  BY <1>1, Numbers
<1>3. Pos' = Pos
  BY <1>1 DEF Pos
<1>4. AttentionOps \subseteq 1..Ops /\ Recurrent \subseteq 1..Ops
  BY SessionAssumption DEF AttentionOps
<1>5. /\ Len(x') = Len(x)
      /\ \A o \in AttentionOps \ {k} : kv'[o] = kv[o]
      /\ \A o \in Recurrent \ {k} : rec'[o] = rec[o]
      /\ k \in AttentionOps => \A i \in 1..Pos : kv'[k][i] = kv[k][i]
      /\ k \in Recurrent => \A i \in 1..Len(rec[k]) : rec'[k][i] = rec[k][i]
  <2>1. CASE k \in Recurrent
    <3>1. Recur(k) /\ k \notin AttentionOps
      BY <1>1, <2>1 DEF ComputeOp, AttentionOps
    <3>2. /\ rec' = [q \in Recurrent |-> IF q = k THEN rec'[k] ELSE rec[q]]
          /\ kv' = kv /\ Len(x') = Len(x)
          /\ \A i \in 1..Len(rec[k]) : rec'[k][i] = rec[k][i]
      BY <2>1, <3>1, Recurred
    <3>3. \A o \in Recurrent \ {k} : rec'[o] = rec[o]
      BY <3>2
    <3>4. QED
      BY <3>1, <3>2, <3>3
  <2>2. CASE k \notin Recurrent
    <3>1. Attend(k) /\ k \in AttentionOps
      BY <1>1, <2>2 DEF ComputeOp, AttentionOps
    <3>2. /\ kv' = [q \in AttentionOps |-> IF q = k THEN kv'[k] ELSE kv[q]]
          /\ kv'[k] = [p \in 1..Ctx |-> IF p \in (Pos + 1)..(Pos + Len(x))
                                         THEN x[p - Pos] ELSE kv[k][p]]
          /\ rec' = rec /\ Len(x') = Len(x)
      BY <3>1, Attended
    <3>3. \A o \in AttentionOps \ {k} : kv'[o] = kv[o]
      BY <3>2
    <3>4. \A i \in 1..Pos : kv'[k][i] = kv[k][i]
      BY <1>2, <3>2
    <3>5. QED
      BY <2>2, <3>2, <3>3, <3>4
  <2>3. QED
    BY <2>1, <2>2
<1>6. /\ Seen(k) = Pos /\ Seen(k)' = Pos + Len(x)
      /\ \A o \in (1..Ops) \ {k} : Seen(o)' = Seen(o)
  BY <1>1, <1>2, <1>3, <1>5 DEF Seen
<1>7. ASSUME NEW o \in 1..(Ops + 1), NEW p \in Nat,
             \/ o # k + 1
             \/ p <= Pos /\ (k \in Recurrent => Len(rec[k]) = Pos)
      PROVE  Input(o, p)' = Input(o, p)
  <2>1. o \in Nat /\ (o # 1 => o - 1 \in 1..Ops) /\ (o - 1 = k <=> o = k + 1)
    BY <1>1, <1>2
  <2>2. ASSUME o # 1, o - 1 \in Recurrent, NEW i \in 1..p PROVE rec'[o - 1][i] = rec[o - 1][i]
    <3>1. CASE o - 1 = k
      <4>1. i \in 1..Len(rec[k])
        BY <1>2, <1>7, <2>1, <2>2, <3>1
      <4>2. QED
        BY <1>5, <2>2, <3>1, <4>1
    <3>2. CASE o - 1 # k
      BY <1>5, <2>2, <3>2
    <3>3. QED
      BY <3>1, <3>2
  <2>3. ASSUME o # 1, o - 1 \notin Recurrent, NEW i \in 1..p PROVE kv'[o - 1][i] = kv[o - 1][i]
    <3>1. o - 1 \in AttentionOps
      BY <2>1, <2>3 DEF AttentionOps
    <3>2. CASE o - 1 = k
      <4>1. i \in 1..Pos
        BY <1>2, <1>7, <2>1, <3>2
      <4>2. QED
        BY <1>5, <3>1, <3>2, <4>1
    <3>3. CASE o - 1 # k
      BY <1>5, <3>1, <3>3
    <3>4. QED
      BY <3>2, <3>3
  <2>4. tokens'[p] = tokens[p]
    BY <1>1
  <2>5. QED
    BY <2>1, <2>2, <2>3, <2>4, InputKept
<1>8. \A o \in 1..(Ops + 1) : \A p \in Nat : (p <= Pos \/ o # k + 1) /\ StatesSound /\ ~broken
        => Input(o, p)' = Input(o, p)
  <2>1. StatesSound /\ ~broken /\ k \in Recurrent => Len(rec[k]) = Pos
    BY <1>6 DEF StatesSound
  <2>2. QED
    BY <1>7, <2>1
<1>9. \A o \in 1..k : \A p \in Nat : Input(o, p)' = Input(o, p)
  <2>1. \A o \in 1..k : o \in 1..(Ops + 1) /\ o # k + 1
    BY <1>1, <1>2
  <2>2. QED
    BY <1>7, <2>1
<1>10. QED
  BY <1>1, <1>3, <1>5, <1>6, <1>7, <1>8, <1>9

(* An operation remembers the rows it is given and passes on what it       *)
(* remembers.                                                              *)
LEMMA ComputeMemory == ASSUME ControlInv, MemoryInv, ComputeOp PROVE MemoryInv'
<1>0. PICK k \in 1..Ops : k = op
  BY SessionAssumption DEF ComputeOp, ControlInv, Types, PassTypes
<1>1. /\ pc = "pass" /\ op \in 1..Ops /\ pc' = pc /\ op' = op + 1 /\ broken' = broken
      /\ Pos' = Pos /\ Len(x') = Len(x) /\ Seen(k) = Pos /\ Seen(k)' = Pos + Len(x)
      /\ \A o \in (1..Ops) \ {k} : Seen(o)' = Seen(o)
  BY <1>0, OthersKept
<1>2. /\ Pos \in Nat /\ Len(x) \in Nat /\ Ops \in Nat /\ Ctx \in Nat /\ Pos + Len(x) <= Ctx
      /\ \A o : Seen(o) \in Nat
  BY <1>1, Numbers
<1>3. \A o : Sound(o)' <=> Sound(o)
  BY <1>1 DEF Sound
<1>4. AttentionOps \subseteq 1..Ops /\ Recurrent \subseteq 1..Ops
  BY SessionAssumption DEF AttentionOps
<1>5. ASSUME NEW o \in 1..(Ops + 1), NEW p \in Nat, Sound(o), p <= Pos \/ o # k + 1
      PROVE  Input(o, p)' = Input(o, p)
  <2>1. CASE o <= k
    <3>1. o \in 1..k
      BY <1>1, <1>2, <2>1
    <3>2. QED
      BY <1>0, <3>1, OthersKept
  <2>2. CASE ~(o <= k) /\ k \in Recurrent
    <3>1. ~broken
      BY <1>1, <1>2, <1>5, <2>2 DEF Sound
    <3>2. QED
      BY <1>0, <1>5, <3>1, OthersKept DEF MemoryInv
  <2>3. CASE k \notin Recurrent
    BY <1>0, <1>5, <2>3, OthersKept
  <2>4. QED
    BY <2>1, <2>2, <2>3
<1>6. ASSUME NEW o \in 1..Ops, o # k, NEW p \in 1..Seen(o), Sound(o)
      PROVE  Input(o, p)' = Input(o, p)
  <2>1. p \in Nat /\ (o = k + 1 => p <= Pos) /\ o \in 1..(Ops + 1)
    BY <1>0, <1>1, <1>2, <1>6 DEF Seen
  <2>2. QED
    BY <1>5, <1>6, <2>1
<1>7. Sound(k) => \A r \in 1..Len(x) : x[r] = Input(k, Pos + r)
  BY <1>0, <1>1 DEF MemoryInv, RowsSound
<1>8. CASE k \in Recurrent
  <2>1. Recur(k) /\ k \notin AttentionOps
    BY <1>0, <1>8 DEF ComputeOp, AttentionOps
  <2>2. /\ IsSeq(rec'[k]) /\ Len(rec'[k]) = Len(rec[k]) + Len(x)
        /\ \A i \in 1..Len(rec[k]) : rec'[k][i] = rec[k][i]
        /\ \A i \in 1..Len(x) : rec'[k][Len(rec[k]) + i] = x[i]
        /\ \A r \in 1..Len(x) : x'[r] = SubSeq(rec'[k], 1, Len(rec[k]) + r)
    BY <1>8, <2>1, Recurred
  <2>3. CachesSound'
    <3>1. ASSUME NEW o \in AttentionOps, Sound(o), NEW p \in 1..Seen(o)'
          PROVE  kv'[o][p] = Input(o, p)'
      <4>1. o \in 1..Ops /\ o # k /\ p \in 1..Seen(o) /\ kv'[o] = kv[o]
        BY <1>0, <1>1, <1>4, <2>1, <3>1, OthersKept
      <4>2. kv[o][p] = Input(o, p)
        BY <3>1, <4>1 DEF MemoryInv, CachesSound
      <4>3. QED
        BY <1>6, <3>1, <4>1, <4>2
    <3>2. QED
      BY <1>3, <3>1 DEF CachesSound
  <2>4. ~broken => Len(rec[k]) = Pos /\ \A p \in 1..Pos : rec[k][p] = Input(k, p)
    BY <1>1, <1>8 DEF MemoryInv, StatesSound
  <2>5. StatesSound'
    <3>1. SUFFICES ASSUME ~broken, NEW o \in Recurrent
                   PROVE  /\ Len(rec'[o]) = Seen(o)'
                          /\ \A p \in 1..Seen(o)' : rec'[o][p] = Input(o, p)'
      BY <1>1 DEF StatesSound
    <3>2. \A q : Sound(q)
      BY <3>1 DEF Sound
    <3>3. CASE o = k
      <4>1. Len(rec'[k]) = Seen(k)'
        BY <1>1, <2>2, <2>4, <3>1
      <4>2. ASSUME NEW p \in 1..(Pos + Len(x)) PROVE rec'[k][p] = Input(k, p)'
        <5>1. p \in Nat /\ k \in 1..(Ops + 1) /\ k # k + 1
          BY <1>2
        <5>2. Input(k, p)' = Input(k, p)
          BY <1>5, <3>2, <5>1
        <5>3. CASE p <= Pos
          <6>1. p \in 1..Pos
            BY <1>2, <5>3
          <6>2. QED
            BY <2>2, <2>4, <3>1, <5>2, <6>1
        <5>4. CASE ~(p <= Pos)
          <6>1. PICK r \in 1..Len(x) : p = Pos + r
            <7>1. p - Pos \in 1..Len(x) /\ p = Pos + (p - Pos)
              BY <1>2, <5>4
            <7>2. QED
              BY <7>1
          <6>2. rec'[k][p] = x[r]
            BY <2>2, <2>4, <3>1, <6>1
          <6>3. x[r] = Input(k, p)
            BY <1>7, <3>2, <6>1
          <6>4. QED
            BY <5>2, <6>2, <6>3
        <5>5. QED
          BY <5>3, <5>4
      <4>3. QED
        BY <1>1, <3>3, <4>1, <4>2
    <3>4. CASE o # k
      <4>1. o \in 1..Ops /\ Seen(o)' = Seen(o) /\ rec'[o] = rec[o]
        BY <1>0, <1>1, <1>4, <3>4, OthersKept
      <4>2. Len(rec[o]) = Seen(o) /\ \A p \in 1..Seen(o) : rec[o][p] = Input(o, p)
        BY <3>1 DEF MemoryInv, StatesSound
      <4>3. QED
        BY <1>6, <3>2, <3>4, <4>1, <4>2
    <3>5. QED
      BY <3>3, <3>4
  <2>6. RowsSound'
    <3>1. SUFFICES ASSUME Sound(op)', NEW r \in 1..Len(x) PROVE x'[r] = Input(op, Pos + r)'
      BY <1>1 DEF RowsSound
    <3>2. ~broken
      BY <1>0, <1>1, <1>2, <1>8, <3>1 DEF Sound
    <3>3. x'[r] = SubSeq(rec'[k], 1, Pos + r)
      BY <2>2, <2>4, <3>2
    <3>4. op' # 1 /\ op' - 1 = k
      BY <1>0, <1>1
    <3>5. Input(op, Pos + r)' = SubSeq(rec'[k], 1, Pos + r)
      BY <1>1, <1>8, <3>4 DEF Input
    <3>6. QED
      BY <3>3, <3>5
  <2>7. QED
    BY <2>3, <2>5, <2>6 DEF MemoryInv
<1>9. CASE k \notin Recurrent
  <2>1. Attend(k) /\ k \in AttentionOps
    BY <1>0, <1>9 DEF ComputeOp, AttentionOps
  <2>2. /\ kv'[k] = [p \in 1..Ctx |-> IF p \in (Pos + 1)..(Pos + Len(x))
                                      THEN x[p - Pos] ELSE kv[k][p]]
        /\ \A r \in 1..Len(x) : x'[r] = SubSeq(kv'[k], 1, Pos + r)
    BY <2>1, Attended
  <2>3. CachesSound'
    <3>1. SUFFICES ASSUME NEW o \in AttentionOps, Sound(o), NEW p \in 1..Seen(o)'
                   PROVE  kv'[o][p] = Input(o, p)'
      BY <1>3 DEF CachesSound
    <3>2. CASE o = k
      <4>1. p \in Nat /\ p \in 1..(Pos + Len(x)) /\ p \in 1..Ctx /\ k \in 1..(Ops + 1) /\ k # k + 1
        BY <1>1, <1>2, <3>1, <3>2
      <4>2. Input(k, p)' = Input(k, p)
        BY <1>5, <3>1, <3>2, <4>1
      <4>3. CASE p <= Pos
        <5>1. p \in 1..Pos /\ kv'[k][p] = kv[k][p]
          BY <1>2, <2>2, <4>1, <4>3
        <5>2. kv[k][p] = Input(k, p)
          BY <1>1, <2>1, <3>1, <3>2, <5>1 DEF MemoryInv, CachesSound
        <5>3. QED
          BY <3>2, <4>2, <5>1, <5>2
      <4>4. CASE ~(p <= Pos)
        <5>1. PICK r \in 1..Len(x) : p = Pos + r
          <6>1. p - Pos \in 1..Len(x) /\ p = Pos + (p - Pos)
            BY <1>2, <4>1, <4>4
          <6>2. QED
            BY <6>1
        <5>2. p - Pos = r /\ p \in (Pos + 1)..(Pos + Len(x))
          BY <1>2, <5>1
        <5>3. kv'[k][p] = x[r]
          BY <2>2, <4>1, <5>2
        <5>4. x[r] = Input(k, p)
          BY <1>7, <3>1, <3>2, <5>1
        <5>5. QED
          BY <3>2, <4>2, <5>3, <5>4
      <4>5. QED
        BY <4>3, <4>4
    <3>3. CASE o # k
      <4>1. o \in 1..Ops /\ p \in 1..Seen(o) /\ kv'[o] = kv[o]
        BY <1>0, <1>1, <1>4, <3>1, <3>3, OthersKept
      <4>2. kv[o][p] = Input(o, p)
        BY <3>1, <4>1 DEF MemoryInv, CachesSound
      <4>3. QED
        BY <1>6, <3>1, <3>3, <4>1, <4>2
    <3>4. QED
      BY <3>2, <3>3
  <2>4. StatesSound'
    <3>1. SUFFICES ASSUME ~broken, NEW o \in Recurrent
                   PROVE  /\ Len(rec'[o]) = Seen(o)'
                          /\ \A p \in 1..Seen(o)' : rec'[o][p] = Input(o, p)'
      BY <1>1 DEF StatesSound
    <3>2. Sound(o)
      BY <3>1 DEF Sound
    <3>3. o # k
      BY <1>9
    <3>4. o \in 1..Ops /\ Seen(o)' = Seen(o) /\ rec'[o] = rec[o]
      BY <1>0, <1>1, <1>4, <3>3, OthersKept
    <3>5. Len(rec[o]) = Seen(o) /\ \A p \in 1..Seen(o) : rec[o][p] = Input(o, p)
      BY <3>1 DEF MemoryInv, StatesSound
    <3>6. QED
      BY <1>6, <3>2, <3>3, <3>4, <3>5
  <2>5. RowsSound'
    <3>1. SUFFICES ASSUME Sound(op)', NEW r \in 1..Len(x) PROVE x'[r] = Input(op, Pos + r)'
      BY <1>1 DEF RowsSound
    <3>2. x'[r] = SubSeq(kv'[k], 1, Pos + r)
      BY <2>2
    <3>3. op' # 1 /\ op' - 1 = k
      BY <1>0, <1>1
    <3>4. Input(op, Pos + r)' = SubSeq(kv'[k], 1, Pos + r)
      BY <1>1, <1>9, <3>3 DEF Input
    <3>5. QED
      BY <3>2, <3>4
  <2>6. QED
    BY <2>3, <2>4, <2>5 DEF MemoryInv
<1>10. QED
  BY <1>8, <1>9

(* The end of a pass: every operation has seen the chunk, and the last row *)
(* of the chunk is published.                                              *)
LEMMA EndMemory ==
  ASSUME ControlInv, MemoryInv, EndChunk
  PROVE  MemoryInv' /\ LogitsFresh'
<1>1. /\ pc = "pass" /\ op = Ops + 1 /\ n_tokens' = n_tokens + Owned /\ logits' = x[Len(x)]
      /\ UNCHANGED <<tokens, kv, rec, broken>>
  BY DEF EndChunk, cache, Published
<1>2. /\ Len(batch) \in Nat /\ done \in Nat /\ n_tokens \in Nat /\ Len(x) \in Nat /\ Ops \in Nat
      /\ Pos \in Nat /\ Pos = n_tokens + done
  BY Numbers DEF Pos
<1>3. Len(x) >= 1
  BY <1>1, <1>2 DEF ControlInv, BatchFits
<1>4. pc' # "pass" /\ Pos' = Pos + Len(x) /\ (pc' = "sample" => n_tokens' = Pos + Len(x))
  <2>1. CASE LastChunk
    <3>1. pc' = "sample" /\ done' = 0 /\ n_tokens' = n_tokens + Len(batch)
          /\ done + Len(x) = Len(batch)
      BY <1>1, <2>1 DEF EndChunk, Return, Owned, LastChunk
    <3>2. QED
      BY <1>2, <3>1 DEF Pos
  <2>2. CASE ~LastChunk
    <3>1. pc' = "chunk" /\ done' = done + Len(x) /\ n_tokens' = n_tokens
      BY <1>1, <1>2, <2>2 DEF EndChunk, Owned
    <3>2. QED
      BY <1>2, <3>1 DEF Pos
  <2>3. QED
    BY <2>1, <2>2
<1>5. \A o \in 1..Ops : Seen(o)' = Seen(o)
  <2>1. \A o \in 1..Ops : Seen(o) = Pos + Len(x)
    BY <1>1, <1>2 DEF Seen
  <2>2. \A o \in 1..Ops : Seen(o)' = Pos'
    BY <1>4 DEF Seen
  <2>3. QED
    BY <1>4, <2>1, <2>2
<1>6. MemoryInv'
  BY <1>1, <1>4, <1>5, MemoryKept
<1>7. LogitsFresh'
  <2> DEFINE n == Pos + Len(x)
  <2>1. Sound(Ops + 1) => x[Len(x)] = Input(Ops + 1, n)
    <3>1. Len(x) \in 1..Len(x)
      BY <1>2, <1>3
    <3>2. QED
      BY <1>1, <3>1 DEF MemoryInv, RowsSound
  <2>2. Sound(Ops + 1)' <=> Sound(Ops + 1)
    BY <1>1 DEF Sound
  <2>3. pc' = "sample" => Input(Ops + 1, n_tokens)' = Input(Ops + 1, n)
    BY <1>1, <1>4 DEF Input
  <2>4. QED
    BY <1>1, <2>1, <2>2, <2>3 DEF LogitsFresh
<1>8. QED
  BY <1>6, <1>7

(* A failed pass may have written behind the session's positions and into  *)
(* the recurrent states, which are then not trusted.                       *)
LEMMA FailsMemory == ASSUME ControlInv, MemoryInv, PassFails PROVE MemoryInv'
<1>1. /\ broken' = TRUE /\ done' = 0 /\ pc' \in {"idle", "exited"}
      /\ UNCHANGED <<tokens, n_tokens, kv, rec>>
  BY DEF PassFails, Return, Finish, cache
<1>2. \A o : Seen(o)' = n_tokens
  <2>1. n_tokens \in Nat
    BY Numbers
  <2>2. QED
    BY <1>1, <2>1 DEF Seen, Pos
<1>3. \A o : Seen(o) \in Nat /\ n_tokens <= Seen(o) /\ n_tokens \in Nat
  <2>1. n_tokens \in Nat /\ done \in Nat /\ Len(x) \in Nat
    BY Numbers
  <2>2. QED
    BY <2>1 DEF Seen, Pos
<1>4. \A o : Sound(o)' => Sound(o)
  BY <1>1 DEF Sound
<1>5. \A o, p : Input(o, p)' = Input(o, p)
  BY <1>1 DEF Input
<1>6. CachesSound'
  <2>1. SUFFICES ASSUME NEW o \in AttentionOps, Sound(o), NEW p \in 1..n_tokens
                 PROVE  kv[o][p] = Input(o, p)
    BY <1>1, <1>2, <1>4, <1>5 DEF CachesSound
  <2>2. p \in 1..Seen(o)
    BY <1>3
  <2>3. QED
    BY <2>1, <2>2 DEF MemoryInv, CachesSound
<1>7. StatesSound' /\ RowsSound'
  BY <1>1 DEF StatesSound, RowsSound
<1>8. QED
  BY <1>6, <1>7 DEF MemoryInv

(* A reset forgets: no position is seen and the recurrent states are       *)
(* empty.                                                                  *)
LEMMA ResetMemory ==
  ASSUME ControlInv, MemoryInv, Reset, done' = 0, pc' # "pass"
  PROVE  MemoryInv'
<1>1. n_tokens' = 0 /\ rec' = [o \in Recurrent |-> <<>>]
  BY DEF Reset
<1>2. \A o : Seen(o)' = 0
  BY <1>1 DEF Seen, Pos
<1>3. \A o \in Recurrent : Len(rec'[o]) = 0
  BY <1>1, Nothing
<1>4. QED
  BY <1>2, <1>3 DEF MemoryInv, CachesSound, StatesSound, RowsSound

(* Every step of the session keeps its memory sound, and only the end of a *)
(* pass leads to sampling.                                                 *)
LEMMA NextMemory ==
  ASSUME ControlInv, MemoryInv, LogitsFresh, [Next]_vars
  PROVE  MemoryInv' /\ LogitsFresh'
<1>1. ASSUME pc \notin {"pass", "chunk"}, pc' \notin {"pass", "sample"}, broken' = broken, done' = 0,
             UNCHANGED <<tokens, n_tokens, kv, rec>>
      PROVE  MemoryInv' /\ LogitsFresh'
  <2>1. done = 0 /\ pc # "pass"
    BY <1>1 DEF ControlInv, BatchFits
  <2>2. \A o \in 1..Ops : Seen(o)' = Seen(o)
    BY <1>1, <2>1 DEF Seen, Pos
  <2>3. MemoryInv'
    BY <1>1, <2>2, MemoryKept
  <2>4. QED
    BY <1>1, <2>3 DEF LogitsFresh
<1>2. pc \notin {"chunk", "pass"} => done = 0
  BY DEF ControlInv, BatchFits
<1>3. CASE StartChunk
  <2>1. pc' # "sample"
    BY <1>3 DEF StartChunk
  <2>2. QED
    BY <1>3, <2>1, ChunkMemory DEF LogitsFresh
<1>4. CASE ComputeOp
  <2>1. pc' # "sample"
    BY <1>4 DEF ComputeOp
  <2>2. QED
    BY <1>4, <2>1, ComputeMemory DEF LogitsFresh
<1>5. CASE EndChunk
  BY <1>5, EndMemory
<1>6. CASE Sample
  <2>1. pc = "sample" /\ pc' = "generate" /\ UNCHANGED <<tokens, n_tokens, kv, rec, done, broken>>
    BY <1>6 DEF Sample, cache, pass
  <2>2. QED
    BY <1>1, <1>2, <2>1
<1>7. CASE EndGeneration
  <2>1. pc = "generate" /\ pc' = "idle" /\ UNCHANGED <<tokens, n_tokens, kv, rec, done, broken>>
    BY <1>7 DEF EndGeneration, Finish, cache, pass
  <2>2. QED
    BY <1>1, <1>2, <2>1
<1>8. CASE Generate
  <2>1. /\ pc = "generate" /\ pc' \in {"idle", "chunk"} /\ done' \in {0, done}
        /\ UNCHANGED <<tokens, n_tokens, kv, rec, broken>>
    BY <1>8, Generated DEF cache, pass
  <2>2. QED
    BY <1>1, <1>2, <2>1
<1>9. CASE PassFails
  <2>1. pc' # "sample"
    BY <1>9 DEF PassFails, Finish
  <2>2. QED
    BY <1>9, <2>1, FailsMemory DEF LogitsFresh
<1>10. CASE RefuseRequest
  <2>1. pc = "idle" /\ pc' = "idle" /\ UNCHANGED <<tokens, n_tokens, kv, rec, done, broken>>
    BY <1>10 DEF RefuseRequest, cache, pass
  <2>2. QED
    BY <1>1, <1>2, <2>1
<1>11. CASE Request
  <2>1. Reset /\ done' = 0 /\ pc' = "chunk"
    BY <1>11, Requested
  <2>2. QED
    BY <2>1, ResetMemory DEF LogitsFresh
<1>12. CASE Turn
  <2>1. /\ pc = "idle" /\ pc' \in {"exited", "chunk"} /\ done' \in {0, done}
        /\ UNCHANGED <<tokens, n_tokens, kv, rec, broken>>
    BY <1>12, Turned DEF cache, pass
  <2>2. QED
    BY <1>1, <1>2, <2>1
<1>13. CASE Clear
  <2>1. Reset /\ done' = done /\ pc' = "idle" /\ pc = "idle"
    BY <1>13 DEF Clear, pass
  <2>2. QED
    BY <1>2, <2>1, ResetMemory DEF LogitsFresh
<1>14. CASE Quit
  <2>1. pc = "idle" /\ pc' = "exited" /\ UNCHANGED <<tokens, n_tokens, kv, rec, done, broken>>
    BY <1>14 DEF Quit, Exit, cache, pass
  <2>2. QED
    BY <1>1, <1>2, <2>1
<1>15. CASE UNCHANGED vars
  BY <1>15 DEF vars, cache, pass, MemoryInv, CachesSound, StatesSound, RowsSound, LogitsFresh,
     Seen, Pos, Sound, Input
<1>16. QED
  BY <1>3, <1>4, <1>5, <1>6, <1>7, <1>8, <1>9, <1>10, <1>11, <1>12, <1>13, <1>14, <1>15
     DEF Next, Running, Arrival, Pass, Loop

(* A new session remembers nothing.                                        *)
LEMMA InitMemory == Init => MemoryInv /\ LogitsFresh
<1> SUFFICES ASSUME Init PROVE MemoryInv /\ LogitsFresh
  OBVIOUS
<1>1. n_tokens = 0 /\ done = 0 /\ pc = "idle" /\ rec = [o \in Recurrent |-> <<>>]
  BY DEF Init
<1>2. \A o : Seen(o) = 0
  BY <1>1 DEF Seen, Pos
<1>3. \A o \in Recurrent : Len(rec[o]) = 0
  BY <1>1, Nothing
<1>4. QED
  BY <1>1, <1>2, <1>3 DEF MemoryInv, CachesSound, StatesSound, RowsSound, LogitsFresh

(* The memory and the logits are sound in every reachable state.           *)
LEMMA AlwaysMemory == Spec => [](ControlInv /\ MemoryInv /\ LogitsFresh)
<1>1. Init => MemoryInv /\ LogitsFresh
  BY InitMemory
<1>2. ControlInv /\ (MemoryInv /\ LogitsFresh) /\ [Next]_vars => (MemoryInv /\ LogitsFresh)'
  BY NextMemory
<1>3. QED
  BY <1>1, <1>2, AlwaysControl, PTL DEF Spec

(* However a batch was cut into micro-batches, whatever passes failed      *)
(* before, and whoever used the session before a reset that leaves the     *)
(* attention caches as they are: what an operation can read of the         *)
(* session's positions is what a fresh session would have computed from    *)
(* the same tokens.                                                        *)
THEOREM MemoryKeptTrue == Spec => []MemoryIsHistory
<1>1. ControlInv /\ MemoryInv => MemoryIsHistory
  <2> SUFFICES ASSUME ControlInv, MemoryInv PROVE MemoryIsHistory
    OBVIOUS
  <2>1. n_tokens \in Nat /\ done \in Nat /\ Len(x) \in Nat
    BY Numbers
  <2>2. \A o : Seen(o) \in Nat /\ n_tokens <= Seen(o)
    BY <2>1 DEF Seen, Pos
  <2>3. ASSUME NEW p \in 1..n_tokens, NEW o \in AttentionOps, Sound(o)
        PROVE  kv[o][p] = Input(o, p)
    <3>1. p \in 1..Seen(o)
      BY <2>1, <2>2
    <3>2. QED
      BY <2>3, <3>1 DEF MemoryInv, CachesSound
  <2>4. ASSUME NEW p \in 1..n_tokens, NEW o \in Recurrent, Sound(o + 1)
        PROVE  p <= Len(rec[o]) /\ rec[o][p] = Input(o, p)
    <3>1. ~broken
      <4>1. o \in Int
        BY SessionAssumption
      <4>2. QED
        BY <2>4, <4>1 DEF Sound
    <3>2. Len(rec[o]) = Seen(o) /\ \A q \in 1..Seen(o) : rec[o][q] = Input(o, q)
      BY <3>1 DEF MemoryInv, StatesSound
    <3>3. p \in 1..Seen(o) /\ p <= Seen(o)
      BY <2>1, <2>2
    <3>4. QED
      BY <3>2, <3>3
  <2>5. ASSUME pc \in {"idle", "sample", "generate"}, ~broken, NEW o \in Recurrent
        PROVE  Len(rec[o]) = n_tokens
    <3>1. Len(rec[o]) = Seen(o) /\ done = 0
      BY <2>5 DEF MemoryInv, StatesSound, ControlInv, BatchFits
    <3>2. Seen(o) = n_tokens
      BY <2>1, <2>5, <3>1 DEF Seen, Pos
    <3>3. QED
      BY <3>1, <3>2
  <2>6. QED
    BY <2>3, <2>4, <2>5 DEF MemoryIsHistory
<1>2. QED
  BY <1>1, AlwaysMemory, PTL

(* A token is sampled from the logits of the last position of the whole    *)
(* history: graph_execute publishes the last row of the last chunk, and    *)
(* that row was computed through every operation from sound memory.        *)
THEOREM LogitsAreFresh == Spec => []LogitsFresh
BY AlwaysMemory, PTL

(* The session's buffers, the locals of graph_execute and of its clients   *)
(* have their types; no position outside the context is in use.            *)
THEOREM SessionTypes == Spec => []TypeOK
<1>1. ControlInv => TypeOK
  <2> SUFFICES ASSUME ControlInv PROVE TypeOK
    OBVIOUS
  <2>1. DOMAIN kv = AttentionOps /\ DOMAIN rec = Recurrent
    BY DEF ControlInv, Types, CacheTypes
  <2>2. \A o \in AttentionOps : DOMAIN kv[o] = 1..Ctx
    BY DEF ControlInv, Types, CacheTypes
  <2>3. batch \in Batches
    <3>1. batch \in [1..Len(batch) -> Vocab] /\ Len(batch) \in Nat
      BY LenProperties DEF ControlInv, Types, PassTypes
    <3>2. n_tokens \in Nat /\ Ctx \in Nat
      BY Numbers
    <3>3. Len(batch) <= Ctx
      BY <3>1, <3>2, Nothing DEF ControlInv, BatchFits
    <3>4. Len(batch) \in 0..Ctx
      BY <3>1, <3>2, <3>3
    <3>5. QED
      BY <3>1, <3>4 DEF Batches
  <2>4. QED
    BY <2>1, <2>2, <2>3 DEF TypeOK, ControlInv, Types, BufferTypes, PassTypes, ClientTypes, BatchFits
<1>2. QED
  BY <1>1, AlwaysControl, PTL
=============================================================================
