------------------------------ MODULE Tokenizer ------------------------------
(***************************************************************************)
(* The encoders of tokenizer.c: merges of byte-level BPE, the              *)
(* SentencePiece encoder, the search for special tokens, and the layout of *)
(* the chat templates.  A token is identified with its piece, the bytes    *)
(* under which the vocabulary holds it; both hash tables (token -> id,     *)
(* merge -> rank) are therefore a set and a sequence.                      *)
(***************************************************************************)
EXTENDS Bytes, FiniteSetsExt

CONSTANTS
  BpeVocab,     \* the pieces of the byte-level vocabulary
  Merges,       \* its merges in order of rank, pairs of pieces
  SpmScore,     \* the score of each piece of the SentencePiece vocabulary
  CHUNK_MAX,    \* symbols that bpe_encode_chunk holds (512)
  SPECIAL_MAX   \* the longest special token that is looked for (64)

\* Every byte has a token and every merge a result, as in real vocabularies.
ASSUME VocabAssumption ==
  /\ {ByteKey(b) : b \in Byte} \subseteq BpeVocab
  /\ {FallbackKey(b) : b \in Byte} \subseteq DOMAIN SpmScore
  /\ {Merges[r][1] \o Merges[r][2] : r \in DOMAIN Merges} \subseteq BpeVocab

Cut(s, n) == SubSeq(s, 1, Min({n, Len(s)}))

(* ---- byte-level BPE ----------------------------------------------------- *)

\* vocab_merge_rank: the ranks of a pair, at most one.
Rank(a, b) == {r \in DOMAIN Merges : Merges[r] = <<a, b>>}
Ranks(s) == UNION {Rank(s[i], s[i + 1]) : i \in 1..(Len(s) - 1)}

\* Mutant of BestPair: the last of the pairs with the lowest rank.
BestPairLast(s) ==
  LET best == Min(Ranks(s)) IN Max({i \in 1..(Len(s) - 1) : best \in Rank(s[i], s[i + 1])})

\* The first of the pairs with the lowest rank.
BestPair(s) ==
  LET best == Min(Ranks(s)) IN Min({i \in 1..(Len(s) - 1) : best \in Rank(s[i], s[i + 1])})

\* vocab_merge_result and the memmove that closes the gap.
JoinAt(s, i) ==
  SubSeq(s, 1, i - 1) \o <<s[i] \o s[i + 1]>> \o SubSeq(s, i + 2, Len(s))

\* The merge loop of bpe_encode_chunk.
MergeAll(s0) ==
  LET M[s \in Seq(Seq(Byte))] ==
        IF Ranks(s) = {} THEN s ELSE M[JoinAt(s, BestPair(s))]
  IN M[s0]

\* bpe_encode_chunk: the bytes after the first CHUNK_MAX are dropped.  A
\* SentencePiece vocabulary, which comes here without scores, has no merges.
bpe_encode_chunk(chunk, max_out, spm) ==
  LET first == Cut(chunk, CHUNK_MAX) IN
  Cut(IF spm THEN [i \in DOMAIN first |-> FallbackKey(first[i])]
      ELSE MergeAll([i \in DOMAIN first |-> ByteKey(first[i])]), max_out)

\* match_special_token: lengths of the vocabulary entries that start text, if it
\* starts with "<|".
SpecialLengths(text, spm) ==
  IF Len(text) >= 3 /\ SubSeq(text, 1, 2) = <<60, 124>>
  THEN {n \in 2..Min({Len(text), SPECIAL_MAX}) :
          SubSeq(text, 1, n) \in IF spm THEN DOMAIN SpmScore ELSE BpeVocab}
  ELSE {}

\* The length of the contraction at the start of text ('s 't 'm 'd 're 've 'll), or 0.
ContractionLength(text) ==
  CASE Len(text) < 2 \/ text[1] # 39              -> 0
    [] text[2] \in {115, 116, 109, 100}           -> 2
    [] Len(text) >= 3 /\ text[2] \in {114, 118} /\ text[3] = 101 -> 3
    [] Len(text) >= 3 /\ text[2] = 108 /\ text[3] = 108          -> 3
    [] OTHER -> 0

\* The bytes at the start of text that are of one class.
RunLength(text, class) ==
  Max({n \in 0..Len(text) : \A i \in 1..n : char_category(text[i]) = class})

\* A single space in front of something else belongs to the chunk behind it.
Absorbed(text) ==
  LET n == RunLength(text, "space") IN IF n = 1 /\ n < Len(text) THEN 1 ELSE 0

\* The length of the chunk at the start of text: spaces, or a word, number or
\* punctuation with the space in front of it.
ChunkLength(text) ==
  LET a == Absorbed(text)
      rest == SubSeq(text, a + 1, Len(text))
  IN a + RunLength(rest, char_category(rest[1]))

(* ---- SentencePiece ------------------------------------------------------ *)

Normalize(text, prefix) ==
  (IF prefix THEN Marker ELSE <<>>)
  \o FlattenSeq([i \in DOMAIN text |-> IF text[i] = 32 THEN Marker ELSE <<text[i]>>])

\* The characters of norm, a cut one at the end byte by byte.
Characters(norm) ==
  LET C[i \in Nat] ==
        IF i > Len(norm) THEN <<>>
        ELSE LET n == utf8_char_len(norm[i])
                 w == IF i + n - 1 > Len(norm) THEN 1 ELSE n
             IN <<SubSeq(norm, i, i + w - 1)>> \o C[i + w]
  IN C[1]

\* Adjacent symbols that form a piece; Key.len is a byte.
Joinable(s) ==
  {i \in 1..(Len(s) - 1) : /\ Len(s[i]) + Len(s[i + 1]) <= 255
                           /\ s[i] \o s[i + 1] \in DOMAIN SpmScore}
Score(s, i) == SpmScore[s[i] \o s[i + 1]]

\* The first of the pairs with the highest score.
BestJoin(s) ==
  Min({i \in Joinable(s) : \A j \in Joinable(s) : Score(s, j) <= Score(s, i)})

JoinPieces(s0) ==
  LET J[s \in Seq(Seq(Byte))] ==
        IF Joinable(s) = {} THEN s ELSE J[JoinAt(s, BestJoin(s))]
  IN J[s0]

\* Known pieces as they are, everything else byte by byte.
Emit(s) ==
  IF s \in DOMAIN SpmScore THEN <<s>> ELSE [i \in DOMAIN s |-> FallbackKey(s[i])]

\* tokenize_spm of a vocabulary with scores; without them it calls tokenize_bpe.
tokenize_spm(text, max_tokens, prefix) ==
  LET s == JoinPieces(Characters(Normalize(text, prefix))) IN
  Cut(FlattenSeq([i \in DOMAIN s |-> Emit(s[i])]), max_tokens)
=============================================================================
