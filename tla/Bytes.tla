-------------------------------- MODULE Bytes --------------------------------
(***************************************************************************)
(* Bytes and text: the byte alphabet of byte-level BPE vocabularies        *)
(* (vocab_load_for_bpe) and its inverse (the decode functions of the       *)
(* architectures), the pieces of SentencePiece vocabularies, UTF-8 as the  *)
(* server and the chat look at it, and the escaping of JSON strings.       *)
(* A byte is a number of 0..255, a text a sequence of bytes.               *)
(***************************************************************************)
EXTENDS Integers, Sequences, FiniteSets, SequencesExt

Byte == 0..255

\* isalpha, isdigit and isspace in the C locale.
IsAlpha(c) == c \in 65..90 \cup 97..122
IsDigit(c) == c \in 48..57
IsSpace(c) == c \in 9..13 \cup {32}

\* The classes of the pre-tokenizer.
char_category(c) ==
  CASE c >= 128 \/ IsAlpha(c) -> "letter"
    [] IsDigit(c)             -> "digit"
    [] IsSpace(c)             -> "space"
    [] OTHER                  -> "other"

(* ---- bytes_to_unicode --------------------------------------------------- *)

IsSelf(b) == b \in 33..126 \cup 161..172 \cup 174..255

\* The code point that stands for byte b in the pieces of a vocabulary.
Codepoint(b) ==
  IF IsSelf(b) THEN b ELSE 256 + Cardinality({i \in 0..(b - 1) : ~IsSelf(i)})

\* Code points below 2048 in UTF-8; those of bytes_to_unicode are below 324.
Utf8(cp) == IF cp < 128 THEN <<cp>> ELSE <<192 + (cp \div 64), 128 + (cp % 64)>>

\* byte_token_ids: the piece of each byte, filled once.
ByteKeys == SubSeq([i \in 1..256 |-> Utf8(Codepoint(i - 1))], 1, 256)
ByteKey(b) == ByteKeys[b + 1]

\* Mutant of PairByte: the second range of U+0100 is one too high.
PairByteShifted(c, nc) ==
  CASE c = 194 -> nc
    [] c = 195 -> nc + 64
    [] c = 196 -> IF nc <= 160 THEN nc - 128 ELSE nc - 33
    [] c = 197 -> IF nc \in 128..130 THEN nc + 30 ELSE IF nc = 131 THEN 173 ELSE -1

\* The byte that the sequence c, nc stands for, or -1.
PairByte(c, nc) ==
  CASE c = 194 -> nc
    [] c = 195 -> nc + 64
    [] c = 196 -> IF nc <= 160 THEN nc - 128 ELSE IF nc = 161 THEN 127 ELSE nc - 34
    [] c = 197 -> IF nc \in 128..130 THEN nc + 30 ELSE IF nc = 131 THEN 173 ELSE -1

\* At raw[i] two bytes encode one.
IsPair(raw, i) ==
  /\ raw[i] \in 194..197 /\ i < Len(raw) /\ raw[i + 1] \in 128..191
  /\ PairByte(raw[i], raw[i + 1]) \in Byte

\* llama_decode and its copies: the text of a byte-level piece.
DecodeBpe(raw) ==
  LET Dec[i \in Nat] ==
        IF i > Len(raw) THEN <<>>
        ELSE IF IsPair(raw, i)
             THEN <<PairByte(raw[i], raw[i + 1])>> \o Dec[i + 2]
             ELSE <<raw[i]>> \o Dec[i + 1]
  IN Dec[1]

(* ---- SentencePiece pieces ----------------------------------------------- *)

Marker == <<226, 150, 129>>            \* U+2581

HexChar(d) == IF d < 10 THEN 48 + d ELSE 55 + d
HexDigit(c) ==
  CASE c \in 48..57  -> c - 48
    [] c \in 97..102 -> c - 87
    [] c \in 65..70  -> c - 55
    [] OTHER         -> -1

\* The piece "<0xHH>" of byte b, as vocabularies write it.
FallbackKey(b) == <<60, 48, 120, HexChar(b \div 16), HexChar(b % 16), 62>>

\* spm_byte_token_value: the byte of a fallback piece, or -1.
spm_byte_token_value(raw) ==
  IF /\ Len(raw) = 6 /\ SubSeq(raw, 1, 3) = <<60, 48, 120>> /\ raw[6] = 62
     /\ HexDigit(raw[4]) >= 0 /\ HexDigit(raw[5]) >= 0
  THEN HexDigit(raw[4]) * 16 + HexDigit(raw[5]) ELSE -1

\* gemma3_decode
DecodeSpm(raw) ==
  LET Dec[i \in Nat] ==
        IF i > Len(raw) THEN <<>>
        ELSE IF i + 2 <= Len(raw) /\ SubSeq(raw, i, i + 2) = Marker
             THEN <<32>> \o Dec[i + 3]
             ELSE <<raw[i]>> \o Dec[i + 1]
  IN IF spm_byte_token_value(raw) >= 0 THEN <<spm_byte_token_value(raw)>> ELSE Dec[1]

(* ---- UTF-8 -------------------------------------------------------------- *)

\* utf8_char_len: the length that a lead byte announces.
utf8_char_len(c) ==
  CASE c \in 192..223 -> 2
    [] c \in 224..239 -> 3
    [] c \in 240..247 -> 4
    [] OTHER          -> 1

\* How many bytes of buf the server may send: a stray byte counts as one.
utf8_complete_prefix(buf) ==
  LET P[i \in Nat] ==
        IF i < Len(buf) /\ i + utf8_char_len(buf[i + 1]) <= Len(buf)
        THEN P[i + utf8_char_len(buf[i + 1])] ELSE i
  IN P[0]

Lead(c, n) == IF n = 2 THEN c % 32 ELSE IF n = 3 THEN c % 16 ELSE c % 8

\* The code point of the n bytes from s[i] on.
CodePoint(s, i, n) ==
  LET Cp[j \in 0..3] ==
        IF j = 0 THEN Lead(s[i], n) ELSE Cp[j - 1] * 64 + (s[i + j] % 64)
  IN Cp[n - 1]

\* A character of several bytes at s[i], as utf8_valid checks it.
CharValid(s, i) ==
  LET n  == utf8_char_len(s[i])
      cp == CodePoint(s, i, n)
  IN /\ n > 1 /\ i + n - 1 <= Len(s)
     /\ \A j \in 1..(n - 1) : s[i + j] \in 128..191
     /\ cp >= (IF n = 2 THEN 128 ELSE IF n = 3 THEN 2048 ELSE 65536)
     /\ cp <= 1114111 /\ cp \notin 55296..57343

\* utf8_valid of chat.c
utf8_valid(s) ==
  LET Ok[i \in Nat] ==
        IF i > Len(s) THEN TRUE
        ELSE IF s[i] < 128 THEN Ok[i + 1]
        ELSE CharValid(s, i) /\ Ok[i + utf8_char_len(s[i])]
  IN Ok[1]

(* ---- JSON --------------------------------------------------------------- *)

LowerHex(d) == IF d < 10 THEN 48 + d ELSE 87 + d

\* json_escape_str, for texts that fit its buffer.
EscapeByte(c) ==
  CASE c \in {34, 92} -> <<92, c>>
    [] c = 10 -> <<92, 110>>
    [] c = 13 -> <<92, 114>>
    [] c = 9  -> <<92, 116>>
    [] c = 8  -> <<92, 98>>
    [] c = 12 -> <<92, 102>>
    [] OTHER  -> IF c < 32
                 THEN <<92, 117, 48, 48, LowerHex(c \div 16), LowerHex(c % 16)>>
                 ELSE <<c>>
json_escape_str(in) == FlattenSeq([i \in DOMAIN in |-> EscapeByte(in[i])])

\* json_unescape
json_unescape(src) ==
  LET U[i \in Nat] ==
        IF i > Len(src) THEN <<>>
        ELSE IF src[i] = 92 /\ i < Len(src)
             THEN LET c == src[i + 1] IN
                  CASE c = 110 -> <<10>> \o U[i + 2]
                    [] c = 114 -> <<13>> \o U[i + 2]
                    [] c = 116 -> <<9>> \o U[i + 2]
                    [] c = 117 -> <<63>> \o U[i + 6]
                    [] OTHER   -> <<c>> \o U[i + 2]
             ELSE <<src[i]>> \o U[i + 1]
  IN U[1]
=============================================================================
