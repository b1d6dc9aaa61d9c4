-------------------------- MODULE CompletionProofs --------------------------
(***************************************************************************)
(* Proofs about the text of a completion, for every text and vocabulary:   *)
(* the check of the lines that are typed in the chat against the table of  *)
(* the Unicode standard, the tokens that sample_token can return, and what *)
(* a client receives of them.                                              *)
(***************************************************************************)
EXTENDS Completion, SequenceTheorems, FiniteSetTheorems, WellFoundedInduction, TLAPS

-----------------------------------------------------------------------------
(* Induction, with a set in the place of a predicate.                      *)

(* A set of numbers that is not empty has a least element.                 *)
LEMMA LeastNat ==
  ASSUME NEW T, T \subseteq Nat, T # {}
  PROVE  \E x \in T : \A y \in T : x <= y
<1> DEFINE R == OpToRel(<, Nat)
<1>1. IsWellFoundedOn(R, Nat)
  BY NatLessThanWellFounded
<1>2. \A x, y \in Nat : <<y, x>> \in R <=> y < x
  BY DEF OpToRel
<1> HIDE DEF R
<1>3. PICK x \in T : \A y \in T : ~(<<y, x>> \in R)
  BY <1>1, WFMin
<1>4. ASSUME NEW y \in T PROVE x <= y
  <2>1. x \in Nat /\ y \in Nat
    OBVIOUS
  <2>2. ~(<<y, x>> \in R)
    BY <1>3
  <2>3. ~(y < x)
    BY <1>2, <2>1, <2>2
  <2>4. QED
    BY <2>1, <2>3
<1>5. QED
  BY <1>4

(* What holds of 0, and of n + 1 when it holds of n < m, holds up to m.    *)
LEMMA UpTo ==
  ASSUME NEW m \in Nat, NEW T, 0 \in T, \A n \in 0..(m - 1) : n \in T => n + 1 \in T
  PROVE  \A n \in 0..m : n \in T
<1> DEFINE U == {n \in 0..m : n \notin T}
<1>1. SUFFICES ASSUME U # {} PROVE FALSE
  OBVIOUS
<1>2. PICK x \in U : \A y \in U : x <= y
  <2>1. U \subseteq Nat
    OBVIOUS
  <2> HIDE DEF U
  <2>2. QED
    BY <1>1, <2>1, LeastNat
<1>3. x \in 1..m
  OBVIOUS
<1>4. x - 1 \in 0..(m - 1) /\ x - 1 \in T /\ (x - 1) + 1 = x
  BY <1>2, <1>3
<1>5. QED
  BY <1>4

-----------------------------------------------------------------------------
(* Loops that scan a text.                                                 *)

(* A scan that goes on from i to i + d[i] as long as the test t[i] succeeds  *)
(* is defined: it reaches the end when there is a set of places, closed      *)
(* under its steps, where all tests succeed.                               *)
LEMMA ScanExists ==
  ASSUME NEW n \in Nat, NEW t \in [Nat -> BOOLEAN], NEW d \in [Nat -> Nat]
  PROVE  \E f \in [Nat -> BOOLEAN] :
            \A i \in Nat : f[i] <=> (i > n \/ (t[i] /\ f[i + d[i]]))
<1> DEFINE Closed(P) == \A j \in P : j > n \/ (t[j] /\ j + d[j] \in P)
           f == [i \in Nat |-> \E P \in SUBSET Nat : i \in P /\ Closed(P)]
<1>1. f \in [Nat -> BOOLEAN]
  OBVIOUS
<1>2. ASSUME NEW i \in Nat PROVE f[i] <=> (i > n \/ (t[i] /\ f[i + d[i]]))
  <2>1. i + d[i] \in Nat
    OBVIOUS
  <2>2. ASSUME f[i], ~(i > n) PROVE t[i] /\ f[i + d[i]]
    <3>1. PICK P \in SUBSET Nat : i \in P /\ Closed(P)
      BY <2>2
    <3>2. t[i] /\ i + d[i] \in P
      BY <2>2, <3>1
    <3>3. QED
      BY <2>1, <3>1, <3>2
  <2>3. ASSUME i > n PROVE f[i]
    <3>1. {i} \in SUBSET Nat /\ i \in {i} /\ Closed({i})
      BY <2>3
    <3>2. QED
      BY <3>1
  <2>4. ASSUME t[i], f[i + d[i]] PROVE f[i]
    <3>1. PICK P \in SUBSET Nat : i + d[i] \in P /\ Closed(P)
      BY <2>1, <2>4
    <3>2. P \cup {i} \in SUBSET Nat /\ i \in P \cup {i} /\ Closed(P \cup {i})
      BY <2>4, <3>1
    <3>3. QED
      BY <3>2
  <2>5. QED
    BY <2>2, <2>3, <2>4
<1> HIDE DEF f
<1>3. QED
  BY <1>1, <1>2

\* Two scans agree at place i.
Agree(f, g, i) == f[i] = g[i]

(* Two scans that agree behind the end, and at a place when they agree at  *)
(* all later ones, agree.                                                  *)
LEMMA ScansAgree ==
  ASSUME NEW n \in Nat, NEW f, NEW g,
         \A i \in Nat : i > n => Agree(f, g, i),
         \A i \in 1..n : (\A j \in Nat : j > i => Agree(f, g, j)) => Agree(f, g, i)
  PROVE  Agree(f, g, 1)
<1> DEFINE T == {m \in 0..n : \A i \in Nat : i > n - m => Agree(f, g, i)}
<1>1. 0 \in T
  OBVIOUS
<1>2. ASSUME NEW m \in 0..(n - 1), m \in T PROVE m + 1 \in T
  <2>1. n - m \in 1..n /\ m + 1 \in 0..n
    OBVIOUS
  <2>2. \A j \in Nat : j > n - m => Agree(f, g, j)
    BY <1>2
  <2>3. Agree(f, g, n - m)
    BY <2>1, <2>2
  <2>4. ASSUME NEW i \in Nat, i > n - (m + 1) PROVE Agree(f, g, i)
    <3>1. i = n - m \/ i > n - m
      BY <2>1, <2>4
    <3>2. QED
      BY <2>2, <2>3, <3>1
  <2>5. QED
    BY <2>1, <2>4
<1>3. n \in T
  <2>1. \A m \in 0..(n - 1) : m \in T => m + 1 \in T
    BY <1>2
  <2> HIDE DEF T
  <2>2. \A m \in 0..n : m \in T
    BY <1>1, <2>1, UpTo
  <2>3. QED
    BY <2>2
<1>4. QED
  BY <1>3

-----------------------------------------------------------------------------
(* UTF-8.                                                                  *)

(* What a lead byte announces.                                             *)
LEMMA CharLenIs ==
  /\ \A c \in 128..191 \cup 248..255 : utf8_char_len(c) = 1
  /\ \A c \in 192..223 : utf8_char_len(c) = 2
  /\ \A c \in 224..239 : utf8_char_len(c) = 3
  /\ \A c \in 240..247 : utf8_char_len(c) = 4
<1>1. ASSUME NEW c \in 128..191 \cup 248..255 PROVE utf8_char_len(c) = 1
  BY DEF utf8_char_len
<1>2. ASSUME NEW c \in 192..223 PROVE utf8_char_len(c) = 2
  BY DEF utf8_char_len
<1>3. ASSUME NEW c \in 224..239 PROVE utf8_char_len(c) = 3
  BY DEF utf8_char_len
<1>4. ASSUME NEW c \in 240..247 PROVE utf8_char_len(c) = 4
  BY DEF utf8_char_len
<1>5. QED
  BY <1>1, <1>2, <1>3, <1>4

(* Whatever it is, the scan goes forward.                                  *)
LEMMA StepsForward == \A c : utf8_char_len(c) \in 1..4 /\ Follow(c) \in 0..3
<1>1. ASSUME NEW c PROVE utf8_char_len(c) \in {1, 2, 3, 4}
  BY DEF utf8_char_len
<1>2. ASSUME NEW c PROVE Follow(c) \in {0, 1, 2, 3}
  BY DEF Follow
<1>3. QED
  BY <1>1, <1>2

(* The code point of two, three and four bytes.                            *)
LEMMA CodePointIs ==
  ASSUME NEW s, NEW i \in Nat, NEW n \in 2..4
  PROVE  CodePoint(s, i, n)
           = IF n = 2 THEN Lead(s[i], n) * 64 + (s[i + 1] % 64)
             ELSE IF n = 3 THEN (Lead(s[i], n) * 64 + (s[i + 1] % 64)) * 64 + (s[i + 2] % 64)
             ELSE ((Lead(s[i], n) * 64 + (s[i + 1] % 64)) * 64 + (s[i + 2] % 64)) * 64
                    + (s[i + 3] % 64)
<1> DEFINE a == Lead(s[i], n)
           h == [j \in 0..3 |-> s[i + j] % 64]
           p == a * 64 + h[1]
           q == p * 64 + h[2]
           r == q * 64 + h[3]
           D == [j \in 0..3 |-> IF j = 0 THEN a ELSE IF j = 1 THEN p ELSE IF j = 2 THEN q ELSE r]
           C == CHOOSE C : C = [j \in 0..3 |-> IF j = 0 THEN Lead(s[i], n)
                                               ELSE C[j - 1] * 64 + (s[i + j] % 64)]
<1>1. D = [j \in 0..3 |-> IF j = 0 THEN a ELSE D[j - 1] * 64 + h[j]]
  <2>1. ASSUME NEW j \in 0..3 PROVE D[j] = IF j = 0 THEN a ELSE D[j - 1] * 64 + h[j]
    <3> HIDE DEF a, h
    <3>1. j = 0 \/ j = 1 \/ j = 2 \/ j = 3
      OBVIOUS
    <3>2. D[0] = a /\ D[1] = p /\ D[2] = q /\ D[3] = r
      OBVIOUS
    <3>3. D[1] = D[0] * 64 + h[1] /\ D[2] = D[1] * 64 + h[2] /\ D[3] = D[2] * 64 + h[3]
      BY <3>2
    <3> HIDE DEF D
    <3>4. QED
      BY <3>1, <3>2, <3>3
  <2> HIDE DEF h, a, p, q, r
  <2>2. QED
    BY <2>1
<1>2. D = [j \in 0..3 |-> IF j = 0 THEN Lead(s[i], n) ELSE D[j - 1] * 64 + (s[i + j] % 64)]
  <2>1. \A j \in 0..3 : h[j] = s[i + j] % 64
    OBVIOUS
  <2> HIDE DEF h, D
  <2>2. QED
    BY <1>1, <2>1
<1> HIDE DEF D
<1>3. C = [j \in 0..3 |-> IF j = 0 THEN Lead(s[i], n) ELSE C[j - 1] * 64 + (s[i + j] % 64)]
  BY <1>2
<1>4. CodePoint(s, i, n) = C[n - 1]
  BY DEF CodePoint
<1> HIDE DEF C
<1>5. C[0] = a /\ C[1] = C[0] * 64 + (s[i + 1] % 64) /\ C[2] = C[1] * 64 + (s[i + 2] % 64)
      /\ C[3] = C[2] * 64 + (s[i + 3] % 64)
  BY <1>3
<1>6. n = 2 \/ n = 3 \/ n = 4
  OBVIOUS
<1> HIDE DEF h, p, q, r
<1>7. CASE n = 2
  BY <1>4, <1>5, <1>7
<1>8. CASE n = 3
  BY <1>4, <1>5, <1>8
<1>9. CASE n = 4
  BY <1>4, <1>5, <1>9
<1>10. QED
  BY <1>6, <1>7, <1>8, <1>9

(* The rows of the table: how many bytes follow.                           *)
LEMMA FollowIs ==
  /\ \A c \in 0..193 \cup 245..255 : Follow(c) = 0
  /\ \A c \in 194..223 : Follow(c) = 1
  /\ \A c \in 224..239 : Follow(c) = 2
  /\ \A c \in 240..244 : Follow(c) = 3
<1>1. ASSUME NEW c \in 0..193 \cup 245..255 PROVE Follow(c) = 0
  BY DEF Follow
<1>2. ASSUME NEW c \in 194..223 PROVE Follow(c) = 1
  BY DEF Follow
<1>3. ASSUME NEW c \in 224..239 PROVE Follow(c) = 2
  BY DEF Follow
<1>4. ASSUME NEW c \in 240..244 PROVE Follow(c) = 3
  BY DEF Follow
<1>5. QED
  BY <1>1, <1>2, <1>3, <1>4

(* Which bytes come second.                                                *)
LEMMA SecondIs ==
  /\ \A c \in 194..223 : Second(c) = 128..191
  /\ \A c \in 224..239 : Second(c) = {d \in 128..191 : (c = 224 => d >= 160) /\ (c = 237 => d <= 159)}
  /\ \A c \in 240..244 : Second(c) = {d \in 128..191 : (c = 240 => d >= 144) /\ (c = 244 => d <= 143)}
<1>1. ASSUME NEW c \in 194..223 PROVE Second(c) = 128..191
  BY DEF Second
<1>2. ASSUME NEW c \in 224..239
      PROVE  Second(c) = {d \in 128..191 : (c = 224 => d >= 160) /\ (c = 237 => d <= 159)}
  <2>1. CASE c = 224
    BY <2>1 DEF Second
  <2>2. CASE c = 237
    BY <2>2 DEF Second
  <2>3. CASE c # 224 /\ c # 237
    BY <2>3 DEF Second
  <2>4. QED
    BY <2>1, <2>2, <2>3
<1>3. ASSUME NEW c \in 240..244
      PROVE  Second(c) = {d \in 128..191 : (c = 240 => d >= 144) /\ (c = 244 => d <= 143)}
  <2>1. CASE c = 240
    BY <2>1 DEF Second
  <2>2. CASE c = 244
    BY <2>2 DEF Second
  <2>3. CASE c # 240 /\ c # 244
    BY <2>3 DEF Second
  <2>4. QED
    BY <2>1, <2>2, <2>3
<1>4. QED
  BY <1>1, <1>2, <1>3

(* The bits that utf8_valid takes of a byte.                               *)
LEMMA BitsIs ==
  /\ \A c \in 192..223 : c % 32 = c - 192
  /\ \A c \in 224..239 : c % 16 = c - 224
  /\ \A c \in 240..247 : c % 8 = c - 240
  /\ \A c \in 128..191 : c % 64 = c - 128
  OBVIOUS

\* What utf8_valid asks of the code point of n bytes.
CodeOK(cp, n) ==
  /\ cp >= (IF n = 2 THEN 128 ELSE IF n = 3 THEN 2048 ELSE 65536)
  /\ cp <= 1114111 /\ cp \notin 55296..57343

(* Which second bytes make the code point of two bytes good.               *)
LEMMA CodeOfTwo ==
  ASSUME NEW c \in 192..223, NEW d \in 128..191
  PROVE  CodeOK((c % 32) * 64 + (d % 64), 2) <=> c >= 194
<1>1. (c % 32) * 64 + (d % 64) = (c - 192) * 64 + (d - 128)
  BY BitsIs
<1>2. QED
  BY <1>1, SMTT(30) DEF CodeOK

(* Of three bytes.                                                         *)
LEMMA CodeOfThree ==
  ASSUME NEW c \in 224..239, NEW d \in 128..191, NEW e \in 128..191
  PROVE  CodeOK(((c % 16) * 64 + (d % 64)) * 64 + (e % 64), 3)
           <=> (c = 224 => d >= 160) /\ (c = 237 => d <= 159)
<1>1. ((c % 16) * 64 + (d % 64)) * 64 + (e % 64) = ((c - 224) * 64 + (d - 128)) * 64 + (e - 128)
  BY BitsIs
<1>2. QED
  BY <1>1, SMTT(30) DEF CodeOK

(* Of four bytes.                                                          *)
LEMMA CodeOfFour ==
  ASSUME NEW c \in 240..247, NEW d \in 128..191, NEW e \in 128..191, NEW f \in 128..191
  PROVE  CodeOK((((c % 8) * 64 + (d % 64)) * 64 + (e % 64)) * 64 + (f % 64), 4)
           <=> (c = 240 => d >= 144) /\ (c = 244 => d <= 143) /\ c <= 244
<1>1. (((c % 8) * 64 + (d % 64)) * 64 + (e % 64)) * 64 + (f % 64)
        = (((c - 240) * 64 + (d - 128)) * 64 + (e - 128)) * 64 + (f - 128)
  BY BitsIs
<1>2. QED
  BY <1>1, SMTT(30) DEF CodeOK

(* The code point by the length that is announced.                         *)
LEMMA CodePoints ==
  ASSUME NEW s, NEW i \in Nat
  PROVE  /\ CodePoint(s, i, 2) = (s[i] % 32) * 64 + (s[i + 1] % 64)
         /\ CodePoint(s, i, 3) = ((s[i] % 16) * 64 + (s[i + 1] % 64)) * 64 + (s[i + 2] % 64)
         /\ CodePoint(s, i, 4)
              = (((s[i] % 8) * 64 + (s[i + 1] % 64)) * 64 + (s[i + 2] % 64)) * 64 + (s[i + 3] % 64)
<1>1. 2 \in 2..4 /\ 3 \in 2..4 /\ 4 \in 2..4
  OBVIOUS
<1>2. Lead(s[i], 2) = s[i] % 32 /\ Lead(s[i], 3) = s[i] % 16 /\ Lead(s[i], 4) = s[i] % 8
  BY DEF Lead
<1>3. CodePoint(s, i, 2) = Lead(s[i], 2) * 64 + (s[i + 1] % 64)
  BY <1>1, CodePointIs
<1>4. CodePoint(s, i, 3) = (Lead(s[i], 3) * 64 + (s[i + 1] % 64)) * 64 + (s[i + 2] % 64)
  BY <1>1, CodePointIs
<1>5. CodePoint(s, i, 4)
        = ((Lead(s[i], 4) * 64 + (s[i + 1] % 64)) * 64 + (s[i + 2] % 64)) * 64 + (s[i + 3] % 64)
  BY <1>1, CodePointIs
<1>6. QED
  BY <1>2, <1>3, <1>4, <1>5

(* A character of two bytes.                                               *)
LEMMA TwoBytes ==
  ASSUME NEW s, NEW i \in Nat, Len(s) \in Nat, s[i] \in 192..223
  PROVE  CharValid(s, i) <=> s[i] >= 194 /\ i + 1 <= Len(s) /\ s[i + 1] \in 128..191
<1> DEFINE c == s[i]
           d == s[i + 1]
<1>1. utf8_char_len(c) = 2
  BY CharLenIs
<1>2. CodePoint(s, i, 2) = (c % 32) * 64 + (d % 64)
  BY CodePoints
<1>3. CharValid(s, i) <=> /\ i + 1 <= Len(s) /\ \A j \in 1..1 : s[i + j] \in 128..191
                          /\ CodeOK(CodePoint(s, i, 2), 2)
  BY <1>1, SMT DEF CharValid, CodeOK
<1>4. (\A j \in 1..1 : s[i + j] \in 128..191) <=> d \in 128..191
  OBVIOUS
<1>5. c \in 192..223
  OBVIOUS
<1> HIDE DEF c, d
<1>6. ASSUME d \in 128..191 PROVE CodeOK((c % 32) * 64 + (d % 64), 2) <=> c >= 194
  BY <1>5, <1>6, CodeOfTwo
<1>7. CharValid(s, i) <=> c >= 194 /\ i + 1 <= Len(s) /\ d \in 128..191
  BY <1>2, <1>3, <1>4, <1>6
<1>8. QED
  BY <1>7 DEF c, d

(* A character of three bytes.                                             *)
LEMMA ThreeBytes ==
  ASSUME NEW s, NEW i \in Nat, Len(s) \in Nat, s[i] \in 224..239
  PROVE  CharValid(s, i) <=> /\ i + 2 <= Len(s)
                             /\ s[i + 1] \in Second(s[i]) /\ s[i + 2] \in 128..191
<1> DEFINE c == s[i]
           d == s[i + 1]
           e == s[i + 2]
<1>1. utf8_char_len(c) = 3
  BY CharLenIs
<1>2. CodePoint(s, i, 3) = ((c % 16) * 64 + (d % 64)) * 64 + (e % 64)
  BY CodePoints
<1>3. CharValid(s, i) <=> /\ i + 2 <= Len(s) /\ \A j \in 1..2 : s[i + j] \in 128..191
                          /\ CodeOK(CodePoint(s, i, 3), 3)
  BY <1>1, SMT DEF CharValid, CodeOK
<1>4. (\A j \in 1..2 : s[i + j] \in 128..191) <=> d \in 128..191 /\ e \in 128..191
  <2>1. 1 \in 1..2 /\ 2 \in 1..2 /\ \A j \in 1..2 : j = 1 \/ j = 2
    OBVIOUS
  <2>2. QED
    BY <2>1
<1>5. c \in 224..239
  OBVIOUS
<1> HIDE DEF c, d, e
<1>6. ASSUME d \in 128..191, e \in 128..191
      PROVE  CodeOK(((c % 16) * 64 + (d % 64)) * 64 + (e % 64), 3)
               <=> (c = 224 => d >= 160) /\ (c = 237 => d <= 159)
  BY <1>5, <1>6, CodeOfThree, Zenon
<1>7. d \in Second(c) <=> d \in 128..191 /\ (c = 224 => d >= 160) /\ (c = 237 => d <= 159)
  <2>1. Second(c) = {x \in 128..191 : (c = 224 => x >= 160) /\ (c = 237 => x <= 159)}
    BY <1>5, SecondIs
  <2>2. QED
    BY <2>1, Zenon
<1>8. CharValid(s, i) <=> i + 2 <= Len(s) /\ d \in Second(c) /\ e \in 128..191
  BY <1>2, <1>3, <1>4, <1>6, <1>7
<1>9. QED
  BY <1>8 DEF c, d, e

(* A character of four bytes.                                              *)
LEMMA FourBytes ==
  ASSUME NEW s, NEW i \in Nat, Len(s) \in Nat, s[i] \in 240..247
  PROVE  CharValid(s, i) <=> /\ i + 3 <= Len(s) /\ s[i] \in 240..244
                             /\ s[i + 1] \in Second(s[i]) /\ s[i + 2] \in 128..191
                             /\ s[i + 3] \in 128..191
<1> DEFINE c == s[i]
           d == s[i + 1]
           e == s[i + 2]
           f == s[i + 3]
<1>1. utf8_char_len(c) = 4
  BY CharLenIs
<1>2. CodePoint(s, i, 4) = (((c % 8) * 64 + (d % 64)) * 64 + (e % 64)) * 64 + (f % 64)
  BY CodePoints
<1>3. CharValid(s, i) <=> /\ i + 3 <= Len(s) /\ \A j \in 1..3 : s[i + j] \in 128..191
                          /\ CodeOK(CodePoint(s, i, 4), 4)
  BY <1>1, SMT DEF CharValid, CodeOK
<1>4. (\A j \in 1..3 : s[i + j] \in 128..191) <=> d \in 128..191 /\ e \in 128..191 /\ f \in 128..191
  <2>1. 1 \in 1..3 /\ 2 \in 1..3 /\ 3 \in 1..3 /\ \A j \in 1..3 : j = 1 \/ j = 2 \/ j = 3
    OBVIOUS
  <2>2. QED
    BY <2>1
<1>5. c \in 240..247 /\ (c \in 240..244 <=> c <= 244)
  OBVIOUS
<1> HIDE DEF c, d, e, f
<1>6. ASSUME d \in 128..191, e \in 128..191, f \in 128..191
      PROVE  CodeOK((((c % 8) * 64 + (d % 64)) * 64 + (e % 64)) * 64 + (f % 64), 4)
               <=> (c = 240 => d >= 144) /\ (c = 244 => d <= 143) /\ c <= 244
  BY <1>5, <1>6, CodeOfFour, ZenonT(60)
<1>7. ASSUME c \in 240..244
      PROVE  d \in Second(c) <=> d \in 128..191 /\ (c = 240 => d >= 144) /\ (c = 244 => d <= 143)
  <2>1. Second(c) = {x \in 128..191 : (c = 240 => x >= 144) /\ (c = 244 => x <= 143)}
    BY <1>7, SecondIs
  <2>2. QED
    BY <2>1, Zenon
<1>8. CharValid(s, i) <=> /\ i + 3 <= Len(s) /\ c \in 240..244
                          /\ d \in Second(c) /\ e \in 128..191 /\ f \in 128..191
  BY <1>2, <1>3, <1>4, <1>5, <1>6, <1>7, SMT
<1>9. QED
  BY <1>8 DEF c, d, e, f

(* What the table asks of a character, by the number of bytes that follow. *)
LEMMA FormedIs ==
  ASSUME NEW s, NEW i \in Nat, Len(s) \in Nat
  PROVE  /\ Follow(s[i]) = 0 => (CharFormed(s, i) <=> s[i] < 128 /\ i <= Len(s))
         /\ Follow(s[i]) = 1 => (CharFormed(s, i) <=> i + 1 <= Len(s) /\ s[i + 1] \in Second(s[i]))
         /\ Follow(s[i]) = 2 =>
              (CharFormed(s, i) <=> /\ i + 2 <= Len(s) /\ s[i + 1] \in Second(s[i])
                                    /\ s[i + 2] \in 128..191)
         /\ Follow(s[i]) = 3 =>
              (CharFormed(s, i) <=> /\ i + 3 <= Len(s) /\ s[i + 1] \in Second(s[i])
                                    /\ s[i + 2] \in 128..191 /\ s[i + 3] \in 128..191)
<1> DEFINE Good(j) == s[i + j] \in IF j = 1 THEN Second(s[i]) ELSE 128..191
<1>1. /\ Good(1) <=> s[i + 1] \in Second(s[i])
      /\ Good(2) <=> s[i + 2] \in 128..191
      /\ Good(3) <=> s[i + 3] \in 128..191
  OBVIOUS
<1>2. CharFormed(s, i) <=> /\ s[i] < 128 \/ Follow(s[i]) > 0
                           /\ i + Follow(s[i]) <= Len(s)
                           /\ \A j \in 1..Follow(s[i]) : Good(j)
  BY DEF CharFormed
<1> HIDE DEF Good
<1>3. \A j \in 1..0 : Good(j)
  OBVIOUS
<1>4. (\A j \in 1..1 : Good(j)) <=> Good(1)
  <2>1. 1 \in 1..1 /\ \A j \in 1..1 : j = 1
    OBVIOUS
  <2>2. QED
    BY <2>1
<1>5. (\A j \in 1..2 : Good(j)) <=> Good(1) /\ Good(2)
  <2>1. 1 \in 1..2 /\ 2 \in 1..2 /\ \A j \in 1..2 : j = 1 \/ j = 2
    OBVIOUS
  <2>2. QED
    BY <2>1
<1>6. (\A j \in 1..3 : Good(j)) <=> Good(1) /\ Good(2) /\ Good(3)
  <2>1. 1 \in 1..3 /\ 2 \in 1..3 /\ 3 \in 1..3 /\ \A j \in 1..3 : j = 1 \/ j = 2 \/ j = 3
    OBVIOUS
  <2>2. QED
    BY <2>1
<1>7. i + 0 = i
  OBVIOUS
<1>8. Follow(s[i]) = 0 => (CharFormed(s, i) <=> s[i] < 128 /\ i <= Len(s))
  BY <1>2, <1>3, <1>7
<1>9. Follow(s[i]) = 1 => (CharFormed(s, i) <=> i + 1 <= Len(s) /\ s[i + 1] \in Second(s[i]))
  BY <1>1, <1>2, <1>4
<1>10. Follow(s[i]) = 2 =>
         (CharFormed(s, i) <=> /\ i + 2 <= Len(s) /\ s[i + 1] \in Second(s[i])
                               /\ s[i + 2] \in 128..191)
  BY <1>1, <1>2, <1>5
<1>11. Follow(s[i]) = 3 =>
         (CharFormed(s, i) <=> /\ i + 3 <= Len(s) /\ s[i + 1] \in Second(s[i])
                               /\ s[i + 2] \in 128..191 /\ s[i + 3] \in 128..191)
  BY <1>1, <1>2, <1>6
<1>12. QED
  BY <1>8, <1>9, <1>10, <1>11

\* Bytes that stand alone, or nowhere: nothing follows them.
Alone == 0..193 \cup 245..255
\* Bytes that announce nothing and are not ASCII.
Stray == 128..191 \cup 248..255

\* The test of utf8_valid at s[i], and how far it goes on.
Passes(s, i) == s[i] < 128 \/ CharValid(s, i)
Advance(s, i) == IF s[i] < 128 THEN 1 ELSE utf8_char_len(s[i])

(* The rows of the table and those of utf8_char_len.                       *)
LEMMA Rows ==
  /\ \A c \in 0..127 : c < 128 /\ c \in Alone
  /\ \A c \in Stray : ~(c < 128) /\ c \in Alone
  /\ \A c \in 194..223 : ~(c < 128) /\ c \in 192..223 /\ c >= 194
  BY DEF Alone, Stray

(* The check of a character and the table agree, and so do the lengths.    *)
LEMMA CharsAgree ==
  ASSUME NEW s, NEW i \in Nat, Len(s) \in Nat, i <= Len(s), s[i] \in 0..255
  PROVE  /\ Passes(s, i) <=> CharFormed(s, i)
         /\ CharFormed(s, i) => Advance(s, i) = Follow(s[i]) + 1
<1>1. CASE s[i] \in 0..127
  <2>1. s[i] < 128 /\ s[i] \in Alone
    BY <1>1, Rows, Zenon
  <2>4. Follow(s[i]) = 0
    BY <2>1, FollowIs DEF Alone
  <2>2. CharFormed(s, i)
    BY <2>1, <2>4, FormedIs
  <2>3. QED
    BY <2>1, <2>2, <2>4 DEF Passes, Advance
<1>2. CASE s[i] \in Stray
  <2>6. s[i] \in Alone
    BY <1>2 DEF Alone, Stray
  <2>7. ~(s[i] < 128)
    BY <1>2, Rows
  <2>1. ~(s[i] < 128) /\ s[i] \in Alone
    BY <2>6, <2>7
  <2>2. Follow(s[i]) = 0 /\ utf8_char_len(s[i]) = 1
    BY <1>2, <2>1, FollowIs, CharLenIs DEF Alone, Stray
  <2>3. ~CharFormed(s, i)
    BY <2>1, <2>2, FormedIs
  <2>4. ~CharValid(s, i)
    BY <2>2, SMT DEF CharValid
  <2>5. QED
    BY <2>1, <2>3, <2>4 DEF Passes
<1>3. CASE s[i] \in 192..193
  <2>1. ~(s[i] < 128) /\ s[i] \in 192..223 /\ ~(s[i] >= 194) /\ s[i] \in Alone
    BY <1>3 DEF Alone
  <2>2. ~CharValid(s, i)
    BY <2>1, TwoBytes
  <2>3. Follow(s[i]) = 0
    BY <2>1, FollowIs DEF Alone
  <2>4. ~CharFormed(s, i)
    BY <2>1, <2>3, FormedIs
  <2>5. QED
    BY <2>1, <2>2, <2>4 DEF Passes
<1>4. CASE s[i] \in 194..223
  <2>1. ~(s[i] < 128) /\ s[i] \in 192..223 /\ s[i] >= 194
    BY <1>4, Rows, Zenon
  <2>2. Follow(s[i]) = 1 /\ utf8_char_len(s[i]) = 2 /\ Second(s[i]) = 128..191
    <3>1. Follow(s[i]) = 1
      BY <1>4, FollowIs
    <3>2. utf8_char_len(s[i]) = 2
      BY <2>1, CharLenIs
    <3>3. Second(s[i]) = 128..191
      BY <1>4, SecondIs
    <3>4. QED
      BY <3>1, <3>2, <3>3
  <2>3. CharValid(s, i) <=> i + 1 <= Len(s) /\ s[i + 1] \in 128..191
    BY <2>1, TwoBytes
  <2>4. CharFormed(s, i) <=> i + 1 <= Len(s) /\ s[i + 1] \in Second(s[i])
    BY <2>2, FormedIs
  <2>5. CharFormed(s, i) <=> CharValid(s, i)
    <3> DEFINE A == 128..191
    <3>1. Second(s[i]) = A
      BY <2>2
    <3>2. CharValid(s, i) <=> i + 1 <= Len(s) /\ s[i + 1] \in A
      BY <2>3
    <3> HIDE DEF A
    <3>3. QED
      BY <2>4, <3>1, <3>2, Zenon
  <2>6. QED
    BY <2>1, <2>2, <2>5 DEF Passes, Advance
<1>5. CASE s[i] \in 224..239
  <2>1. ~(s[i] < 128)
    BY <1>5
  <2>2. Follow(s[i]) = 2 /\ utf8_char_len(s[i]) = 3
    BY <1>5, FollowIs, CharLenIs
  <2>3. CharValid(s, i) <=> CharFormed(s, i)
    BY <1>5, <2>2, FormedIs, ThreeBytes
  <2>4. QED
    BY <2>1, <2>2, <2>3 DEF Passes, Advance
<1>6. CASE s[i] \in 240..247
  <2>1. ~(s[i] < 128)
    BY <1>6
  <2>2. utf8_char_len(s[i]) = 4
    BY <1>6, CharLenIs
  <2>3. CASE s[i] \in 240..244
    <3>1. Follow(s[i]) = 3
      BY <2>3, FollowIs DEF Alone
    <3>2. CharValid(s, i) <=> CharFormed(s, i)
      BY <1>6, <2>3, <3>1, FormedIs, FourBytes
    <3>3. QED
      BY <2>1, <2>2, <3>1, <3>2 DEF Passes, Advance
  <2>4. CASE s[i] \notin 240..244
    <3>1. s[i] \in Alone
      BY <1>6, <2>4 DEF Alone
    <3>2. Follow(s[i]) = 0
      BY <3>1, FollowIs DEF Alone
    <3>3. ~CharFormed(s, i)
      BY <2>1, <3>2, FormedIs
    <3>4. ~CharValid(s, i)
      BY <1>6, <2>4, FourBytes
    <3>5. QED
      BY <2>1, <3>3, <3>4 DEF Passes
  <2>5. QED
    BY <2>3, <2>4
<1>7. QED
  BY <1>1, <1>2, <1>3, <1>4, <1>5, <1>6 DEF Stray

(* utf8_valid is a scan by its tests and its steps.                        *)
LEMMA ValidScan ==
  ASSUME NEW s, Len(s) \in Nat
  PROVE  \E f \in [Nat -> BOOLEAN] :
            /\ utf8_valid(s) = f[1]
            /\ \A i \in Nat : f[i] <=> (i > Len(s) \/ (Passes(s, i) /\ f[i + Advance(s, i)]))
<1> DEFINE n == Len(s)
           t == [i \in Nat |-> Passes(s, i)]
           d == [i \in Nat |-> Advance(s, i)]
           Body(g, i) == IF i > n THEN TRUE
                         ELSE IF s[i] < 128 THEN g[i + 1]
                         ELSE CharValid(s, i) /\ g[i + utf8_char_len(s[i])]
           Ok == CHOOSE g : g = [i \in Nat |-> Body(g, i)]
<1>1. \A i \in Nat : Advance(s, i) \in 1..4
  <2>1. ASSUME NEW i \in Nat PROVE Advance(s, i) \in 1..4
    <3>1. utf8_char_len(s[i]) \in 1..4
      BY StepsForward
    <3>2. QED
      BY <3>1 DEF Advance
  <2>2. QED
    BY <2>1
<1>2. t \in [Nat -> BOOLEAN] /\ \A i \in Nat : t[i] <=> Passes(s, i)
  <2>1. \A i \in Nat : Passes(s, i) \in BOOLEAN
    BY DEF Passes
  <2>2. QED
    BY <2>1
<1>3. d \in [Nat -> Nat] /\ \A i \in Nat : d[i] = Advance(s, i)
  BY <1>1
<1> HIDE DEF t, d
<1>4. PICK f \in [Nat -> BOOLEAN] : \A i \in Nat : f[i] <=> (i > n \/ (t[i] /\ f[i + d[i]]))
  <2>1. n \in Nat
    OBVIOUS
  <2> HIDE DEF n
  <2>2. QED
    BY <1>2, <1>3, <2>1, ScanExists
<1>5. \A i \in Nat : f[i] <=> (i > n \/ (Passes(s, i) /\ f[i + Advance(s, i)]))
  BY <1>2, <1>3, <1>4
<1>6. ASSUME NEW i \in Nat PROVE f[i] = Body(f, i)
  <2>1. f[i] \in BOOLEAN /\ f[i + 1] \in BOOLEAN
    OBVIOUS
  <2>2. CASE i > n
    BY <1>5, <2>1, <2>2
  <2>3. CASE ~(i > n) /\ s[i] < 128
    <3>1. Passes(s, i) /\ Advance(s, i) = 1
      BY <2>3 DEF Passes, Advance
    <3>2. f[i] <=> f[i + 1]
      BY <1>5, <2>3, <3>1
    <3>3. QED
      BY <2>1, <2>3, <3>2
  <2>4. CASE ~(i > n) /\ ~(s[i] < 128)
    <3>1. (Passes(s, i) <=> CharValid(s, i)) /\ Advance(s, i) = utf8_char_len(s[i])
      BY <2>4 DEF Passes, Advance
    <3>2. f[i] <=> CharValid(s, i) /\ f[i + utf8_char_len(s[i])]
      BY <1>5, <2>4, <3>1
    <3>3. QED
      BY <2>1, <2>4, <3>2
  <2>5. QED
    BY <2>2, <2>3, <2>4
<1>7. f = [i \in Nat |-> Body(f, i)]
  <2> HIDE DEF Body
  <2>1. QED
    BY <1>6
<1>8. Ok = [i \in Nat |-> Body(Ok, i)]
  BY <1>7
<1>9. utf8_valid(s) = Ok[1]
  BY DEF utf8_valid
<1> HIDE DEF Ok
<1>10. \A i \in Nat : Ok[i] = Body(Ok, i)
  <2> HIDE DEF Body
  <2>1. QED
    BY <1>8
<1>11. \A i \in Nat : i > n => Ok[i] = f[i]
  BY <1>6, <1>10
<1>12. ASSUME NEW i \in 1..n, \A j \in Nat : j > i => Ok[j] = f[j]
       PROVE  Ok[i] = f[i]
  <2>1. i \in Nat /\ i + 1 \in Nat /\ i + 1 > i
    OBVIOUS
  <2>2. i + utf8_char_len(s[i]) \in Nat /\ i + utf8_char_len(s[i]) > i
    <3>1. utf8_char_len(s[i]) \in 1..4
      BY StepsForward
    <3>2. QED
      BY <2>1, <3>1
  <2>3. Ok[i + 1] = f[i + 1] /\ Ok[i + utf8_char_len(s[i])] = f[i + utf8_char_len(s[i])]
    BY <1>12, <2>1, <2>2
  <2>4. Body(Ok, i) = Body(f, i)
    BY <2>3
  <2> HIDE DEF Body
  <2>5. QED
    BY <1>6, <1>10, <2>1, <2>4
<1>13. Ok[1] = f[1]
  <2>1. n \in Nat
    OBVIOUS
  <2> HIDE DEF n, Body
  <2>2. \A i \in 1..n : (\A j \in Nat : j > i => Agree(Ok, f, j)) => Agree(Ok, f, i)
    BY <1>12 DEF Agree
  <2>3. \A i \in Nat : i > n => Agree(Ok, f, i)
    BY <1>11 DEF Agree
  <2>4. Agree(Ok, f, 1)
    BY <2>1, <2>2, <2>3, ScansAgree
  <2>5. QED
    BY <2>4 DEF Agree
<1>14. QED
  <2> HIDE DEF Body
  <2>1. utf8_valid(s) = f[1]
    BY <1>9, <1>13
  <2>2. QED
    BY <1>5, <2>1

(* So is the scan by the table.                                            *)
LEMMA FormedScan ==
  ASSUME NEW s, Len(s) \in Nat
  PROVE  \E f \in [Nat -> BOOLEAN] :
            /\ WellFormed(s) = f[1]
            /\ \A i \in Nat : f[i] <=> (i > Len(s) \/ (CharFormed(s, i) /\ f[i + Follow(s[i]) + 1]))
<1> DEFINE n == Len(s)
           t == [i \in Nat |-> CharFormed(s, i)]
           d == [i \in Nat |-> Follow(s[i]) + 1]
           Body(g, i) == i > n \/ (CharFormed(s, i) /\ g[i + Follow(s[i]) + 1])
           W == CHOOSE g : g = [i \in Nat |-> Body(g, i)]
<1>1. \A i \in Nat : Follow(s[i]) \in 0..3
  BY StepsForward
<1>2. t \in [Nat -> BOOLEAN] /\ \A i \in Nat : t[i] <=> CharFormed(s, i)
  <2>1. \A i \in Nat : CharFormed(s, i) \in BOOLEAN
    BY DEF CharFormed
  <2>2. QED
    BY <2>1
<1>3. d \in [Nat -> Nat] /\ \A i \in Nat : i + d[i] = i + Follow(s[i]) + 1
  BY <1>1
<1> HIDE DEF t, d
<1>4. PICK f \in [Nat -> BOOLEAN] : \A i \in Nat : f[i] <=> (i > n \/ (t[i] /\ f[i + d[i]]))
  <2>1. n \in Nat
    OBVIOUS
  <2> HIDE DEF n
  <2>2. QED
    BY <1>2, <1>3, <2>1, ScanExists
<1>5. \A i \in Nat : f[i] <=> Body(f, i)
  BY <1>2, <1>3, <1>4
<1>6. ASSUME NEW i \in Nat PROVE f[i] = Body(f, i)
  <2>1. f[i] \in BOOLEAN
    OBVIOUS
  <2>2. Body(f, i) \in BOOLEAN
    OBVIOUS
  <2> HIDE DEF Body
  <2>3. QED
    BY <1>5, <2>1, <2>2
<1>7. f = [i \in Nat |-> Body(f, i)]
  <2> HIDE DEF Body
  <2>1. QED
    BY <1>6
<1>8. W = [i \in Nat |-> Body(W, i)]
  BY <1>7
<1>9. WellFormed(s) = W[1]
  BY DEF WellFormed
<1> HIDE DEF W
<1>10. \A i \in Nat : W[i] = Body(W, i)
  <2> HIDE DEF Body
  <2>1. QED
    BY <1>8
<1>11. \A i \in Nat : i > n => W[i] = f[i]
  BY <1>6, <1>10
<1>12. ASSUME NEW i \in 1..n, \A j \in Nat : j > i => W[j] = f[j]
       PROVE  W[i] = f[i]
  <2>1. i \in Nat
    OBVIOUS
  <2>2. i + Follow(s[i]) + 1 \in Nat /\ i + Follow(s[i]) + 1 > i
    BY <1>1, <2>1
  <2>3. W[i + Follow(s[i]) + 1] = f[i + Follow(s[i]) + 1]
    BY <1>12, <2>2
  <2>4. Body(W, i) = Body(f, i)
    BY <2>3
  <2> HIDE DEF Body
  <2>5. QED
    BY <1>6, <1>10, <2>1, <2>4
<1>13. W[1] = f[1]
  <2>1. n \in Nat
    OBVIOUS
  <2> HIDE DEF n, Body
  <2>2. \A i \in 1..n : (\A j \in Nat : j > i => Agree(W, f, j)) => Agree(W, f, i)
    BY <1>12 DEF Agree
  <2>3. \A i \in Nat : i > n => Agree(W, f, i)
    BY <1>11 DEF Agree
  <2>4. Agree(W, f, 1)
    BY <2>1, <2>2, <2>3, ScansAgree
  <2>5. QED
    BY <2>4 DEF Agree
<1>14. QED
  <2>1. WellFormed(s) = f[1]
    BY <1>9, <1>13
  <2>2. QED
    BY <1>5, <2>1

(* utf8_valid accepts a text if and only if it is well-formed UTF-8.       *)
LEMMA Utf8Agree ==
  ASSUME NEW s \in Seq(Byte)
  PROVE  utf8_valid(s) <=> WellFormed(s)
<1>1. Len(s) \in Nat /\ \A i \in 1..Len(s) : s[i] \in 0..255
  BY LenProperties, ElementOfSeq DEF Byte
<1>2. PICK f \in [Nat -> BOOLEAN] :
            /\ utf8_valid(s) = f[1]
            /\ \A i \in Nat : f[i] <=> (i > Len(s) \/ (Passes(s, i) /\ f[i + Advance(s, i)]))
  BY <1>1, ValidScan
<1>3. PICK g \in [Nat -> BOOLEAN] :
            /\ WellFormed(s) = g[1]
            /\ \A i \in Nat : g[i] <=> (i > Len(s) \/ (CharFormed(s, i) /\ g[i + Follow(s[i]) + 1]))
  BY <1>1, FormedScan
<1>4. \A i \in Nat : f[i] \in BOOLEAN /\ g[i] \in BOOLEAN
  OBVIOUS
<1>5. ASSUME NEW i \in Nat, i > Len(s) PROVE f[i] = g[i]
  BY <1>2, <1>3, <1>4, <1>5
<1>6. ASSUME NEW i \in 1..Len(s), \A j \in Nat : j > i => f[j] = g[j]
      PROVE  f[i] = g[i]
  <2>1. i \in Nat /\ i <= Len(s) /\ ~(i > Len(s)) /\ s[i] \in 0..255
    BY <1>1
  <2>2. (Passes(s, i) <=> CharFormed(s, i)) /\ (CharFormed(s, i) => Advance(s, i) = Follow(s[i]) + 1)
    BY <1>1, <2>1, CharsAgree
  <2>3. Follow(s[i]) \in 0..3
    BY StepsForward
  <2>4. i + Follow(s[i]) + 1 \in Nat /\ i + Follow(s[i]) + 1 > i
        /\ i + (Follow(s[i]) + 1) = i + Follow(s[i]) + 1
    BY <2>1, <2>3
  <2>5. f[i + Follow(s[i]) + 1] = g[i + Follow(s[i]) + 1]
    BY <1>6, <2>4
  <2>6. f[i] <=> Passes(s, i) /\ f[i + Advance(s, i)]
    BY <1>2, <2>1
  <2>7. g[i] <=> CharFormed(s, i) /\ g[i + Follow(s[i]) + 1]
    BY <1>3, <2>1
  <2>8. CharFormed(s, i) => f[i + Advance(s, i)] = g[i + Follow(s[i]) + 1]
    BY <2>2, <2>4, <2>5
  <2>9. f[i] <=> g[i]
    BY <2>2, <2>6, <2>7, <2>8
  <2>10. QED
    BY <1>4, <2>1, <2>9
<1>7. f[1] = g[1]
  <2>1. \A i \in Nat : i > Len(s) => Agree(f, g, i)
    BY <1>5 DEF Agree
  <2>2. \A i \in 1..Len(s) : (\A j \in Nat : j > i => Agree(f, g, j)) => Agree(f, g, i)
    BY <1>6 DEF Agree
  <2>3. Agree(f, g, 1)
    BY <1>1, <2>1, <2>2, ScansAgree
  <2>4. QED
    BY <2>3 DEF Agree
<1>8. QED
  BY <1>2, <1>3, <1>7

-----------------------------------------------------------------------------
(* The lines of the chat.                                                  *)

(* A set of numbers up to n that is not empty has a greatest element.      *)
LEMMA MaxIs ==
  ASSUME NEW n \in Nat, NEW T, T \subseteq 0..n, T # {}
  PROVE  Max(T) \in T
<1> DEFINE U == {n - x : x \in T}
<1>1. U \subseteq Nat /\ U # {}
  <2>1. U \subseteq Nat
    OBVIOUS
  <2>2. PICK x \in T : TRUE
    OBVIOUS
  <2>3. n - x \in U
    OBVIOUS
  <2> HIDE DEF U
  <2>4. QED
    BY <2>1, <2>3
<1>2. PICK u \in U : \A v \in U : u <= v
  <2> HIDE DEF U
  <2>1. QED
    BY <1>1, LeastNat
<1>3. PICK m \in T : u = n - m
  OBVIOUS
<1>4. ASSUME NEW x \in T PROVE m >= x
  <2>1. n - x \in U
    OBVIOUS
  <2>2. u <= n - x
    BY <1>2, <2>1
  <2>3. x \in 0..n /\ m \in 0..n
    OBVIOUS
  <2>4. QED
    BY <1>3, <2>2, <2>3
<1> HIDE DEF U
<1>5. QED
  BY <1>4 DEF Max

(* What strip_trailing leaves of a line are bytes.                         *)
LEMMA StrippedIs ==
  ASSUME NEW line \in Lines
  PROVE  Stripped(line) \in Seq(Byte)
<1> DEFINE T == {0} \cup {i \in DOMAIN line : line[i] \notin {9, 10, 13, 32}}
<1>1. line \in Seq(Byte)
  BY LinesAssumption
<1>2. Len(line) \in Nat /\ DOMAIN line = 1..Len(line) /\ \A i \in 1..Len(line) : line[i] \in Byte
  BY <1>1, LenProperties, ElementOfSeq
<1>3. T \subseteq 0..Len(line) /\ T # {}
  BY <1>2
<1>4. Stripped(line) = SubSeq(line, 1, Max(T))
  BY DEF Stripped
<1> HIDE DEF T
<1>5. Max(T) \in 0..Len(line)
  BY <1>2, <1>3, MaxIs
<1>6. 1 \in Int /\ Max(T) \in Int /\ \A i \in 1..Max(T) : line[i] \in Byte
  BY <1>2, <1>5
<1>7. QED
  BY <1>4, <1>6, SubSeqProperties

(* In the chat, what the prompt is made of is a text, and the program left it *)
(* out exactly when utf8_valid refused it.                                 *)
LineInv ==
  client.program = "chat" =>
    /\ given \in Seq(Byte)
    /\ given # <<>> => (phase = "skipped" <=> ~utf8_valid(given))

(* A step that leaves the line alone and neither comes from nor goes to    *)
(* "skipped" keeps LineInv.                                                *)
LEMMA LineKept ==
  ASSUME LineInv, client' = client, given' = given, phase # "skipped", phase' # "skipped"
  PROVE  LineInv'
  BY DEF LineInv

(* A step that has no line keeps LineInv.                                  *)
LEMMA LineGone ==
  ASSUME given' = <<>>
  PROVE  LineInv'
<1>1. <<>> \in Seq(Byte)
  BY EmptySeq
<1>2. QED
  BY <1>1 DEF LineInv

(* LineInv is inductive.                                                   *)
LEMMA LineStep ==
  ASSUME LineInv, [Next]_vars
  PROVE  LineInv'
<1>1. ASSUME NEW ms \in Conversations, Extract(ms) PROVE LineInv'
  BY <1>1 DEF Extract, LineInv
<1>2. ASSUME NEW line \in Lines, ReadLine(line) PROVE LineInv'
  <2>1. given' = Stripped(line) /\ given' \in Seq(Byte)
    BY <1>2, StrippedIs DEF ReadLine
  <2>2. CASE AcceptsLine(Stripped(line))
    <3>1. utf8_valid(given')
      BY <2>1, <2>2 DEF AcceptsLine
    <3>2. phase' # "skipped"
      BY <1>2, <2>2 DEF ReadLine
    <3>3. QED
      BY <2>1, <3>1, <3>2 DEF LineInv
  <2>3. CASE ~AcceptsLine(Stripped(line))
    <3>1. given' # <<>> => ~utf8_valid(given')
      BY <2>1, <2>3 DEF AcceptsLine
    <3>2. phase' = "skipped"
      BY <1>2, <2>3 DEF ReadLine
    <3>3. QED
      BY <2>1, <3>1, <3>2 DEF LineInv
  <2>4. QED
    BY <2>2, <2>3
<1>3. CASE SkipLine
  BY <1>3, LineGone DEF SkipLine
<1>4. CASE AddTokens
  BY <1>4, LineKept DEF AddTokens
<1>5. CASE AddText
  BY <1>5, LineKept DEF AddText
<1>6. CASE MatchSpecial \/ Contraction \/ Chunk
  BY <1>6, LineKept DEF MatchSpecial, Contraction, Chunk, EncodeChunk, Encoding, bpeUnchanged
<1>7. CASE EndText
  BY <1>7, LineKept DEF EndText
<1>8. CASE EndPrompt
  BY <1>8, LineGone DEF EndPrompt
<1>9. CASE NextTurn
  BY <1>9, LineKept DEF NextTurn
<1>10. ASSUME NEW d \in Draws(n_gen), SampleToken(d) PROVE LineInv'
  BY <1>10, LineKept DEF SampleToken
<1>11. CASE EmitPiece
  <2>1. client' = client /\ given' = given /\ phase = "emit" /\ phase' \in {"sample", "end"}
    BY <1>11 DEF EmitPiece
  <2>2. QED
    BY <2>1, LineKept
<1>12. CASE Finish
  BY <1>12, LineKept DEF Finish
<1>13. CASE UNCHANGED vars
  BY <1>13 DEF vars, LineInv
<1>14. QED
  BY <1>1, <1>2, <1>3, <1>4, <1>5, <1>6, <1>7, <1>8, <1>9, <1>10, <1>11, <1>12, <1>13 DEF Next

(* The chat goes on with a line if and only if it is well-formed UTF-8:    *)
(* the loop of chat.c's main, with its utf8_valid, for all lines.          *)
THEOREM LinesChecked == Spec => []OnlyValidLines
<1>1. Init => LineInv
  <2>1. <<>> \in Seq(Byte)
    BY EmptySeq
  <2>2. QED
    BY <2>1 DEF Init, LineInv
<1>2. LineInv /\ [Next]_vars => LineInv'
  BY LineStep
<1>3. LineInv => OnlyValidLines
  <2>1. SUFFICES ASSUME LineInv, client.program = "chat", given # <<>>
                 PROVE  phase = "skipped" <=> ~WellFormed(given)
    BY DEF OnlyValidLines
  <2>2. given \in Seq(Byte) /\ (phase = "skipped" <=> ~utf8_valid(given))
    BY <2>1 DEF LineInv
  <2>3. utf8_valid(given) <=> WellFormed(given)
    BY <2>2, Utf8Agree
  <2>4. QED
    BY <2>2, <2>3
<1>4. QED
  BY <1>1, <1>2, <1>3, PTL DEF Spec

-----------------------------------------------------------------------------
(* Texts that are put together, and texts that are read off.               *)

(* The function that FlattenSeq is defined by exists.                      *)
LEMMA JoinExists ==
  ASSUME NEW n \in Nat, NEW s
  PROVE  \E f : f = [i \in 1..n |-> IF i = 1 THEN s[i] ELSE f[i - 1] \o s[i]]
<1> DEFINE Good(f, i) == f[i] = IF i = 1 THEN s[i] ELSE f[i - 1] \o s[i]
           T == {m \in 0..n : \E f : \A i \in 1..m : Good(f, i)}
<1>1. 0 \in T
  OBVIOUS
<1>2. ASSUME NEW m \in 0..(n - 1), m \in T PROVE m + 1 \in T
  <2>1. PICK f : \A i \in 1..m : Good(f, i)
    BY <1>2
  <2> DEFINE v == IF m + 1 = 1 THEN s[m + 1] ELSE f[m] \o s[m + 1]
             h == [j \in 1..(m + 1) |-> IF j = m + 1 THEN v ELSE f[j]]
  <2>2. m + 1 \in 1..(m + 1) /\ m + 1 \in 0..n /\ (m + 1) - 1 = m
    OBVIOUS
  <2>3. \A j \in 1..m : h[j] = f[j]
    OBVIOUS
  <2>4. h[m + 1] = v
    BY <2>2
  <2> HIDE DEF h
  <2>5. ASSUME NEW i \in 1..(m + 1) PROVE Good(h, i)
    <3>1. CASE i = m + 1 /\ m = 0
      BY <2>4, <3>1
    <3>2. CASE i = m + 1 /\ m # 0
      <4>1. m \in 1..m /\ h[m] = f[m] /\ i - 1 = m /\ i # 1
        BY <2>3, <3>2
      <4>2. QED
        BY <2>4, <3>2, <4>1
    <3>3. CASE i # m + 1
      <4>1. i \in 1..m
        BY <3>3
      <4>2. i # 1 => i - 1 \in 1..m
        BY <4>1
      <4>3. Good(f, i)
        BY <2>1, <4>1
      <4>4. QED
        BY <2>3, <4>1, <4>2, <4>3
    <3>4. QED
      BY <3>1, <3>2, <3>3
  <2> HIDE DEF Good
  <2>6. QED
    BY <2>2, <2>5
<1>3. n \in T
  <2>1. \A m \in 0..(n - 1) : m \in T => m + 1 \in T
    BY <1>2
  <2> HIDE DEF T
  <2>2. \A m \in 0..n : m \in T
    BY <1>1, <2>1, UpTo
  <2>3. QED
    BY <2>2
<1>4. PICK f : \A i \in 1..n : Good(f, i)
  BY <1>3
<1> DEFINE h == [i \in 1..n |-> f[i]]
<1>5. \A i \in 1..n : h[i] = f[i]
  OBVIOUS
<1>6. h = [i \in 1..n |-> h[i]]
  OBVIOUS
<1> HIDE DEF h
<1>7. ASSUME NEW i \in 1..n PROVE h[i] = IF i = 1 THEN s[i] ELSE h[i - 1] \o s[i]
  <2>1. i # 1 => i - 1 \in 1..n
    OBVIOUS
  <2>2. QED
    BY <1>4, <1>5, <2>1
<1>8. h = [i \in 1..n |-> IF i = 1 THEN s[i] ELSE h[i - 1] \o s[i]]
  BY <1>6, <1>7
<1>9. QED
  BY <1>8

(* FlattenSeq joins from the left.                                         *)
LEMMA FlattenIs ==
  ASSUME NEW s, Len(s) \in Nat \ {0}
  PROVE  \E f : /\ FlattenSeq(s) = f[Len(s)]
                /\ \A i \in 1..Len(s) : f[i] = IF i = 1 THEN s[i] ELSE f[i - 1] \o s[i]
<1> DEFINE n == Len(s)
           F == CHOOSE f : f = [i \in 1..n |-> IF i = 1 THEN s[i] ELSE f[i - 1] \o s[i]]
<1>1. \E f : f = [i \in 1..n |-> IF i = 1 THEN s[i] ELSE f[i - 1] \o s[i]]
  <2>1. n \in Nat
    OBVIOUS
  <2> HIDE DEF n
  <2>2. QED
    BY <2>1, JoinExists
<1>2. F = [i \in 1..n |-> IF i = 1 THEN s[i] ELSE F[i - 1] \o s[i]]
  BY <1>1
<1>3. FlattenSeq(s) = F[n]
  BY DEF FlattenSeq
<1> HIDE DEF F
<1>4. \A i \in 1..n : F[i] = IF i = 1 THEN s[i] ELSE F[i - 1] \o s[i]
  BY <1>2
<1>5. QED
  BY <1>3, <1>4

(* What FlattenSeq returns is a sequence.                                  *)
LEMMA FlattenType ==
  ASSUME NEW S, NEW s \in Seq(Seq(S))
  PROVE  FlattenSeq(s) \in Seq(S) /\ FlattenSeq(<<>>) = <<>>
<1>1. FlattenSeq(<<>>) = <<>> /\ <<>> \in Seq(S)
  BY EmptySeq DEF FlattenSeq
<1>2. CASE s = <<>>
  BY <1>1, <1>2
<1>3. CASE s # <<>>
  <2>1. Len(s) \in Nat \ {0} /\ \A i \in 1..Len(s) : s[i] \in Seq(S)
    BY <1>3, EmptySeq, ElementOfSeq
  <2>2. PICK f : /\ FlattenSeq(s) = f[Len(s)]
                 /\ \A i \in 1..Len(s) : f[i] = IF i = 1 THEN s[i] ELSE f[i - 1] \o s[i]
    BY <2>1, FlattenIs
  <2> DEFINE n == Len(s)
             T == {m \in 0..n : m > 0 => f[m] \in Seq(S)}
  <2>3. 0 \in T
    BY <2>1
  <2>4. ASSUME NEW m \in 0..(n - 1), m \in T PROVE m + 1 \in T
    <3>1. m + 1 \in 1..n /\ m + 1 \in 0..n /\ s[m + 1] \in Seq(S) /\ (m + 1) - 1 = m
      BY <2>1
    <3>2. f[m + 1] = IF m + 1 = 1 THEN s[m + 1] ELSE f[m] \o s[m + 1]
      BY <2>2, <3>1
    <3>3. CASE m = 0
      BY <3>1, <3>2, <3>3
    <3>4. CASE m # 0
      <4>1. f[m] \in Seq(S)
        BY <2>4, <3>4
      <4>2. f[m] \o s[m + 1] \in Seq(S)
        BY <3>1, <4>1, ConcatProperties
      <4>3. QED
        BY <3>1, <3>2, <3>4, <4>2
    <3>5. QED
      BY <3>3, <3>4
  <2>5. n \in T
    <3>1. n \in Nat /\ \A m \in 0..(n - 1) : m \in T => m + 1 \in T
      BY <2>1, <2>4
    <3> HIDE DEF T, n
    <3>2. \A m \in 0..n : m \in T
      BY <2>3, <3>1, UpTo
    <3>3. QED
      BY <3>1, <3>2
  <2>6. QED
    BY <1>1, <2>1, <2>2, <2>5
<1>4. QED
  BY <1>2, <1>3

(* Another piece comes behind what there is.                               *)
LEMMA FlattenAppend ==
  ASSUME NEW S, NEW s \in Seq(Seq(S)), NEW x \in Seq(S)
  PROVE  FlattenSeq(Append(s, x)) = FlattenSeq(s) \o x
<1> DEFINE a == Append(s, x)
           n == Len(s)
<1>1. /\ a \in Seq(Seq(S)) /\ Len(a) = n + 1 /\ n \in Nat
      /\ \A i \in 1..n : a[i] = s[i]
      /\ a[n + 1] = x
  BY AppendProperties, LenProperties
<1> HIDE DEF a
<1>2. PICK g : /\ FlattenSeq(a) = g[Len(a)]
               /\ \A i \in 1..Len(a) : g[i] = IF i = 1 THEN a[i] ELSE g[i - 1] \o a[i]
  <2>1. Len(a) \in Nat \ {0}
    BY <1>1
  <2>2. QED
    BY <2>1, FlattenIs
<1>3. CASE s = <<>>
  <2>1. n = 0 /\ FlattenSeq(s) = <<>>
    BY <1>3, EmptySeq DEF FlattenSeq
  <2>2. g[1] = x /\ Len(a) = 1
    BY <1>1, <1>2, <2>1
  <2>3. <<>> \o x = x
    BY ConcatEmptySeq
  <2>4. QED
    BY <1>2, <2>1, <2>2, <2>3 DEF a
<1>4. CASE s # <<>>
  <2>1. n \in Nat \ {0}
    BY <1>4, EmptySeq
  <2>2. PICK f : /\ FlattenSeq(s) = f[n]
                 /\ \A i \in 1..n : f[i] = IF i = 1 THEN s[i] ELSE f[i - 1] \o s[i]
    BY <2>1, FlattenIs
  <2> DEFINE T == {m \in 0..n : m > 0 => f[m] = g[m]}
  <2>3. 0 \in T
    BY <2>1
  <2>4. ASSUME NEW m \in 0..(n - 1), m \in T PROVE m + 1 \in T
    <3>1. m + 1 \in 1..n /\ m + 1 \in 0..n /\ m + 1 \in 1..Len(a) /\ (m + 1) - 1 = m
      BY <1>1, <2>1
    <3>2. f[m + 1] = IF m + 1 = 1 THEN s[m + 1] ELSE f[m] \o s[m + 1]
      BY <2>2, <3>1
    <3>3. g[m + 1] = IF m + 1 = 1 THEN s[m + 1] ELSE g[m] \o s[m + 1]
      BY <1>1, <1>2, <3>1
    <3>4. m + 1 # 1 => f[m] = g[m]
      BY <2>4
    <3>5. QED
      BY <3>1, <3>2, <3>3, <3>4
  <2>5. n \in T
    <3>1. n \in Nat /\ \A m \in 0..(n - 1) : m \in T => m + 1 \in T
      BY <2>1, <2>4
    <3> HIDE DEF T, n
    <3>2. \A m \in 0..n : m \in T
      BY <2>3, <3>1, UpTo
    <3>3. QED
      BY <3>1, <3>2
  <2>6. f[n] = g[n]
    BY <2>1, <2>5
  <2>7. g[n + 1] = g[n] \o x
    <3>1. n + 1 \in 1..Len(a) /\ n + 1 # 1 /\ (n + 1) - 1 = n
      BY <1>1, <2>1
    <3>2. QED
      BY <1>1, <1>2, <3>1
  <2>8. FlattenSeq(a) = FlattenSeq(s) \o x
    BY <1>1, <1>2, <2>2, <2>6, <2>7
  <2>9. QED
    BY <2>8 DEF a
<1>5. QED
  BY <1>3, <1>4

\* The bytes that may stand in an event.
Plain == 32..255

(* What a byte is escaped to.                                              *)
LEMMA EscapeByteIs ==
  ASSUME NEW c \in Byte
  PROVE  /\ EscapeByte(c) \in Seq(Plain)
         /\ Len(EscapeByte(c)) \in 1..6
<1>1. CASE c \in {34, 92}
  <2>1. EscapeByte(c) = <<92, c>>
    BY <1>1 DEF EscapeByte
  <2>2. c \in Plain /\ 92 \in Plain
    BY <1>1 DEF Plain
  <2>3. QED
    BY <2>1, <2>2
<1>2. CASE c \in {8, 9, 10, 12, 13}
  <2>1. \E d \in {98, 102, 110, 114, 116} : EscapeByte(c) = <<92, d>>
    BY <1>2 DEF EscapeByte
  <2>2. {98, 102, 110, 114, 116} \subseteq Plain /\ 92 \in Plain
    BY DEF Plain
  <2>3. QED
    BY <2>1, <2>2
<1>3. CASE c \notin {8, 9, 10, 12, 13, 34, 92} /\ c < 32
  <2>1. EscapeByte(c) = <<92, 117, 48, 48, LowerHex(c \div 16), LowerHex(c % 16)>>
    BY <1>3 DEF EscapeByte
  <2>2. c \div 16 \in 0..1 /\ c % 16 \in 0..15
    BY <1>3 DEF Byte
  <2>3. LowerHex(c \div 16) \in Plain /\ LowerHex(c % 16) \in Plain
    BY <2>2 DEF LowerHex, Plain
  <2>4. 92 \in Plain /\ 117 \in Plain /\ 48 \in Plain
    BY DEF Plain
  <2>5. QED
    BY <2>1, <2>3, <2>4
<1>4. CASE c \notin {8, 9, 10, 12, 13, 34, 92} /\ c >= 32
  <2>1. EscapeByte(c) = <<c>>
    BY <1>4 DEF EscapeByte, Byte
  <2>2. c \in Plain
    BY <1>4 DEF Plain, Byte
  <2>3. QED
    BY <2>1, <2>2
<1>5. QED
  BY <1>1, <1>2, <1>3, <1>4 DEF Byte

(* An escaped text, byte by byte.                                          *)
LEMMA EscapeType ==
  ASSUME NEW t \in Seq(Byte)
  PROVE  json_escape_str(t) \in Seq(Plain) /\ json_escape_str(<<>>) = <<>>
<1> DEFINE s == [i \in DOMAIN t |-> EscapeByte(t[i])]
<1>1. Len(t) \in Nat /\ DOMAIN t = 1..Len(t) /\ \A i \in 1..Len(t) : t[i] \in Byte
  BY LenProperties, ElementOfSeq
<1>2. s \in Seq(Seq(Plain))
  <2>1. \A i \in 1..Len(t) : EscapeByte(t[i]) \in Seq(Plain)
    BY <1>1, EscapeByteIs
  <2>2. QED
    BY <1>1, <2>1
<1>3. json_escape_str(t) = FlattenSeq(s)
  BY DEF json_escape_str
<1> HIDE DEF s
<1>4. json_escape_str(<<>>) = FlattenSeq(<<>>)
  <2>1. [i \in DOMAIN <<>> |-> EscapeByte(<<>>[i])] = <<>>
    OBVIOUS
  <2>2. QED
    BY <2>1 DEF json_escape_str
<1>5. QED
  BY <1>2, <1>3, <1>4, FlattenType

(* One more byte.                                                          *)
LEMMA EscapeAppend ==
  ASSUME NEW t \in Seq(Byte), NEW c \in Byte
  PROVE  json_escape_str(Append(t, c)) = json_escape_str(t) \o EscapeByte(c)
<1> DEFINE s == [i \in DOMAIN t |-> EscapeByte(t[i])]
           a == Append(t, c)
           r == [i \in DOMAIN a |-> EscapeByte(a[i])]
           n == Len(t)
<1>1. n \in Nat /\ DOMAIN t = 1..n /\ \A i \in 1..n : t[i] \in Byte
  BY LenProperties, ElementOfSeq
<1>2. /\ a \in Seq(Byte) /\ Len(a) = n + 1 /\ DOMAIN a = 1..(n + 1)
      /\ \A i \in 1..n : a[i] = t[i]
      /\ a[n + 1] = c
  BY AppendProperties, LenProperties
<1>3. s \in Seq(Seq(Plain)) /\ Len(s) = n /\ \A i \in 1..n : s[i] = EscapeByte(t[i])
  <2>1. \A i \in 1..n : EscapeByte(t[i]) \in Seq(Plain)
    BY <1>1, EscapeByteIs
  <2>2. QED
    BY <1>1, <2>1
<1>4. r \in Seq(Seq(Plain)) /\ Len(r) = n + 1 /\ \A i \in 1..(n + 1) : r[i] = EscapeByte(a[i])
  <2> HIDE DEF a
  <2>1. n + 1 \in Nat /\ \A i \in 1..(n + 1) : a[i] \in Byte
    BY <1>1, <1>2, ElementOfSeq
  <2>2. \A i \in 1..(n + 1) : EscapeByte(a[i]) \in Seq(Plain)
    BY <2>1, EscapeByteIs
  <2> DEFINE k == n + 1
  <2>3. k \in Nat /\ DOMAIN a = 1..k /\ \A i \in 1..k : EscapeByte(a[i]) \in Seq(Plain)
    BY <1>2, <2>1, <2>2
  <2> HIDE DEF k
  <2>4. r \in Seq(Seq(Plain)) /\ Len(r) = k /\ \A i \in 1..k : r[i] = EscapeByte(a[i])
    BY <2>3
  <2>5. QED
    BY <2>4 DEF k
<1>5. EscapeByte(c) \in Seq(Plain)
  BY EscapeByteIs
<1>6. json_escape_str(t) = FlattenSeq(s) /\ json_escape_str(a) = FlattenSeq(r)
  BY DEF json_escape_str
<1> HIDE DEF s, r, a, n
<1>7. /\ Append(s, EscapeByte(c)) \in Seq(Seq(Plain)) /\ Len(Append(s, EscapeByte(c))) = n + 1
      /\ \A i \in 1..n : Append(s, EscapeByte(c))[i] = s[i]
      /\ Append(s, EscapeByte(c))[n + 1] = EscapeByte(c)
  BY <1>1, <1>3, <1>5, AppendProperties
<1>8. \A i \in 1..(n + 1) : r[i] = Append(s, EscapeByte(c))[i]
  <2>1. ASSUME NEW i \in 1..(n + 1) PROVE r[i] = Append(s, EscapeByte(c))[i]
    <3>1. i = n + 1 \/ i \in 1..n
      BY <1>1
    <3>2. QED
      BY <1>2, <1>3, <1>4, <1>7, <3>1
  <2>2. QED
    BY <2>1
<1>9. r = Append(s, EscapeByte(c))
  BY <1>4, <1>7, <1>8, SeqEqual
<1>10. FlattenSeq(r) = FlattenSeq(s) \o EscapeByte(c)
  BY <1>3, <1>5, <1>9, FlattenAppend
<1>11. QED
  BY <1>6, <1>10 DEF a

(* Texts are put together in any order.                                    *)
LEMMA Joins ==
  /\ \A a, b, c \in Seq(Byte) : (a \o b) \o c = a \o (b \o c)
  /\ \A a, b, c \in Seq(Plain) : (a \o b) \o c = a \o (b \o c)
<1>1. ASSUME NEW S, NEW a \in Seq(S), NEW b \in Seq(S), NEW c \in Seq(S)
      PROVE  (a \o b) \o c = a \o (b \o c)
  BY ConcatAssociative
<1>2. QED
  BY <1>1

(* Texts are escaped piece by piece.                                       *)
LEMMA EscapeConcat ==
  ASSUME NEW a \in Seq(Byte), NEW b \in Seq(Byte)
  PROVE  json_escape_str(a \o b) = json_escape_str(a) \o json_escape_str(b)
<1> DEFINE E(x) == json_escape_str(x)
           n == Len(b)
           T == {m \in 0..n : \A x \in Seq(Byte) : Len(x) = m => E(a \o x) = E(a) \o E(x)}
<1>1. 0 \in T
  <2>1. ASSUME NEW x \in Seq(Byte), Len(x) = 0 PROVE E(a \o x) = E(a) \o E(x)
    <3>1. x = <<>>
      BY <2>1, EmptySeq
    <3>2. a \o x = a /\ E(x) = <<>> /\ E(a) \in Seq(Plain)
      BY <3>1, ConcatEmptySeq, EscapeType
    <3>3. QED
      BY <3>2, ConcatEmptySeq
  <2>2. n \in Nat
    BY LenProperties
  <2>3. QED
    BY <2>1, <2>2
<1>2. ASSUME NEW m \in 0..(n - 1), m \in T PROVE m + 1 \in T
  <2>1. ASSUME NEW x \in Seq(Byte), Len(x) = m + 1 PROVE E(a \o x) = E(a) \o E(x)
    <3>1. x # <<>>
      BY <2>1, EmptySeq
    <3>2. PICK y \in Seq(Byte), c \in Byte : x = Append(y, c)
      BY <3>1, SequenceEmptyOrAppend
    <3>3. Len(y) = m
      BY <2>1, <3>2, AppendProperties, LenProperties
    <3>4. E(a \o y) = E(a) \o E(y)
      BY <1>2, <3>3
    <3>5. a \o x = Append(a \o y, c)
      <4>1. Append(y, c) = y \o <<c>> /\ <<c>> \in Seq(Byte) /\ a \o y \in Seq(Byte)
        BY AppendIsConcat, ConcatProperties
      <4>2. Append(a \o y, c) = (a \o y) \o <<c>>
        BY <4>1, AppendIsConcat
      <4>3. (a \o y) \o <<c>> = a \o (y \o <<c>>)
        BY <4>1, Joins, ZenonT(60)
      <4>4. QED
        BY <3>2, <4>1, <4>2, <4>3
    <3>6. a \o y \in Seq(Byte)
      BY ConcatProperties
    <3>7. E(a \o x) = E(a \o y) \o EscapeByte(c) /\ E(x) = E(y) \o EscapeByte(c)
      BY <3>2, <3>5, <3>6, EscapeAppend
    <3>8. E(a) \in Seq(Plain) /\ E(y) \in Seq(Plain) /\ EscapeByte(c) \in Seq(Plain)
      BY EscapeType, EscapeByteIs
    <3> HIDE DEF E
    <3>9. (E(a) \o E(y)) \o EscapeByte(c) = E(a) \o (E(y) \o EscapeByte(c))
      BY <3>8, Joins, Zenon
    <3>10. QED
      BY <3>4, <3>7, <3>9
  <2>2. m + 1 \in 0..n
    BY LenProperties
  <2>3. QED
    BY <2>1, <2>2
<1>3. n \in T
  <2>1. n \in Nat /\ \A m \in 0..(n - 1) : m \in T => m + 1 \in T
    BY <1>2, LenProperties
  <2> HIDE DEF T, n
  <2>2. \A m \in 0..n : m \in T
    BY <1>1, <2>1, UpTo
  <2>3. QED
    BY <2>1, <2>2
<1>4. QED
  BY <1>3

\* A loop that reads the text h[i] at i and goes on at i + d[i], and what it reads
\* if it is a byte each time.
Reads(f, n, h, d) == f = [i \in Nat |-> IF i > n THEN <<>> ELSE h[i] \o f[i + d[i]]]
Singles(h) == [i \in Nat |-> <<h[i]>>]

(* Such a loop is defined if it goes forward.                              *)
LEMMA ReadExists ==
  ASSUME NEW n \in Nat, NEW h, NEW d \in [Nat -> Nat], \A i \in Nat : d[i] >= 1
  PROVE  \E f : Reads(f, n, h, d)
<1> DEFINE Good(f, i) == f[i] = IF i > n THEN <<>> ELSE h[i] \o f[i + d[i]]
           T == {m \in 0..(n + 1) : \E f : \A i \in Nat : i > n - m => Good(f, i)}
<1>1. 0 \in T
  <2> DEFINE f == [i \in Nat |-> <<>>]
  <2>1. \A i \in Nat : f[i] = <<>>
    OBVIOUS
  <2> HIDE DEF f
  <2>2. \A i \in Nat : i > n - 0 => Good(f, i)
    BY <2>1
  <2>3. 0 \in 0..(n + 1)
    OBVIOUS
  <2> HIDE DEF Good
  <2>4. QED
    BY <2>2, <2>3
<1>2. ASSUME NEW m \in 0..((n + 1) - 1), m \in T PROVE m + 1 \in T
  <2>1. PICK f : \A i \in Nat : i > n - m => Good(f, i)
    BY <1>2
  <2> DEFINE k == n - m
             v == h[k] \o f[k + d[k]]
             g == [j \in Nat |-> IF j = k THEN v ELSE f[j]]
  <2>2. k \in Nat /\ k <= n /\ m + 1 \in 0..(n + 1)
    OBVIOUS
  <2>3. \A j \in Nat : j # k => g[j] = f[j]
    OBVIOUS
  <2>4. g[k] = v
    BY <2>2
  <2> HIDE DEF g
  <2>5. ASSUME NEW i \in Nat, i > n - (m + 1) PROVE Good(g, i)
    <3>1. i + d[i] \in Nat /\ i + d[i] # k
      <4>1. d[i] \in Nat /\ d[i] >= 1 /\ i >= k
        BY <2>2, <2>5
      <4>2. QED
        BY <2>2, <4>1
    <3>2. g[i + d[i]] = f[i + d[i]]
      BY <2>3, <3>1
    <3>3. CASE i = k
      <4>1. ~(i > n)
        BY <2>2, <3>3
      <4> HIDE DEF k
      <4>2. QED
        BY <2>4, <3>2, <3>3, <4>1
    <3>4. CASE i # k
      <4>1. i > n - m
        BY <2>2, <2>5, <3>4
      <4>2. Good(f, i)
        BY <2>1, <4>1
      <4>3. g[i] = f[i]
        BY <2>3, <3>4
      <4>4. QED
        BY <3>2, <4>2, <4>3
    <3>5. QED
      BY <3>3, <3>4
  <2> HIDE DEF Good
  <2>6. QED
    BY <2>2, <2>5
<1>3. n + 1 \in T
  <2>1. \A m \in 0..((n + 1) - 1) : m \in T => m + 1 \in T
    BY <1>2
  <2> HIDE DEF T
  <2>2. n + 1 \in Nat
    OBVIOUS
  <2>3. \A m \in 0..(n + 1) : m \in T
    BY <1>1, <2>1, <2>2, UpTo
  <2>4. QED
    BY <2>3
<1>4. PICK f : \A i \in Nat : i > n - (n + 1) => Good(f, i)
  BY <1>3
<1>5. \A i \in Nat : Good(f, i)
  BY <1>4
<1> DEFINE g == [i \in Nat |-> f[i]]
<1>6. \A i \in Nat : g[i] = f[i]
  OBVIOUS
<1>7. g = [i \in Nat |-> g[i]]
  OBVIOUS
<1> HIDE DEF g
<1>8. ASSUME NEW i \in Nat PROVE g[i] = IF i > n THEN <<>> ELSE h[i] \o g[i + d[i]]
  <2>1. i + d[i] \in Nat
    OBVIOUS
  <2>2. QED
    BY <1>5, <1>6, <2>1
<1>9. Reads(g, n, h, d)
  BY <1>7, <1>8 DEF Reads
<1>10. QED
  BY <1>9

(* A JSON reader's loop.                                                   *)
LEMMA JsonScan ==
  ASSUME NEW e, Len(e) \in Nat
  PROVE  \E U : /\ JsonText(e) = U[1]
                /\ \A i \in Nat : U[i] = IF i > Len(e) THEN <<>>
                                         ELSE JsonChar(e, i) \o U[i + JsonWidth(e, i)]
<1> DEFINE n == Len(e)
           h == [i \in Nat |-> JsonChar(e, i)]
           d == [i \in Nat |-> JsonWidth(e, i)]
           J == CHOOSE U : U = [i \in Nat |-> IF i > n THEN <<>>
                                  ELSE JsonChar(e, i) \o U[i + JsonWidth(e, i)]]
<1>1. \A i \in Nat : h[i] = JsonChar(e, i) /\ d[i] = JsonWidth(e, i)
  OBVIOUS
<1>2. d \in [Nat -> Nat] /\ \A i \in Nat : d[i] >= 1
  <2>1. \A i \in Nat : JsonWidth(e, i) \in {1, 2, 6}
    BY DEF JsonWidth
  <2>2. QED
    BY <2>1
<1> HIDE DEF h, d
<1>3. PICK f : Reads(f, n, h, d)
  <2>1. n \in Nat
    OBVIOUS
  <2> HIDE DEF n
  <2>2. QED
    BY <1>2, <2>1, ReadExists
<1>4. f = [i \in Nat |-> IF i > n THEN <<>> ELSE JsonChar(e, i) \o f[i + JsonWidth(e, i)]]
  BY <1>1, <1>3 DEF Reads
<1>5. J = [i \in Nat |-> IF i > n THEN <<>> ELSE JsonChar(e, i) \o J[i + JsonWidth(e, i)]]
  BY <1>4
<1>6. JsonText(e) = J[1]
  BY DEF JsonText
<1> HIDE DEF J
<1>7. \A i \in Nat : J[i] = IF i > n THEN <<>> ELSE JsonChar(e, i) \o J[i + JsonWidth(e, i)]
  BY <1>5
<1>8. QED
  BY <1>6, <1>7

(* A reader finds the byte that was escaped, and its end.                  *)
LEMMA EscapeOne ==
  ASSUME NEW c \in Byte, NEW e, NEW p \in Nat,
         \A j \in 1..Len(EscapeByte(c)) : e[p + j] = EscapeByte(c)[j]
  PROVE  JsonChar(e, p + 1) = <<c>> /\ JsonWidth(e, p + 1) = Len(EscapeByte(c))
<1>1. (p + 1) + 1 = p + 2 /\ (p + 1) + 3 = p + 4 /\ (p + 1) + 4 = p + 5 /\ (p + 1) + 5 = p + 6
  OBVIOUS
<1>2. CASE c \in {34, 92}
  <2>1. EscapeByte(c) = <<92, c>>
    BY <1>2 DEF EscapeByte
  <2>2. e[p + 1] = 92 /\ e[p + 2] = c /\ Len(EscapeByte(c)) = 2
    BY <2>1
  <2>3. QED
    BY <1>1, <1>2, <2>2 DEF JsonChar, JsonWidth
<1>3. CASE c \in {8, 9, 10, 12, 13}
  <2> DEFINE d == CASE c = 10 -> 110 [] c = 13 -> 114 [] c = 9 -> 116 [] c = 8 -> 98 [] c = 12 -> 102
  <2>1. EscapeByte(c) = <<92, d>>
    BY <1>3 DEF EscapeByte
  <2> HIDE DEF d
  <2>2. e[p + 1] = 92 /\ e[p + 2] = d /\ Len(EscapeByte(c)) = 2
    BY <2>1
  <2>3. QED
    BY <1>1, <1>3, <2>2 DEF JsonChar, JsonWidth, d
<1>4. CASE c \notin {8, 9, 10, 12, 13, 34, 92} /\ c < 32
  <2> DEFINE u == LowerHex(c \div 16)
             v == LowerHex(c % 16)
  <2>1. EscapeByte(c) = <<92, 117, 48, 48, u, v>>
    BY <1>4 DEF EscapeByte
  <2>2. c \div 16 \in 0..15 /\ c % 16 \in 0..15 /\ (c \div 16) * 16 + (c % 16) = c
    BY DEF Byte
  <2>3. \A x \in 0..15 : HexValue(LowerHex(x)) = x
    BY DEF HexValue, LowerHex
  <2>4. HexValue(48) * 256 + HexValue(u) * 16 + HexValue(v) = c
    <3>1. HexValue(48) = 0
      BY DEF HexValue
    <3>2. QED
      BY <2>2, <2>3, <3>1
  <2> HIDE DEF u, v
  <2>5. /\ e[p + 1] = 92 /\ e[p + 2] = 117 /\ e[p + 4] = 48 /\ e[p + 5] = u /\ e[p + 6] = v
        /\ Len(EscapeByte(c)) = 6
    BY <2>1
  <2>6. Utf8(c) = <<c>>
    <3>1. c < 128
      BY <1>4 DEF Byte
    <3>2. QED
      BY <3>1 DEF Utf8
  <2>7. QED
    BY <1>1, <2>4, <2>5, <2>6 DEF JsonChar, JsonWidth
<1>5. CASE c \notin {8, 9, 10, 12, 13, 34, 92} /\ c >= 32
  <2>1. EscapeByte(c) = <<c>>
    BY <1>5 DEF EscapeByte, Byte
  <2>2. e[p + 1] = c /\ Len(EscapeByte(c)) = 1
    BY <2>1
  <2>3. QED
    BY <1>1, <1>5, <2>2 DEF JsonChar, JsonWidth
<1>6. QED
  BY <1>2, <1>3, <1>4, <1>5 DEF Byte

(* The parts of a text.                                                    *)
LEMMA Parts ==
  ASSUME NEW S, NEW s \in Seq(S), NEW k \in 0..Len(s)
  PROVE  /\ SubSeq(s, 1, k) \in Seq(S) /\ Len(SubSeq(s, 1, k)) = k
         /\ \A i \in 1..k : SubSeq(s, 1, k)[i] = s[i]
         /\ SubSeq(s, k + 1, Len(s)) \in Seq(S) /\ Len(SubSeq(s, k + 1, Len(s))) = Len(s) - k
         /\ s = SubSeq(s, 1, k) \o SubSeq(s, k + 1, Len(s))
<1>1. Len(s) \in Nat /\ k \in Int /\ k + 1 \in Int /\ \A i \in 1..Len(s) : s[i] \in S
  BY LenProperties, ElementOfSeq
<1>2. /\ SubSeq(s, 1, k) \in Seq(S) /\ Len(SubSeq(s, 1, k)) = k
      /\ \A i \in 1..k : SubSeq(s, 1, k)[i] = s[i]
  <2>1. \A i \in 1..k : s[i] \in S
    BY <1>1
  <2>2. SubSeq(s, 1, k) \in Seq(S)
    BY <1>1, <2>1, SubSeqProperties
  <2>3. Len(SubSeq(s, 1, k)) = IF 1 <= k THEN (k - 1) + 1 ELSE 0
    BY <1>1, <2>1, SubSeqProperties
  <2>4. \A i \in 1..((k - 1) + 1) : SubSeq(s, 1, k)[i] = s[(1 + i) - 1]
    BY <1>1, <2>1, SubSeqProperties
  <2>5. QED
    BY <1>1, <2>2, <2>3, <2>4
<1>3. SubSeq(s, k + 1, Len(s)) \in Seq(S) /\ Len(SubSeq(s, k + 1, Len(s))) = Len(s) - k
  <2>1. \A i \in (k + 1)..Len(s) : s[i] \in S
    BY <1>1
  <2>2. SubSeq(s, k + 1, Len(s)) \in Seq(S)
    BY <1>1, <2>1, SubSeqProperties
  <2>3. Len(SubSeq(s, k + 1, Len(s))) = IF k + 1 <= Len(s) THEN (Len(s) - (k + 1)) + 1 ELSE 0
    BY <1>1, <2>1, SubSeqProperties
  <2>4. QED
    BY <1>1, <2>2, <2>3
<1>4. s = SubSeq(s, 1, k) \o SubSeq(s, k + 1, Len(s))
  <2>1. 1 \in 1..(Len(s) + 1) /\ k \in (1 - 1)..Len(s) /\ Len(s) \in k..Len(s)
    BY <1>1
  <2>2. SubSeq(s, 1, k) \o SubSeq(s, k + 1, Len(s)) = SubSeq(s, 1, Len(s))
    BY <2>1, ConcatAdjacentSubSeq
  <2>3. QED
    BY <2>2, SubSeqFull
<1>5. QED
  BY <1>2, <1>3, <1>4

(* Where the escaped form of a byte of a text stands.                      *)
LEMMA EscapeAt ==
  ASSUME NEW t \in Seq(Byte), NEW k \in 0..(Len(t) - 1)
  PROVE  LET E(n) == json_escape_str(SubSeq(t, 1, n))
             x == EscapeByte(t[k + 1])
         IN  /\ Len(E(k)) \in Nat
             /\ Len(E(k + 1)) = Len(E(k)) + Len(x)
             /\ Len(E(k)) + Len(x) <= Len(json_escape_str(t))
             /\ \A j \in 1..Len(x) : json_escape_str(t)[Len(E(k)) + j] = x[j]
<1> DEFINE a == SubSeq(t, 1, k)
           b == SubSeq(t, 1, k + 1)
           r == SubSeq(t, k + 2, Len(t))
           x == EscapeByte(t[k + 1])
           A == json_escape_str(a)
           B == json_escape_str(b)
           R == json_escape_str(r)
<1>1. Len(t) \in Nat /\ k \in 0..Len(t) /\ k + 1 \in 0..Len(t) /\ k + 1 \in 1..Len(t)
      /\ (k + 1) + 1 = k + 2 /\ (k + 1) - 1 = k
  BY LenProperties
<1>2. a \in Seq(Byte) /\ b \in Seq(Byte) /\ t[k + 1] \in Byte
  BY <1>1, Parts, ElementOfSeq
<1>3. r \in Seq(Byte) /\ t = b \o r
  <2> DEFINE j == k + 1
  <2>1. j \in 0..Len(t) /\ r = SubSeq(t, j + 1, Len(t)) /\ b = SubSeq(t, 1, j)
    BY <1>1
  <2> HIDE DEF j, r, b
  <2>2. SubSeq(t, j + 1, Len(t)) \in Seq(Byte) /\ t = SubSeq(t, 1, j) \o SubSeq(t, j + 1, Len(t))
    BY <2>1, Parts
  <2>3. QED
    BY <2>1, <2>2
<1>4. b = Append(a, t[k + 1])
  <2>1. 1 \in 1..Len(t) /\ k + 1 \in 1..Len(t)
    BY <1>1
  <2>2. SubSeq(t, 1, k + 1) = SubSeq(t, 1, (k + 1) - 1) \o <<t[k + 1]>>
    BY <2>1, SubSeqRecursiveSecond
  <2>3. QED
    BY <1>1, <1>2, <2>2, AppendIsConcat
<1>5. B = A \o x
  BY <1>2, <1>4, EscapeAppend
<1>6. json_escape_str(t) = B \o R
  BY <1>2, <1>3, EscapeConcat
<1>7. A \in Seq(Plain) /\ B \in Seq(Plain) /\ R \in Seq(Plain) /\ x \in Seq(Plain)
  BY <1>2, <1>3, EscapeType, EscapeByteIs
<1> HIDE DEF A, B, R, x
<1>8. Len(A) \in Nat /\ Len(x) \in Nat /\ Len(R) \in Nat /\ Len(B) = Len(A) + Len(x)
      /\ Len(B \o R) = Len(B) + Len(R)
  BY <1>5, <1>7, ConcatProperties, LenProperties
<1>9. ASSUME NEW j \in 1..Len(x) PROVE (B \o R)[Len(A) + j] = x[j]
  <2>1. Len(A) + j \in 1..(Len(B) + Len(R)) /\ Len(A) + j <= Len(B)
        /\ Len(A) + j \in 1..(Len(A) + Len(x)) /\ ~(Len(A) + j <= Len(A)) /\ (Len(A) + j) - Len(A) = j
    BY <1>8
  <2>2. (B \o R)[Len(A) + j] = B[Len(A) + j]
    BY <1>7, <2>1, ConcatProperties
  <2>3. (A \o x)[Len(A) + j] = x[j]
    BY <1>7, <2>1, ConcatProperties
  <2>4. QED
    BY <1>5, <2>2, <2>3
<1>10. /\ Len(A) \in Nat /\ Len(B) = Len(A) + Len(x) /\ Len(A) + Len(x) <= Len(json_escape_str(t))
       /\ \A j \in 1..Len(x) : json_escape_str(t)[Len(A) + j] = x[j]
  BY <1>6, <1>8, <1>9
<1>11. QED
  BY <1>10 DEF A, B, x

(* A reader gets back what was escaped.                                    *)
LEMMA JsonBack ==
  ASSUME NEW t \in Seq(Byte)
  PROVE  JsonText(json_escape_str(t)) = t
<1> DEFINE e == json_escape_str(t)
           n == Len(t)
           At(k) == Len(json_escape_str(SubSeq(t, 1, k)))
<1>1. n \in Nat /\ e \in Seq(Plain) /\ Len(e) \in Nat /\ \A i \in 1..n : t[i] \in Byte
  BY LenProperties, EscapeType, ElementOfSeq
<1>2. PICK U : /\ JsonText(e) = U[1]
               /\ \A i \in Nat : U[i] = IF i > Len(e) THEN <<>>
                                        ELSE JsonChar(e, i) \o U[i + JsonWidth(e, i)]
  BY <1>1, JsonScan
<1>3. ASSUME NEW k \in 0..(n - 1)
      PROVE  U[At(k) + 1] = <<t[k + 1]>> \o U[At(k + 1) + 1]
  <2> DEFINE x == EscapeByte(t[k + 1])
             p == At(k)
  <2>1. k + 1 \in 1..n /\ t[k + 1] \in Byte
    BY <1>1
  <2>2. /\ p \in Nat /\ At(k + 1) = p + Len(x) /\ p + Len(x) <= Len(e)
        /\ \A j \in 1..Len(x) : e[p + j] = x[j]
    BY EscapeAt
  <2>3. Len(x) \in 1..6
    BY <2>1, EscapeByteIs
  <2>4. JsonChar(e, p + 1) = <<t[k + 1]>> /\ JsonWidth(e, p + 1) = Len(x)
    BY <2>1, <2>2, EscapeOne
  <2> HIDE DEF x, p, At, e
  <2>5. p + 1 \in Nat /\ ~(p + 1 > Len(e)) /\ (p + 1) + Len(x) = (p + Len(x)) + 1
    <3>1. \A q \in 1..6, L \in Nat : p + q <= L =>
             ~(p + 1 > L) /\ (p + 1) + q = (p + q) + 1
      BY <2>2
    <3>2. p \in Nat /\ Len(e) \in Nat /\ p + Len(x) <= Len(e)
      BY <1>1, <2>2
    <3>3. p + 1 \in Nat
      BY <3>2
    <3>4. QED
      BY <2>3, <3>1, <3>2, <3>3, Zenon
  <2>6. U[p + 1] = JsonChar(e, p + 1) \o U[(p + 1) + JsonWidth(e, p + 1)]
    BY <1>2, <2>5
  <2>7. U[p + 1] = <<t[k + 1]>> \o U[At(k + 1) + 1]
    BY <2>2, <2>4, <2>5, <2>6
  <2>8. QED
    BY <2>7 DEF p
<1>4. At(0) = 0 /\ At(n) = Len(e)
  <2>1. SubSeq(t, 1, 0) = <<>> /\ SubSeq(t, 1, n) = t
    BY SubSeqEmpty, SubSeqFull
  <2>2. json_escape_str(<<>>) = <<>> /\ Len(<<>>) = 0
    BY EscapeType
  <2>3. QED
    BY <2>1, <2>2
<1>5. U[Len(e) + 1] = <<>>
  <2>1. Len(e) + 1 \in Nat /\ Len(e) + 1 > Len(e)
    BY <1>1
  <2>2. QED
    BY <1>2, <2>1
<1> DEFINE V == {m \in 0..n : U[At(n - m) + 1] = SubSeq(t, (n - m) + 1, n)}
<1> HIDE DEF e, At
<1>6. 0 \in V
  <2>1. n - 0 = n /\ SubSeq(t, n + 1, n) = <<>> /\ 0 \in 0..n
    BY <1>1, SubSeqEmpty
  <2>2. QED
    BY <1>4, <1>5, <2>1
<1>7. ASSUME NEW m \in 0..(n - 1), m \in V PROVE m + 1 \in V
  <2> DEFINE k == n - (m + 1)
  <2>1. k \in 0..(n - 1) /\ k + 1 = n - m /\ m + 1 \in 0..n /\ k + 1 \in 1..n /\ n \in (k + 1)..n
    BY <1>1
  <2>2. U[At(k + 1) + 1] = SubSeq(t, (k + 1) + 1, n)
    BY <1>7, <2>1
  <2> HIDE DEF k
  <2>3. U[At(k) + 1] = <<t[k + 1]>> \o SubSeq(t, (k + 1) + 1, n)
    BY <1>3, <2>1, <2>2
  <2>4. SubSeq(t, k + 1, n) = <<t[k + 1]>> \o SubSeq(t, (k + 1) + 1, n)
    BY <2>1, SubSeqRecursiveFirst
  <2>5. U[At(k) + 1] = SubSeq(t, k + 1, n)
    BY <2>3, <2>4
  <2>6. QED
    BY <2>1, <2>5 DEF k
<1>8. n \in V
  <2>1. \A m \in 0..(n - 1) : m \in V => m + 1 \in V
    BY <1>7
  <2> HIDE DEF V, n
  <2>2. \A m \in 0..n : m \in V
    BY <1>1, <1>6, <2>1, UpTo
  <2>3. QED
    BY <1>1, <2>2
<1>9. U[1] = t
  <2>1. n - n = 0 /\ 0 + 1 = 1
    BY <1>1
  <2>2. U[1] = SubSeq(t, 1, n)
    BY <1>4, <1>8, <2>1
  <2>3. QED
    BY <2>2, SubSeqFull
<1>10. QED
  BY <1>2, <1>9 DEF e

-----------------------------------------------------------------------------
(* Whole characters.                                                       *)

(* What holds at a place of 0..n when it holds at all later ones holds at all. *)
LEMMA DownTo ==
  ASSUME NEW n \in Nat, NEW T,
         \A i \in 0..n : (\A j \in 0..n : j > i => j \in T) => i \in T
  PROVE  \A i \in 0..n : i \in T
<1> DEFINE V == {m \in 0..(n + 1) : \A i \in 0..n : i > n - m => i \in T}
<1>1. 0 \in V
  OBVIOUS
<1>2. ASSUME NEW m \in 0..((n + 1) - 1), m \in V PROVE m + 1 \in V
  <2>1. n - m \in 0..n /\ m + 1 \in 0..(n + 1)
    OBVIOUS
  <2>2. \A j \in 0..n : j > n - m => j \in T
    BY <1>2
  <2>3. n - m \in T
    BY <2>1, <2>2
  <2>4. ASSUME NEW i \in 0..n, i > n - (m + 1) PROVE i \in T
    <3>1. i = n - m \/ i > n - m
      BY <2>1, <2>4
    <3>2. QED
      BY <2>2, <2>3, <3>1
  <2>5. QED
    BY <2>1, <2>4
<1>3. n + 1 \in V
  <2>1. \A m \in 0..((n + 1) - 1) : m \in V => m + 1 \in V
    BY <1>2
  <2> HIDE DEF V
  <2>2. n + 1 \in Nat
    OBVIOUS
  <2>3. \A m \in 0..(n + 1) : m \in V
    BY <1>1, <2>1, <2>2, UpTo
  <2>4. QED
    BY <2>3
<1>4. QED
  BY <1>3

\* A loop that goes on from i to i + d[i] as long as t[i], and returns where it stops.
Stops(f, t, d) == f = [i \in Nat |-> IF t[i] THEN f[i + d[i]] ELSE i]

(* Such a loop is defined if it goes forward and does not go on from n.    *)
LEMMA StopExists ==
  ASSUME NEW n \in Nat, NEW t, NEW d \in [Nat -> Nat], \A i \in Nat : d[i] >= 1,
         \A i \in Nat : t[i] => i < n
  PROVE  \E f : Stops(f, t, d)
<1> DEFINE Good(f, i) == f[i] = IF t[i] THEN f[i + d[i]] ELSE i
           T == {m \in 0..(n + 1) : \E f : \A i \in Nat : i > n - m => Good(f, i)}
<1>1. 0 \in T
  <2> DEFINE f == [i \in Nat |-> i]
  <2>1. \A i \in Nat : f[i] = i
    OBVIOUS
  <2> HIDE DEF f
  <2>2. \A i \in Nat : i > n - 0 => Good(f, i)
    <3>1. ASSUME NEW i \in Nat, i > n - 0 PROVE Good(f, i)
      <4>1. ~t[i]
        BY <3>1
      <4>2. QED
        BY <2>1, <4>1
    <3>2. QED
      BY <3>1
  <2>3. 0 \in 0..(n + 1)
    OBVIOUS
  <2> HIDE DEF Good
  <2>4. QED
    BY <2>2, <2>3
<1>2. ASSUME NEW m \in 0..((n + 1) - 1), m \in T PROVE m + 1 \in T
  <2>1. PICK f : \A i \in Nat : i > n - m => Good(f, i)
    BY <1>2
  <2> DEFINE k == n - m
             v == IF t[k] THEN f[k + d[k]] ELSE k
             g == [j \in Nat |-> IF j = k THEN v ELSE f[j]]
  <2>2. k \in Nat /\ m + 1 \in 0..(n + 1)
    OBVIOUS
  <2>3. \A j \in Nat : j # k => g[j] = f[j]
    OBVIOUS
  <2>4. g[k] = v
    BY <2>2
  <2> HIDE DEF g
  <2>5. ASSUME NEW i \in Nat, i > n - (m + 1) PROVE Good(g, i)
    <3>1. i + d[i] \in Nat /\ i + d[i] # k
      <4>1. d[i] \in Nat /\ d[i] >= 1 /\ i >= k
        BY <2>2, <2>5
      <4>2. QED
        BY <2>2, <4>1
    <3>2. g[i + d[i]] = f[i + d[i]]
      BY <2>3, <3>1
    <3>3. CASE i = k
      <4> HIDE DEF k
      <4>1. QED
        BY <2>4, <3>2, <3>3
    <3>4. CASE i # k
      <4>1. i > n - m
        BY <2>2, <2>5, <3>4
      <4>2. Good(f, i)
        BY <2>1, <4>1
      <4>3. g[i] = f[i]
        BY <2>3, <3>4
      <4>4. QED
        BY <3>2, <4>2, <4>3
    <3>5. QED
      BY <3>3, <3>4
  <2> HIDE DEF Good
  <2>6. QED
    BY <2>2, <2>5
<1>3. n + 1 \in T
  <2>1. \A m \in 0..((n + 1) - 1) : m \in T => m + 1 \in T
    BY <1>2
  <2> HIDE DEF T
  <2>2. n + 1 \in Nat
    OBVIOUS
  <2>3. \A m \in 0..(n + 1) : m \in T
    BY <1>1, <2>1, <2>2, UpTo
  <2>4. QED
    BY <2>3
<1>4. PICK f : \A i \in Nat : i > n - (n + 1) => Good(f, i)
  BY <1>3
<1>5. \A i \in Nat : Good(f, i)
  BY <1>4
<1> DEFINE g == [i \in Nat |-> f[i]]
<1>6. \A i \in Nat : g[i] = f[i]
  OBVIOUS
<1>7. g = [i \in Nat |-> g[i]]
  OBVIOUS
<1> HIDE DEF g
<1>8. ASSUME NEW i \in Nat PROVE g[i] = IF t[i] THEN g[i + d[i]] ELSE i
  <2>1. i + d[i] \in Nat
    OBVIOUS
  <2>2. QED
    BY <1>5, <1>6, <2>1
<1>9. Stops(g, t, d)
  BY <1>7, <1>8 DEF Stops
<1>10. QED
  BY <1>9

\* The character that starts behind the first i bytes of s is complete.
Complete(s, i) == i < Len(s) /\ i + utf8_char_len(s[i + 1]) <= Len(s)
\* The loop of utf8_complete_prefix, from each place.
Stopping(s, P) ==
  \A i \in Nat : P[i] = IF Complete(s, i) THEN P[i + utf8_char_len(s[i + 1])] ELSE i

(* utf8_complete_prefix is such a loop.                                    *)
LEMMA PrefixScan ==
  ASSUME NEW s, Len(s) \in Nat
  PROVE  \E P : utf8_complete_prefix(s) = P[0] /\ Stopping(s, P)
<1> DEFINE n == Len(s)
           t == [i \in Nat |-> Complete(s, i)]
           d == [i \in Nat |-> utf8_char_len(s[i + 1])]
           F == CHOOSE P : P = [i \in Nat |->
                  IF i < Len(s) /\ i + utf8_char_len(s[i + 1]) <= Len(s)
                  THEN P[i + utf8_char_len(s[i + 1])] ELSE i]
<1>1. \A i \in Nat : (t[i] <=> Complete(s, i)) /\ d[i] = utf8_char_len(s[i + 1])
  OBVIOUS
<1>2. d \in [Nat -> Nat] /\ \A i \in Nat : d[i] >= 1
  <2>1. \A i \in Nat : utf8_char_len(s[i + 1]) \in 1..4
    BY StepsForward
  <2>2. QED
    BY <2>1
<1>3. \A i \in Nat : t[i] => i < n
  BY <1>1 DEF Complete
<1> HIDE DEF t, d
<1>4. PICK f : Stops(f, t, d)
  <2>1. n \in Nat
    OBVIOUS
  <2> HIDE DEF n
  <2>2. QED
    BY <1>2, <1>3, <2>1, StopExists
<1>5. f = [i \in Nat |-> IF i < Len(s) /\ i + utf8_char_len(s[i + 1]) <= Len(s)
                        THEN f[i + utf8_char_len(s[i + 1])] ELSE i]
  BY <1>1, <1>4 DEF Stops, Complete
<1>6. F = [i \in Nat |-> IF i < Len(s) /\ i + utf8_char_len(s[i + 1]) <= Len(s)
                        THEN F[i + utf8_char_len(s[i + 1])] ELSE i]
  BY <1>5
<1>7. utf8_complete_prefix(s) = F[0]
  BY DEF utf8_complete_prefix
<1> HIDE DEF F
<1>8. Stopping(s, F)
  BY <1>6 DEF Stopping, Complete
<1>9. QED
  BY <1>7, <1>8

(* It stops inside the text, with at most three bytes left.                *)
LEMMA StopAt ==
  ASSUME NEW s, Len(s) \in Nat, NEW P, Stopping(s, P)
  PROVE  \A i \in 0..Len(s) : P[i] \in i..Len(s) /\ Len(s) - P[i] <= 3
<1> DEFINE n == Len(s)
           T == {i \in 0..n : P[i] \in i..n /\ n - P[i] <= 3}
<1>1. ASSUME NEW i \in 0..n, \A j \in 0..n : j > i => j \in T PROVE i \in T
  <2> DEFINE w == utf8_char_len(s[i + 1])
  <2>1. w \in 1..4
    BY StepsForward
  <2>2. P[i] = IF i < n /\ i + w <= n THEN P[i + w] ELSE i
    BY DEF Stopping, Complete
  <2> HIDE DEF w
  <2>3. CASE i < n /\ i + w <= n
    <3>1. i + w \in 0..n /\ i + w > i
      BY <2>1, <2>3
    <3>2. P[i + w] \in (i + w)..n /\ n - P[i + w] <= 3
      BY <1>1, <3>1
    <3>3. P[i] \in i..n /\ n - P[i] <= 3
      BY <2>1, <2>2, <2>3, <3>2
    <3>4. QED
      BY <3>3
  <2>4. CASE ~(i < n /\ i + w <= n)
    <3>1. P[i] = i /\ n - i <= 3
      BY <2>1, <2>2, <2>4
    <3>2. QED
      BY <3>1
  <2>5. QED
    BY <2>3, <2>4
<1>2. n \in Nat /\ \A i \in 0..n : (\A j \in 0..n : j > i => j \in T) => i \in T
  BY <1>1
<1>3. \A i \in 0..n : i \in T
  <2> HIDE DEF T, n
  <2>1. QED
    BY <1>2, DownTo
<1>4. QED
  BY <1>3

\* A text that ends with a character.
Whole(s) == utf8_complete_prefix(s) = Len(s)

(* What may be sent of a text ends with a character, and at most three bytes *)
(* are held back.                                                          *)
LEMMA PrefixIs ==
  ASSUME NEW s \in Seq(Byte)
  PROVE  LET e == utf8_complete_prefix(s)
         IN  e \in 0..Len(s) /\ Len(s) - e <= 3 /\ Whole(SubSeq(s, 1, e))
<1> DEFINE n == Len(s)
           e == utf8_complete_prefix(s)
           x == SubSeq(s, 1, e)
<1>1. n \in Nat
  BY LenProperties
<1>2. PICK P : e = P[0] /\ Stopping(s, P)
  BY <1>1, PrefixScan
<1>3. \A i \in 0..n : P[i] \in i..n /\ n - P[i] <= 3
  BY <1>1, <1>2, StopAt
<1>4. e \in 0..n /\ n - e <= 3
  BY <1>1, <1>2, <1>3
<1>5. x \in Seq(Byte) /\ Len(x) = e /\ \A i \in 1..e : x[i] = s[i]
  BY <1>4, Parts
<1> HIDE DEF e, x
<1>6. PICK Q : utf8_complete_prefix(x) = Q[0] /\ Stopping(x, Q)
  <2>1. Len(x) \in Nat
    BY <1>4, <1>5
  <2>2. QED
    BY <2>1, PrefixScan
<1> DEFINE T == {i \in 0..e : P[i] = e => Q[i] = e}
<1>7. ASSUME NEW i \in 0..e, \A j \in 0..e : j > i => j \in T PROVE i \in T
  <2>1. SUFFICES ASSUME P[i] = e PROVE Q[i] = e
    OBVIOUS
  <2> DEFINE w == utf8_char_len(s[i + 1])
             v == utf8_char_len(x[i + 1])
  <2>2. w \in 1..4
    BY StepsForward
  <2>3. P[i] = IF i < n /\ i + w <= n THEN P[i + w] ELSE i
    BY <1>2, <1>4 DEF Stopping, Complete
  <2>4. Q[i] = IF i < e /\ i + v <= e THEN Q[i + v] ELSE i
    BY <1>4, <1>5, <1>6 DEF Stopping, Complete
  <2>5. i < e => v = w
    <3>1. i < e => i + 1 \in 1..e
      BY <1>4
    <3>2. QED
      BY <1>5, <3>1
  <2> HIDE DEF w, v
  <2>6. CASE i < n /\ i + w <= n
    <3>1. i + w \in 0..n /\ P[i + w] = e
      BY <1>1, <2>1, <2>2, <2>3, <2>6
    <3>2. i + w <= e
      BY <1>3, <3>1
    <3>3. i < e /\ i + w \in 0..e /\ i + w > i
      BY <1>4, <2>2, <3>2
    <3>4. Q[i + w] = e
      BY <1>7, <3>1, <3>3
    <3>5. QED
      BY <2>4, <2>5, <3>2, <3>3, <3>4
  <2>7. CASE ~(i < n /\ i + w <= n)
    <3>1. i = e
      BY <2>1, <2>3, <2>7
    <3>2. QED
      BY <1>4, <2>4, <3>1
  <2>8. QED
    BY <2>6, <2>7
<1>8. \A i \in 0..e : i \in T
  <2>1. e \in Nat /\ \A i \in 0..e : (\A j \in 0..e : j > i => j \in T) => i \in T
    BY <1>4, <1>7
  <2> HIDE DEF T
  <2>2. QED
    BY <2>1, DownTo
<1>9. Q[0] = e
  BY <1>2, <1>4, <1>8
<1>10. Whole(x)
  BY <1>5, <1>6, <1>9 DEF Whole
<1>11. QED
  BY <1>4, <1>10 DEF e, x

(* A text of whole characters behind another is one.                       *)
LEMMA WholeConcat ==
  ASSUME NEW x \in Seq(Byte), NEW y \in Seq(Byte), Whole(x), Whole(y)
  PROVE  Whole(x \o y)
<1> DEFINE a == Len(x)
           b == Len(y)
           z == x \o y
<1>1. /\ a \in Nat /\ b \in Nat /\ z \in Seq(Byte) /\ Len(z) = a + b
      /\ \A i \in 1..a : z[i] = x[i]
      /\ \A i \in 1..b : z[a + i] = y[i]
  <2>1. a \in Nat /\ b \in Nat /\ z \in Seq(Byte) /\ Len(z) = a + b
    BY LenProperties, ConcatProperties
  <2>2. \A i \in 1..(a + b) : z[i] = IF i <= a THEN x[i] ELSE y[i - a]
    BY ConcatProperties
  <2> HIDE DEF a, b, z
  <2>3. ASSUME NEW i \in 1..b PROVE z[a + i] = y[i]
    <3>1. a + i \in 1..(a + b) /\ ~(a + i <= a) /\ (a + i) - a = i
      BY <2>1
    <3>2. QED
      BY <2>2, <3>1
  <2>4. \A i \in 1..a : z[i] = x[i]
    BY <2>1, <2>2
  <2>5. QED
    BY <2>1, <2>3, <2>4
<1> HIDE DEF z
<1>2. PICK P : utf8_complete_prefix(x) = P[0] /\ Stopping(x, P)
  BY <1>1, PrefixScan
<1>3. PICK Q : utf8_complete_prefix(y) = Q[0] /\ Stopping(y, Q)
  BY <1>1, PrefixScan
<1>4. PICK R : utf8_complete_prefix(z) = R[0] /\ Stopping(z, R)
  <2>1. Len(z) \in Nat
    BY <1>1
  <2>2. QED
    BY <2>1, PrefixScan
<1>5. P[0] = a /\ Q[0] = b
  BY <1>2, <1>3 DEF Whole
<1> HIDE DEF a, b
<1> DEFINE T == {i \in 0..a : P[i] = a => R[i] = R[a]}
           V == {i \in 0..b : R[a + i] = a + Q[i]}
<1>6. ASSUME NEW i \in 0..a, \A j \in 0..a : j > i => j \in T PROVE i \in T
  <2>1. SUFFICES ASSUME P[i] = a PROVE R[i] = R[a]
    OBVIOUS
  <2> DEFINE w == utf8_char_len(x[i + 1])
             v == utf8_char_len(z[i + 1])
  <2>2. w \in 1..4
    BY StepsForward
  <2>3. P[i] = IF i < a /\ i + w <= a THEN P[i + w] ELSE i
    BY <1>1, <1>2 DEF Stopping, Complete, a
  <2>4. R[i] = IF i < a + b /\ i + v <= a + b THEN R[i + v] ELSE i
    BY <1>1, <1>4 DEF Stopping, Complete
  <2>5. i < a => v = w
    <3>1. i < a => i + 1 \in 1..a
      BY <1>1
    <3>2. QED
      BY <1>1, <3>1
  <2> HIDE DEF w, v
  <2>6. CASE i < a /\ i + w <= a
    <3>1. i + w \in 0..a /\ i + w > i /\ i < a + b /\ i + w <= a + b
      BY <1>1, <2>2, <2>6
    <3>2. P[i + w] = a
      BY <2>1, <2>3, <2>6
    <3>3. R[i + w] = R[a]
      BY <1>6, <3>1, <3>2
    <3>4. QED
      BY <2>4, <2>5, <2>6, <3>1, <3>3
  <2>7. CASE ~(i < a /\ i + w <= a)
    <3>1. i = a
      BY <2>1, <2>3, <2>7
    <3>2. QED
      BY <3>1
  <2>8. QED
    BY <2>6, <2>7
<1>7. ASSUME NEW i \in 0..b, \A j \in 0..b : j > i => j \in V PROVE i \in V
  <2> DEFINE w == utf8_char_len(y[i + 1])
             v == utf8_char_len(z[(a + i) + 1])
  <2>1. w \in 1..4
    BY StepsForward
  <2>2. Q[i] = IF i < b /\ i + w <= b THEN Q[i + w] ELSE i
    BY <1>1, <1>3 DEF Stopping, Complete, b
  <2>3. R[a + i] = IF a + i < a + b /\ (a + i) + v <= a + b THEN R[(a + i) + v] ELSE a + i
    <3>1. a + i \in Nat
      BY <1>1
    <3>2. QED
      BY <1>1, <1>4, <3>1 DEF Stopping, Complete
  <2>4. i < b => v = w
    <3>1. i < b => i + 1 \in 1..b /\ (a + i) + 1 = a + (i + 1)
      BY <1>1
    <3>2. QED
      BY <1>1, <3>1
  <2> HIDE DEF w, v
  <2>5. CASE i < b /\ i + w <= b
    <3>1. i + w \in 0..b /\ i + w > i /\ a + i < a + b /\ (a + i) + w <= a + b
          /\ (a + i) + w = a + (i + w)
      BY <1>1, <2>1, <2>5
    <3>2. R[a + (i + w)] = a + Q[i + w]
      BY <1>7, <3>1
    <3>3. R[a + i] = a + Q[i]
      BY <2>2, <2>3, <2>4, <2>5, <3>1, <3>2
    <3>4. QED
      BY <3>3
  <2>6. CASE ~(i < b /\ i + w <= b)
    <3>1. ~(a + i < a + b /\ (a + i) + v <= a + b)
      BY <1>1, <2>1, <2>4, <2>6
    <3>2. R[a + i] = a + Q[i]
      BY <2>2, <2>3, <2>6, <3>1
    <3>3. QED
      BY <3>2
  <2>7. QED
    BY <2>5, <2>6
<1>8. 0 \in T
  <2>1. \A i \in 0..a : (\A j \in 0..a : j > i => j \in T) => i \in T
    BY <1>6
  <2> HIDE DEF T
  <2>2. \A i \in 0..a : i \in T
    BY <1>1, <2>1, DownTo
  <2>3. QED
    BY <1>1, <2>2
<1>9. 0 \in V
  <2>1. \A i \in 0..b : (\A j \in 0..b : j > i => j \in V) => i \in V
    BY <1>7
  <2> HIDE DEF V
  <2>2. \A i \in 0..b : i \in V
    BY <1>1, <2>1, DownTo
  <2>3. QED
    BY <1>1, <2>2
<1>10. R[0] = a + b
  <2>1. R[0] = R[a] /\ a + 0 = a /\ R[a + 0] = a + Q[0]
    BY <1>1, <1>5, <1>8, <1>9
  <2>2. QED
    BY <1>5, <2>1
<1>11. QED
  BY <1>1, <1>4, <1>10 DEF Whole, z

(* The test of utf8_valid at a byte and utf8_char_len go equally far.      *)
LEMMA AdvanceIs ==
  ASSUME NEW s, NEW i, s[i] \in 0..255
  PROVE  Advance(s, i) = utf8_char_len(s[i])
<1>1. \A c \in 0..127 : utf8_char_len(c) = 1
  BY DEF utf8_char_len
<1>2. s[i] < 128 => s[i] \in 0..127
  OBVIOUS
<1>3. QED
  BY <1>1, <1>2 DEF Advance

(* Whether a character is well-formed depends on its bytes alone.          *)
LEMMA FormedLocal ==
  ASSUME NEW s, NEW r, NEW i \in Nat, NEW k \in Nat, Len(s) \in Nat, Len(r) \in Nat,
         \A j \in 0..Follow(s[i]) : r[(k + i) + j] = s[i + j],
         i + Follow(s[i]) <= Len(s), (k + i) + Follow(s[i]) <= Len(r)
  PROVE  CharFormed(r, k + i) <=> CharFormed(s, i)
<1> DEFINE F == Follow(s[i])
<1>1. F \in 0..3
  BY StepsForward
<1>2. r[k + i] = s[i]
  <2>1. 0 \in 0..F /\ (k + i) + 0 = k + i /\ i + 0 = i
    BY <1>1
  <2>2. QED
    BY <2>1
<1>3. \A j \in 1..F : r[(k + i) + j] = s[i + j]
  BY <1>1
<1>4. CharFormed(s, i) <=> /\ s[i] < 128 \/ F > 0
                           /\ \A j \in 1..F : s[i + j] \in IF j = 1 THEN Second(s[i]) ELSE 128..191
  BY DEF CharFormed
<1>5. CharFormed(r, k + i) <=>
        /\ s[i] < 128 \/ F > 0
        /\ \A j \in 1..F : r[(k + i) + j] \in IF j = 1 THEN Second(s[i]) ELSE 128..191
  BY <1>2 DEF CharFormed
<1> HIDE DEF F
<1>6. QED
  BY <1>3, <1>4, <1>5

(* A valid text that is cut behind a character gives two valid texts.      *)
LEMMA ValidParts ==
  ASSUME NEW x \in Seq(Byte), NEW y \in Seq(Byte), Whole(x), utf8_valid(x \o y)
  PROVE  utf8_valid(x) /\ utf8_valid(y)
<1> DEFINE a == Len(x)
           b == Len(y)
           z == x \o y
<1>1. /\ a \in Nat /\ b \in Nat /\ z \in Seq(Byte) /\ Len(z) = a + b
      /\ \A i \in 1..a : z[i] = x[i] /\ x[i] \in 0..255
      /\ \A i \in 1..b : z[a + i] = y[i] /\ y[i] \in 0..255
  <2>1. a \in Nat /\ b \in Nat /\ z \in Seq(Byte) /\ Len(z) = a + b
    BY LenProperties, ConcatProperties
  <2>2. \A i \in 1..(a + b) : z[i] = IF i <= a THEN x[i] ELSE y[i - a]
    BY ConcatProperties
  <2>3. (\A i \in 1..a : x[i] \in 0..255) /\ (\A i \in 1..b : y[i] \in 0..255)
    BY ElementOfSeq DEF Byte
  <2> HIDE DEF a, b, z
  <2>4. ASSUME NEW i \in 1..b PROVE z[a + i] = y[i]
    <3>1. a + i \in 1..(a + b) /\ ~(a + i <= a) /\ (a + i) - a = i
      BY <2>1
    <3>2. QED
      BY <2>2, <3>1
  <2>5. \A i \in 1..a : z[i] = x[i]
    BY <2>1, <2>2
  <2>6. QED
    BY <2>1, <2>3, <2>4, <2>5
<1>2. PICK P : utf8_complete_prefix(x) = P[0] /\ Stopping(x, P)
  BY <1>1, PrefixScan
<1>3. P[0] = a
  BY <1>2 DEF Whole
<1>4. PICK f \in [Nat -> BOOLEAN] :
         /\ WellFormed(x) = f[1]
         /\ \A i \in Nat : f[i] <=> (i > a \/ (CharFormed(x, i) /\ f[i + Follow(x[i]) + 1]))
  BY <1>1, FormedScan
<1>5. PICK g \in [Nat -> BOOLEAN] :
         /\ WellFormed(y) = g[1]
         /\ \A i \in Nat : g[i] <=> (i > b \/ (CharFormed(y, i) /\ g[i + Follow(y[i]) + 1]))
  BY <1>1, FormedScan
<1>6. PICK h \in [Nat -> BOOLEAN] :
         /\ WellFormed(z) = h[1]
         /\ \A i \in Nat : h[i] <=> (i > Len(z) \/ (CharFormed(z, i) /\ h[i + Follow(z[i]) + 1]))
  <2>1. Len(z) \in Nat
    BY <1>1
  <2> HIDE DEF z
  <2>2. QED
    BY <2>1, FormedScan
<1>7. h[1]
  BY <1>1, <1>6, Utf8Agree
<1> HIDE DEF a, b, z
<1>8. \A i \in Nat : h[i] <=> (i > a + b \/ (CharFormed(z, i) /\ h[i + Follow(z[i]) + 1]))
  <2>1. Len(z) = a + b
    BY <1>1
  <2>2. ASSUME NEW i \in Nat
        PROVE  h[i] <=> (i > Len(z) \/ (CharFormed(z, i) /\ h[i + Follow(z[i]) + 1]))
    BY <1>6
  <2>3. ASSUME NEW i \in Nat PROVE i > Len(z) <=> i > a + b
    BY <2>1
  <2>4. QED
    BY <2>2, <2>3, Zenon
<1> DEFINE T == {i \in 0..a : P[i] = a /\ h[i + 1] => f[i + 1] /\ h[a + 1]}
           V == {i \in 0..b : h[(a + i) + 1] => g[i + 1]}
<1>9. ASSUME NEW i \in 0..a, \A j \in 0..a : j > i => j \in T PROVE i \in T
  <2>1. SUFFICES ASSUME P[i] = a, h[i + 1] PROVE f[i + 1] /\ h[a + 1]
    OBVIOUS
  <2>2. CASE i = a
    <3>1. a + 1 \in Nat /\ a + 1 > a
      BY <1>1
    <3>2. QED
      BY <1>4, <2>1, <2>2, <3>1
  <2>3. CASE i # a
    <3> DEFINE c == x[i + 1]
               w == utf8_char_len(c)
               F == Follow(c)
    <3>1. i + 1 \in 1..a /\ i + 1 \in Nat /\ i + 1 <= a + b /\ ~(i + 1 > a + b) /\ ~(i + 1 > a)
      BY <1>1, <2>3
    <3>2. z[i + 1] = c /\ c \in 0..255
      BY <1>1, <3>1
    <3>3. P[i] = IF i < a /\ i + w <= a THEN P[i + w] ELSE i
      BY <1>1, <1>2 DEF Stopping, Complete, a
    <3>4. CharFormed(z, i + 1) /\ h[(i + 1) + F + 1]
      BY <1>8, <2>1, <3>1, <3>2
    <3>5. w = F + 1
      <4>1. Len(z) \in Nat /\ i + 1 <= Len(z) /\ z[i + 1] \in 0..255
        BY <1>1, <3>1, <3>2
      <4>2. Advance(z, i + 1) = Follow(z[i + 1]) + 1
        BY <3>1, <3>4, <4>1, CharsAgree
      <4>3. QED
        BY <3>2, <4>1, <4>2, AdvanceIs
    <3>6. F \in 0..3
      BY StepsForward
    <3>7. \A j \in 1..a : z[j] = x[j]
      BY <1>1
    <3> HIDE DEF w, F
    <3>8. i + w <= a /\ P[i + w] = a
      BY <2>1, <2>3, <3>3
    <3>9. i + w \in 0..a /\ i + w > i /\ (i + w) + 1 = (i + 1) + F + 1 /\ (i + 1) + F <= a
      BY <1>1, <3>5, <3>6, <3>8
    <3>10. f[(i + w) + 1] /\ h[a + 1]
      BY <1>9, <3>4, <3>8, <3>9
    <3>11. CharFormed(x, i + 1)
      <4>1. ASSUME NEW j \in 0..F PROVE z[(0 + (i + 1)) + j] = x[(i + 1) + j]
        <5>1. (i + 1) + j \in 1..a /\ (0 + (i + 1)) + j = (i + 1) + j
          BY <1>1, <3>6, <3>9
        <5>2. QED
          BY <3>7, <5>1
      <4>2. (0 + (i + 1)) + F <= Len(z) /\ Len(z) \in Nat /\ Len(x) = a
        BY <1>1, <3>6, <3>9 DEF a
      <4>3. CharFormed(z, 0 + (i + 1)) <=> CharFormed(x, i + 1)
        BY <1>1, <3>1, <3>9, <4>1, <4>2, FormedLocal DEF F
      <4>4. QED
        BY <3>1, <3>4, <4>3
    <3>12. f[i + 1]
      BY <1>4, <3>1, <3>9, <3>10, <3>11 DEF F
    <3>13. QED
      BY <3>10, <3>12
  <2>4. QED
    BY <2>2, <2>3
<1>10. ASSUME NEW i \in 0..b, \A j \in 0..b : j > i => j \in V PROVE i \in V
  <2>1. SUFFICES ASSUME h[(a + i) + 1] PROVE g[i + 1]
    OBVIOUS
  <2>2. CASE i = b
    <3>1. b + 1 \in Nat /\ b + 1 > b
      BY <1>1
    <3>2. QED
      BY <1>5, <2>2, <3>1
  <2>3. CASE i # b
    <3> DEFINE c == y[i + 1]
               F == Follow(c)
               p == (a + i) + 1
    <3>1. i + 1 \in 1..b /\ i + 1 \in Nat /\ p \in Nat /\ ~(p > a + b) /\ p = a + (i + 1)
      BY <1>1, <2>3
    <3>2. z[p] = c
      BY <1>1, <3>1
    <3>3. F \in 0..3
      BY StepsForward
    <3>4. CharFormed(z, p) /\ h[p + F + 1]
      BY <1>8, <2>1, <3>1, <3>2
    <3>5. p + F <= a + b
      BY <1>1, <3>2, <3>4 DEF CharFormed
    <3>6. \A j \in 1..b : z[a + j] = y[j]
      BY <1>1
    <3> HIDE DEF F
    <3>7. (i + 1) + F <= b /\ (i + 1) + F \in 0..b /\ (i + 1) + F > i
          /\ p + F + 1 = (a + ((i + 1) + F)) + 1
      BY <1>1, <3>1, <3>3, <3>5
    <3>8. g[((i + 1) + F) + 1]
      BY <1>10, <3>4, <3>7
    <3>9. CharFormed(y, i + 1)
      <4>1. ASSUME NEW j \in 0..F PROVE z[(a + (i + 1)) + j] = y[(i + 1) + j]
        <5>1. (i + 1) + j \in 1..b /\ (a + (i + 1)) + j = a + ((i + 1) + j)
          BY <1>1, <3>1, <3>3, <3>7
        <5>2. QED
          BY <3>6, <5>1
      <4>2. (a + (i + 1)) + F <= Len(z) /\ Len(z) \in Nat /\ Len(y) = b
        BY <1>1, <3>1, <3>5 DEF b
      <4>3. CharFormed(z, a + (i + 1)) <=> CharFormed(y, i + 1)
        BY <1>1, <3>1, <3>7, <4>1, <4>2, FormedLocal DEF F
      <4>4. QED
        BY <3>1, <3>4, <4>3
    <3>10. QED
      BY <1>5, <3>1, <3>8, <3>9 DEF F
  <2>4. QED
    BY <2>2, <2>3
<1>11. 0 \in T
  <2>1. \A i \in 0..a : (\A j \in 0..a : j > i => j \in T) => i \in T
    BY <1>9
  <2> HIDE DEF T
  <2>2. \A i \in 0..a : i \in T
    BY <1>1, <2>1, DownTo
  <2>3. QED
    BY <1>1, <2>2
<1>12. 0 \in V
  <2>1. \A i \in 0..b : (\A j \in 0..b : j > i => j \in V) => i \in V
    BY <1>10
  <2> HIDE DEF V
  <2>2. \A i \in 0..b : i \in V
    BY <1>1, <2>1, DownTo
  <2>3. QED
    BY <1>1, <2>2
<1>13. f[1] /\ h[a + 1]
  BY <1>3, <1>7, <1>11
<1>14. g[1]
  <2>1. (a + 0) + 1 = a + 1
    BY <1>1
  <2>2. QED
    BY <1>12, <1>13, <2>1
<1>15. QED
  BY <1>4, <1>5, <1>13, <1>14, Utf8Agree

-----------------------------------------------------------------------------
(* The text of a token.                                                    *)

(* What a loop reads is of the kind of what it reads at each place.        *)
LEMMA ReadType ==
  ASSUME NEW n \in Nat, NEW h, NEW d \in [Nat -> Nat], \A i \in Nat : d[i] >= 1,
         NEW f, Reads(f, n, Singles(h), d), NEW S, \A i \in 1..n : h[i] \in S
  PROVE  f[1] \in Seq(S)
<1> DEFINE T == {i \in 0..n : i > 0 => f[i] \in Seq(S)}
<1>1. \A i \in Nat : f[i] = IF i > n THEN <<>> ELSE <<h[i]>> \o f[i + d[i]]
  BY DEF Reads, Singles
<1>2. <<>> \in Seq(S)
  BY EmptySeq
<1>3. ASSUME NEW i \in 0..n, \A j \in 0..n : j > i => j \in T PROVE i \in T
  <2>1. SUFFICES ASSUME i > 0 PROVE f[i] \in Seq(S)
    OBVIOUS
  <2>2. i \in Nat /\ ~(i > n) /\ h[i] \in S /\ i + d[i] \in Nat /\ i + d[i] > i /\ i + d[i] > 0
    BY <2>1
  <2>3. f[i + d[i]] \in Seq(S)
    <3>1. CASE i + d[i] > n
      BY <1>1, <1>2, <2>2, <3>1
    <3>2. CASE ~(i + d[i] > n)
      <4>1. i + d[i] \in 0..n
        BY <2>2, <3>2
      <4>2. QED
        BY <1>3, <2>2, <4>1
    <3>3. QED
      BY <3>1, <3>2
  <2>4. <<h[i]>> \in Seq(S)
    BY <2>2
  <2>5. <<h[i]>> \o f[i + d[i]] \in Seq(S)
    BY <2>3, <2>4, ConcatProperties
  <2>6. QED
    BY <1>1, <2>2, <2>5
<1>4. \A i \in 0..n : i \in T
  <2>1. \A i \in 0..n : (\A j \in 0..n : j > i => j \in T) => i \in T
    BY <1>3
  <2> HIDE DEF T
  <2>2. QED
    BY <2>1, DownTo
<1>5. CASE n = 0
  <2>1. 1 \in Nat /\ 1 > n
    BY <1>5
  <2>2. f[1] = <<>>
    BY <1>1, <2>1
  <2>3. QED
    BY <1>2, <2>2
<1>6. CASE n > 0
  <2>1. 1 \in 0..n /\ 1 > 0
    BY <1>6
  <2>2. QED
    BY <1>4, <2>1
<1>7. QED
  BY <1>5, <1>6

(* A byte-level piece decodes to bytes; one of ASCII, to ASCII.            *)
LEMMA BpeType ==
  ASSUME NEW raw \in Seq(Byte)
  PROVE  /\ DecodeBpe(raw) \in Seq(Byte)
         /\ raw \in Seq(0..127) => DecodeBpe(raw) \in Seq(0..127)
<1> DEFINE n == Len(raw)
           h == [i \in Nat |-> IF IsPair(raw, i) THEN PairByte(raw[i], raw[i + 1]) ELSE raw[i]]
           d == [i \in Nat |-> IF IsPair(raw, i) THEN 2 ELSE 1]
           Body(f, i) == IF i > n THEN <<>>
                         ELSE IF IsPair(raw, i)
                              THEN <<PairByte(raw[i], raw[i + 1])>> \o f[i + 2]
                              ELSE <<raw[i]>> \o f[i + 1]
           D == CHOOSE f : f = [i \in Nat |-> Body(f, i)]
<1>1. n \in Nat /\ \A i \in 1..n : raw[i] \in Byte
  BY LenProperties, ElementOfSeq
<1>2. \A i \in Nat : h[i] = IF IsPair(raw, i) THEN PairByte(raw[i], raw[i + 1]) ELSE raw[i]
  OBVIOUS
<1>3. d \in [Nat -> Nat] /\ \A i \in Nat : d[i] = IF IsPair(raw, i) THEN 2 ELSE 1
  OBVIOUS
<1>4. \A i \in Nat : d[i] >= 1
  BY <1>3
<1> HIDE DEF h, d
<1>5. ASSUME NEW f, NEW i \in Nat
      PROVE  Body(f, i) = IF i > n THEN <<>> ELSE <<h[i]>> \o f[i + d[i]]
  BY <1>2, <1>3
<1>6. PICK f : Reads(f, n, Singles(h), d)
  <2> HIDE DEF n
  <2>1. QED
    BY <1>1, <1>3, <1>4, ReadExists
<1>7. f = [i \in Nat |-> Body(f, i)]
  <2> HIDE DEF Body
  <2>1. QED
    BY <1>5, <1>6 DEF Reads, Singles
<1>8. D = [i \in Nat |-> Body(D, i)]
  <2> HIDE DEF Body
  <2>1. QED
    BY <1>7
<1>9. DecodeBpe(raw) = D[1]
  BY DEF DecodeBpe
<1> HIDE DEF D
<1>10. Reads(D, n, Singles(h), d)
  <2> HIDE DEF Body
  <2>1. QED
    BY <1>5, <1>8 DEF Reads, Singles
<1> HIDE DEF n, Body
<1>11. \A i \in 1..n : h[i] \in Byte
  <2>1. ASSUME NEW i \in 1..n PROVE h[i] \in Byte
    <3>1. IsPair(raw, i) => PairByte(raw[i], raw[i + 1]) \in Byte
      BY DEF IsPair
    <3>2. i \in Nat /\ raw[i] \in Byte
      BY <1>1
    <3>3. QED
      BY <1>2, <3>1, <3>2
  <2>2. QED
    BY <2>1
<1>12. D[1] \in Seq(Byte)
  BY <1>1, <1>3, <1>4, <1>10, <1>11, ReadType
<1>13. ASSUME raw \in Seq(0..127) PROVE D[1] \in Seq(0..127)
  <2>1. \A i \in 1..n : raw[i] \in 0..127
    BY <1>13, ElementOfSeq DEF n
  <2>2. ASSUME NEW i \in 1..n PROVE h[i] \in 0..127
    <3>1. i \in Nat /\ raw[i] \in 0..127
      BY <1>1, <2>1
    <3>2. raw[i] \notin 194..197
      <4>1. \A c \in 0..127 : c \notin 194..197
        OBVIOUS
      <4>2. QED
        BY <3>1, <4>1, ZenonT(60)
    <3>3. ~IsPair(raw, i)
      BY <3>2, Zenon DEF IsPair
    <3>4. QED
      BY <1>2, <3>1, <3>3
  <2>3. \A i \in 1..n : h[i] \in 0..127
    BY <2>2
  <2>4. QED
    BY <1>1, <1>3, <1>4, <1>10, <2>3, ReadType
<1>14. QED
  BY <1>9, <1>12, <1>13

(* So does a piece of SentencePiece.                                       *)
LEMMA SpmType ==
  ASSUME NEW raw \in Seq(Byte)
  PROVE  DecodeSpm(raw) \in Seq(Byte)
<1> DEFINE n == Len(raw)
           Mark(i) == i + 2 <= n /\ SubSeq(raw, i, i + 2) = Marker
           h == [i \in Nat |-> IF Mark(i) THEN 32 ELSE raw[i]]
           d == [i \in Nat |-> IF Mark(i) THEN 3 ELSE 1]
           Body(f, i) == IF i > n THEN <<>>
                         ELSE IF i + 2 <= n /\ SubSeq(raw, i, i + 2) = Marker
                              THEN <<32>> \o f[i + 3]
                              ELSE <<raw[i]>> \o f[i + 1]
           D == CHOOSE f : f = [i \in Nat |-> Body(f, i)]
<1>1. n \in Nat /\ \A i \in 1..n : raw[i] \in Byte
  BY LenProperties, ElementOfSeq
<1>2. \A i \in Nat : h[i] = IF Mark(i) THEN 32 ELSE raw[i]
  OBVIOUS
<1>3. d \in [Nat -> Nat] /\ \A i \in Nat : d[i] = IF Mark(i) THEN 3 ELSE 1
  OBVIOUS
<1>4. \A i \in Nat : d[i] >= 1
  <2> HIDE DEF Mark
  <2>1. QED
    BY <1>3
<1> HIDE DEF h, d
<1>5. ASSUME NEW f, NEW i \in Nat
      PROVE  Body(f, i) = IF i > n THEN <<>> ELSE <<h[i]>> \o f[i + d[i]]
  <2>1. Body(f, i) = IF i > n THEN <<>> ELSE IF Mark(i) THEN <<32>> \o f[i + 3] ELSE <<raw[i]>> \o f[i + 1]
    OBVIOUS
  <2> HIDE DEF Mark, Body
  <2>2. QED
    BY <1>2, <1>3, <2>1
<1>6. PICK f : Reads(f, n, Singles(h), d)
  <2> HIDE DEF n
  <2>1. QED
    BY <1>1, <1>3, <1>4, ReadExists
<1>7. f = [i \in Nat |-> Body(f, i)]
  <2> HIDE DEF Body
  <2>1. QED
    BY <1>5, <1>6 DEF Reads, Singles
<1>8. D = [i \in Nat |-> Body(D, i)]
  <2> HIDE DEF Body
  <2>1. QED
    BY <1>7
<1>9. DecodeSpm(raw) = IF spm_byte_token_value(raw) >= 0 THEN <<spm_byte_token_value(raw)>> ELSE D[1]
  BY DEF DecodeSpm
<1> HIDE DEF D
<1>10. Reads(D, n, Singles(h), d)
  <2> HIDE DEF Body
  <2>1. QED
    BY <1>5, <1>8 DEF Reads, Singles
<1> HIDE DEF n, Body, Mark
<1>11. \A i \in 1..n : h[i] \in Byte
  <2>1. 32 \in Byte
    BY DEF Byte
  <2>2. QED
    BY <1>1, <1>2, <2>1
<1>12. D[1] \in Seq(Byte)
  BY <1>1, <1>3, <1>4, <1>10, <1>11, ReadType
<1>13. spm_byte_token_value(raw) >= 0 => spm_byte_token_value(raw) \in Byte
  <2>1. \A c : HexDigit(c) \in Int /\ HexDigit(c) <= 15
    <3>1. \A c \in 48..57 : HexDigit(c) = c - 48
      <4>1. ASSUME NEW c \in 48..57 PROVE HexDigit(c) = c - 48
        <5>1. c \notin 97..102 /\ c \notin 65..70
          OBVIOUS
        <5>2. QED
          BY <5>1, Zenon DEF HexDigit
      <4>2. QED
        BY <4>1
    <3>2. \A c \in 97..102 : HexDigit(c) = c - 87
      <4>1. ASSUME NEW c \in 97..102 PROVE HexDigit(c) = c - 87
        BY DEF HexDigit
      <4>2. QED
        BY <4>1
    <3>3. \A c \in 65..70 : HexDigit(c) = c - 55
      <4>1. ASSUME NEW c \in 65..70 PROVE HexDigit(c) = c - 55
        BY DEF HexDigit
      <4>2. QED
        BY <4>1
    <3>4. ASSUME NEW c, c \notin 48..57, c \notin 97..102, c \notin 65..70 PROVE HexDigit(c) = -1
      BY <3>4 DEF HexDigit
    <3>5. ASSUME NEW c PROVE HexDigit(c) \in Int /\ HexDigit(c) <= 15
      <4>1. CASE c \in 48..57
        BY <3>1, <4>1
      <4>2. CASE c \in 97..102
        BY <3>2, <4>2
      <4>3. CASE c \in 65..70
        BY <3>3, <4>3
      <4>4. CASE c \notin 48..57 /\ c \notin 97..102 /\ c \notin 65..70
        <5>1. HexDigit(c) = -1
          BY <3>4, <4>4
        <5>2. QED
          BY <5>1
      <4>5. QED
        BY <4>1, <4>2, <4>3, <4>4
    <3>6. QED
      BY <3>5
  <2>2. \A u, v \in Int : u >= 0 /\ v >= 0 /\ u <= 15 /\ v <= 15 => u * 16 + v \in Byte
    BY DEF Byte
  <2> DEFINE u == HexDigit(raw[4])
             v == HexDigit(raw[5])
             w == spm_byte_token_value(raw)
  <2>3. u \in Int /\ u <= 15 /\ v \in Int /\ v <= 15
    BY <2>1
  <2>4. w = -1 \/ (w = u * 16 + v /\ u >= 0 /\ v >= 0)
    BY DEF spm_byte_token_value
  <2> HIDE DEF u, v, w
  <2>5. w >= 0 => w \in Byte
    <3>1. CASE w = -1
      BY <3>1
    <3>2. CASE w = u * 16 + v /\ u >= 0 /\ v >= 0
      <4>1. u * 16 + v \in Byte
        BY <2>2, <2>3, <3>2
      <4>2. QED
        BY <3>2, <4>1
    <3>3. QED
      BY <2>4, <3>1, <3>2
  <2>6. QED
    BY <2>5 DEF w
<1>14. QED
  BY <1>9, <1>12, <1>13

-----------------------------------------------------------------------------
(* Loops that replace a state until they stop.                             *)

\* f is what such a loop computes: v of the state where it stops.
Loops(f, S, stop, nxt, v) == f = [x \in S |-> IF x \in stop THEN v[x] ELSE f[nxt[x]]]

(* Such a function exists.                                                 *)
LEMMA LoopExists ==
  ASSUME NEW S, NEW stop, NEW nxt \in [S -> S], NEW v
  PROVE  \E f : Loops(f, S, stop, nxt, v)
<1> DEFINE Closed(P) == \A z \in P : z \in stop \/ nxt[z] \in P
           E(x) == {y \in S : y \in stop /\ \A P \in SUBSET S : x \in P /\ Closed(P) => y \in P}
           Of(A) == CHOOSE y : y \in A
           f == [x \in S |-> v[Of(E(x))]]
<1>1. ASSUME NEW x \in S, x \in stop PROVE E(x) = {x}
  <2>1. {x} \in SUBSET S /\ x \in {x} /\ Closed({x})
    BY <1>1
  <2>2. ASSUME NEW y \in E(x) PROVE y = x
    <3>1. y \in {x}
      BY <2>1
    <3>2. QED
      BY <3>1
  <2>3. x \in E(x)
    BY <1>1
  <2> HIDE DEF E
  <2>4. QED
    BY <2>2, <2>3
<1>2. ASSUME NEW x \in S, x \notin stop PROVE E(x) = E(nxt[x])
  <2>1. nxt[x] \in S
    OBVIOUS
  <2>2. ASSUME NEW y \in E(x) PROVE y \in E(nxt[x])
    <3>1. ASSUME NEW P \in SUBSET S, nxt[x] \in P, Closed(P) PROVE y \in P
      <4>1. P \cup {x} \in SUBSET S /\ x \in P \cup {x}
        OBVIOUS
      <4>2. Closed(P \cup {x})
        BY <3>1
      <4>3. y \in P \cup {x} /\ y # x
        BY <1>2, <4>1, <4>2
      <4>4. QED
        BY <4>3
    <3>2. QED
      BY <3>1
  <2>3. ASSUME NEW y \in E(nxt[x]) PROVE y \in E(x)
    <3>1. ASSUME NEW P \in SUBSET S, x \in P, Closed(P) PROVE y \in P
      <4>1. nxt[x] \in P
        BY <1>2, <3>1
      <4>2. QED
        BY <3>1, <4>1
    <3>2. QED
      BY <3>1
  <2> HIDE DEF E
  <2>4. QED
    BY <2>2, <2>3
<1> HIDE DEF E
<1>3. ASSUME NEW x \in S PROVE f[x] = IF x \in stop THEN v[x] ELSE f[nxt[x]]
  <2>1. CASE x \in stop
    <3>1. Of({x}) = x
      OBVIOUS
    <3> HIDE DEF Of
    <3>2. QED
      BY <1>1, <2>1, <3>1
  <2>2. CASE x \notin stop
    <3>1. nxt[x] \in S
      OBVIOUS
    <3> HIDE DEF Of
    <3>2. QED
      BY <1>2, <2>2, <3>1
  <2>3. QED
    BY <2>1, <2>2
<1>4. f = [x \in S |-> IF x \in stop THEN v[x] ELSE f[nxt[x]]]
  <2>1. f = [x \in S |-> f[x]]
    OBVIOUS
  <2> HIDE DEF f
  <2>2. QED
    BY <1>3, <2>1
<1> HIDE DEF f
<1>5. QED
  BY <1>4 DEF Loops

\* Its steps stay in I, and the rank r goes down.
Descends(S, stop, nxt, r, I) ==
  /\ nxt \in [S -> S] /\ r \in [S -> Nat] /\ I \in SUBSET S
  /\ \A x \in I : x \notin stop => nxt[x] \in I /\ r[nxt[x]] < r[x]

(* A loop whose rank goes down stops, in a state of a kind that its steps  *)
(* keep.                                                                   *)
LEMMA LoopStops ==
  ASSUME NEW S, NEW stop, NEW nxt, NEW v, NEW f, Loops(f, S, stop, nxt, v),
         NEW r, NEW I, Descends(S, stop, nxt, r, I), NEW a \in I
  PROVE  \E y \in I : y \in stop /\ f[a] = v[y]
<1> DEFINE Good(x) == \E y \in I : y \in stop /\ f[x] = v[y]
           T == {n \in Nat : \E x \in I : r[x] = n /\ ~Good(x)}
<1>1. /\ nxt \in [S -> S] /\ r \in [S -> Nat] /\ I \in SUBSET S
      /\ \A x \in I : x \notin stop => nxt[x] \in I /\ r[nxt[x]] < r[x]
  BY DEF Descends
<1>2. \A x \in S : f[x] = IF x \in stop THEN v[x] ELSE f[nxt[x]]
  BY DEF Loops
<1>3. T = {}
  <2>1. SUFFICES ASSUME T # {} PROVE FALSE
    OBVIOUS
  <2>2. PICK n \in T : \A m \in T : n <= m
    <3>1. T \subseteq Nat
      OBVIOUS
    <3> HIDE DEF T
    <3>2. QED
      BY <2>1, <3>1, LeastNat
  <2>3. PICK x \in I : r[x] = n /\ ~Good(x)
    OBVIOUS
  <2>4. x \in S /\ r[x] \in Nat
    BY <1>1
  <2>5. x \notin stop
    BY <1>2, <2>3, <2>4
  <2>6. nxt[x] \in I /\ r[nxt[x]] \in Nat /\ r[nxt[x]] < n
    BY <1>1, <2>3, <2>5
  <2>7. f[x] = f[nxt[x]]
    BY <1>2, <2>4, <2>5
  <2>8. ~Good(nxt[x])
    BY <2>3, <2>7
  <2>9. r[nxt[x]] \in T
    BY <2>6, <2>8
  <2>10. n <= r[nxt[x]] /\ n \in Nat
    BY <2>2, <2>9
  <2>11. QED
    BY <2>6, <2>10
<1>4. a \in S /\ r[a] \in Nat
  BY <1>1
<1>5. QED
  BY <1>3, <1>4

\* f is what a loop over 1..n makes of a, step by step.
Iterates(f, n, a, st) == f = [i \in 0..n |-> IF i = 0 THEN a ELSE st[<<f[i - 1], i>>]]

(* Such a function exists.                                                 *)
LEMMA IterateExists ==
  ASSUME NEW n \in Nat, NEW X, NEW a \in X, NEW st \in [X \X (1..n) -> X]
  PROVE  \E f : Iterates(f, n, a, st)
<1> DEFINE Is(f, m) == f[0] = a /\ \A i \in 1..m : f[i] = st[<<f[i - 1], i>>]
           T == {m \in 0..n : \E f \in [0..m -> X] : Is(f, m)}
<1>1. 0 \in T
  <2> DEFINE g == [i \in 0..0 |-> a]
  <2>1. g \in [0..0 -> X] /\ Is(g, 0)
    OBVIOUS
  <2>2. 0 \in 0..n
    OBVIOUS
  <2> HIDE DEF g, Is
  <2>3. QED
    BY <2>1, <2>2
<1>2. ASSUME NEW m \in 0..(n - 1), m \in T PROVE m + 1 \in T
  <2>1. PICK f \in [0..m -> X] : Is(f, m)
    BY <1>2
  <2> DEFINE e == st[<<f[m], m + 1>>]
             g == [i \in 0..(m + 1) |-> IF i = m + 1 THEN e ELSE f[i]]
  <2>2. m \in 0..m /\ m + 1 \in 1..n /\ m + 1 \in 0..n
    OBVIOUS
  <2>3. f[m] \in X
    BY <2>2
  <2>4. e \in X
    BY <2>2, <2>3
  <2> HIDE DEF e
  <2>5. g \in [0..(m + 1) -> X]
    BY <2>4
  <2>6. \A i \in 0..m : g[i] = f[i]
    OBVIOUS
  <2>7. g[m + 1] = e
    OBVIOUS
  <2> HIDE DEF g
  <2>8. g[0] = a
    BY <2>1, <2>6
  <2>9. ASSUME NEW i \in 1..(m + 1) PROVE g[i] = st[<<g[i - 1], i>>]
    <3>1. CASE i = m + 1
      <4>1. i - 1 = m
        BY <3>1
      <4>2. g[i - 1] = f[m]
        BY <2>2, <2>6, <4>1
      <4>3. QED
        BY <2>7, <3>1, <4>2 DEF e
    <3>2. CASE i # m + 1
      <4>1. i \in 1..m /\ i \in 0..m /\ i - 1 \in 0..m
        BY <3>2
      <4>2. g[i] = f[i] /\ g[i - 1] = f[i - 1]
        BY <2>6, <4>1
      <4>3. f[i] = st[<<f[i - 1], i>>]
        BY <2>1, <4>1
      <4>4. QED
        BY <4>2, <4>3
    <3>3. QED
      BY <3>1, <3>2
  <2>10. Is(g, m + 1)
    BY <2>8, <2>9
  <2> HIDE DEF Is
  <2>11. QED
    BY <2>2, <2>5, <2>10
<1>3. n \in T
  <2>1. \A m \in 0..(n - 1) : m \in T => m + 1 \in T
    BY <1>2
  <2> HIDE DEF T
  <2>2. \A m \in 0..n : m \in T
    BY <1>1, <2>1, UpTo
  <2>3. QED
    BY <2>2
<1>4. PICK f \in [0..n -> X] : Is(f, n)
  BY <1>3
<1>5. ASSUME NEW i \in 0..n PROVE f[i] = IF i = 0 THEN a ELSE st[<<f[i - 1], i>>]
  BY <1>4
<1>6. QED
  BY <1>4, <1>5 DEF Iterates

(* Its values are of the kind that the steps make.                         *)
LEMMA IterateType ==
  ASSUME NEW n \in Nat, NEW X, NEW a \in X, NEW st \in [X \X (1..n) -> X],
         NEW f, Iterates(f, n, a, st)
  PROVE  \A i \in 0..n : f[i] \in X
<1> DEFINE T == {i \in 0..n : f[i] \in X}
<1>1. \A i \in 0..n : f[i] = IF i = 0 THEN a ELSE st[<<f[i - 1], i>>]
  BY DEF Iterates
<1>2. 0 \in T
  <2>1. 0 \in 0..n
    OBVIOUS
  <2>2. f[0] = a
    BY <1>1, <2>1
  <2>3. QED
    BY <2>1, <2>2
<1>3. ASSUME NEW i \in 0..(n - 1), i \in T PROVE i + 1 \in T
  <2>1. i + 1 \in 0..n /\ i + 1 \in 1..n /\ (i + 1) - 1 = i /\ i + 1 # 0
    OBVIOUS
  <2>2. f[i] \in X
    BY <1>3
  <2>3. f[i + 1] = st[<<f[i], i + 1>>]
    BY <1>1, <2>1
  <2>4. st[<<f[i], i + 1>>] \in X
    BY <2>1, <2>2
  <2>5. QED
    BY <2>1, <2>3, <2>4
<1>4. \A i \in 0..(n - 1) : i \in T => i + 1 \in T
  BY <1>3
<1> HIDE DEF T
<1>5. \A i \in 0..n : i \in T
  BY <1>2, <1>4, UpTo
<1>6. QED
  BY <1>5 DEF T

-----------------------------------------------------------------------------
(* The sampler.                                                            *)

(* A swap moves what is there.                                             *)
LEMMA SwapType ==
  ASSUME NEW D, NEW A, NEW h \in [D -> A], NEW i \in D, NEW j \in D
  PROVE  Swap(h, i, j) \in [D -> A]
  BY DEF Swap

(* A heap that is repaired upwards keeps its size and its kind of tokens.  *)
LEMMA SiftUpType ==
  ASSUME NEW m \in Nat, NEW L \in Nat \ {0}, NEW heap \in [1..L -> 1..m], NEW vals
  PROVE  SiftUp(heap, vals) \in [1..L -> 1..m]
<1> DEFINE S == (1..L) \X [1..L -> Nat]
           I == (1..L) \X [1..L -> 1..m]
           Moves(c, h) == c > 1 /\ vals[h[c \div 2]] > vals[h[c]]
           stop == {x \in S : ~Moves(x[1], x[2])}
           nxt == [x \in S |-> IF x \in stop THEN x
                               ELSE <<x[1] \div 2, Swap(x[2], x[1], x[1] \div 2)>>]
           v == [x \in S |-> x[2]]
           r == [x \in S |-> x[1]]
           Body(f, x) == LET c == x[1]
                             h == x[2]
                         IN IF c > 1 /\ vals[h[c \div 2]] > vals[h[c]]
                            THEN f[<<c \div 2, Swap(h, c, c \div 2)>>] ELSE h
           U == CHOOSE f : f = [x \in S |-> Body(f, x)]
<1>1. DOMAIN heap = 1..L /\ Len(heap) = L /\ heap \in [1..L -> Nat]
  OBVIOUS
<1>2. \A c \in 1..L : c > 1 => c \div 2 \in 1..L /\ c \div 2 < c
  OBVIOUS
<1>3. ASSUME NEW A, NEW x \in (1..L) \X [1..L -> A], x[1] > 1
      PROVE  <<x[1] \div 2, Swap(x[2], x[1], x[1] \div 2)>> \in (1..L) \X [1..L -> A]
  <2>1. x[1] \in 1..L /\ x[2] \in [1..L -> A] /\ x[1] \div 2 \in 1..L
    BY <1>2, <1>3
  <2>2. Swap(x[2], x[1], x[1] \div 2) \in [1..L -> A]
    BY <2>1, SwapType
  <2>3. QED
    BY <2>1, <2>2
<1>4. \A x \in S : x \notin stop => x[1] > 1
  OBVIOUS
<1>5. \A x \in S : x \notin stop => nxt[x] = <<x[1] \div 2, Swap(x[2], x[1], x[1] \div 2)>>
  <2> HIDE DEF S, stop
  <2>1. QED
    OBVIOUS
<1>6. nxt \in [S -> S]
  <2>1. ASSUME NEW x \in S, x \notin stop
        PROVE  <<x[1] \div 2, Swap(x[2], x[1], x[1] \div 2)>> \in S
    <3>1. x[1] > 1
      BY <1>4, <2>1
    <3>2. QED
      BY <1>3, <3>1
  <2> HIDE DEF S, stop
  <2>2. QED
    BY <2>1
<1>7. v = [x \in S |-> x[2]] /\ r \in [S -> Nat] /\ \A x \in S : r[x] = x[1]
  OBVIOUS
<1>8. I \in SUBSET S
  OBVIOUS
<1>9. ASSUME NEW x \in I, x \notin stop PROVE nxt[x] \in I /\ r[nxt[x]] < r[x]
  <2>1. x \in S /\ x[1] \in 1..L /\ x[1] > 1
    BY <1>4, <1>8, <1>9
  <2>2. nxt[x] = <<x[1] \div 2, Swap(x[2], x[1], x[1] \div 2)>>
    BY <1>5, <1>9, <2>1
  <2>3. nxt[x] \in I
    BY <1>3, <2>1, <2>2
  <2>4. nxt[x] \in S /\ nxt[x][1] = x[1] \div 2
    <3> HIDE DEF S, I, nxt
    <3>1. QED
      BY <1>8, <2>2, <2>3
  <2>5. r[nxt[x]] = x[1] \div 2 /\ r[x] = x[1]
    BY <1>7, <2>1, <2>4
  <2>6. QED
    BY <1>2, <2>1, <2>3, <2>5
<1>10. ASSUME NEW f, NEW x \in S
       PROVE  Body(f, x) = IF x \in stop THEN v[x] ELSE f[nxt[x]]
  <2>1. x \in stop <=> ~Moves(x[1], x[2])
    OBVIOUS
  <2>2. v[x] = x[2]
    BY <1>7
  <2>3. Body(f, x) = IF Moves(x[1], x[2])
                     THEN f[<<x[1] \div 2, Swap(x[2], x[1], x[1] \div 2)>>] ELSE x[2]
    OBVIOUS
  <2> HIDE DEF S, stop, Moves, nxt, v, Body
  <2>4. QED
    BY <1>5, <2>1, <2>2, <2>3
<1> HIDE DEF S, I, stop, nxt, v, r, Moves
<1>11. PICK f : Loops(f, S, stop, nxt, v)
  BY <1>6, LoopExists
<1>12. f = [x \in S |-> Body(f, x)]
  <2> HIDE DEF Body
  <2>1. QED
    BY <1>10, <1>11 DEF Loops
<1>13. U = [x \in S |-> Body(U, x)]
  <2> HIDE DEF Body
  <2>1. QED
    BY <1>12
<1>14. SiftUp(heap, vals) = U[<<L, heap>>]
  BY <1>1 DEF SiftUp, S
<1> HIDE DEF U
<1>15. Loops(U, S, stop, nxt, v)
  <2> HIDE DEF Body
  <2>1. QED
    BY <1>10, <1>13 DEF Loops
<1>16. <<L, heap>> \in I
  BY DEF I
<1>17. PICK y \in I : y \in stop /\ U[<<L, heap>>] = v[y]
  <2>1. \A x \in I : x \notin stop => nxt[x] \in I /\ r[nxt[x]] < r[x]
    BY <1>9
  <2>2. Descends(S, stop, nxt, r, I)
    BY <1>6, <1>7, <1>8, <2>1 DEF Descends
  <2> DEFINE a == <<L, heap>>
  <2>3. a \in I
    BY <1>16
  <2> HIDE DEF a
  <2>4. \E y \in I : y \in stop /\ U[a] = v[y]
    BY <1>15, <2>2, <2>3, LoopStops
  <2>5. QED
    BY <2>4 DEF a
<1>18. v[y] \in [1..L -> 1..m]
  BY <1>7, <1>8, <1>17 DEF I
<1>19. QED
  BY <1>14, <1>17, <1>18

(* The smallest of a node and its children is one of them.                 *)
LEMMA SmallerIs ==
  ASSUME NEW L \in Nat, NEW A, NEW h \in [1..L -> A], NEW p \in 1..L, NEW vals
  PROVE  Smaller(h, p, vals) \in 1..L /\ Smaller(h, p, vals) >= p
<1> DEFINE l == IF 2 * p <= L /\ vals[h[2 * p]] < vals[h[p]] THEN 2 * p ELSE p
<1>1. Len(h) = L
  OBVIOUS
<1>2. l \in 1..L /\ l >= p
  OBVIOUS
<1>3. Smaller(h, p, vals) = IF 2 * p + 1 <= L /\ vals[h[2 * p + 1]] < vals[h[l]]
                            THEN 2 * p + 1 ELSE l
  BY <1>1 DEF Smaller
<1> HIDE DEF l
<1>4. 2 * p + 1 >= p /\ (2 * p + 1 <= L => 2 * p + 1 \in 1..L)
  OBVIOUS
<1>5. QED
  BY <1>2, <1>3, <1>4

(* A heap that is repaired downwards keeps them as well.                   *)
LEMMA SiftDownType ==
  ASSUME NEW m \in Nat, NEW L \in Nat \ {0}, NEW heap \in [1..L -> 1..m], NEW vals
  PROVE  SiftDown(heap, vals) \in [1..L -> 1..m]
<1> DEFINE S == (1..L) \X [1..L -> Nat]
           I == (1..L) \X [1..L -> 1..m]
           To(x) == Smaller(x[2], x[1], vals)
           stop == {x \in S : To(x) = x[1]}
           nxt == [x \in S |-> <<To(x), Swap(x[2], x[1], To(x))>>]
           v == [x \in S |-> x[2]]
           r == [x \in S |-> L - x[1]]
           Body(f, x) == LET p == x[1]
                             h == x[2]
                         IN IF Smaller(h, p, vals) = p THEN h
                            ELSE f[<<Smaller(h, p, vals), Swap(h, p, Smaller(h, p, vals))>>]
           U == CHOOSE f : f = [x \in S |-> Body(f, x)]
<1>1. DOMAIN heap = 1..L /\ heap \in [1..L -> Nat]
  OBVIOUS
<1>2. ASSUME NEW A, NEW x \in (1..L) \X [1..L -> A]
      PROVE  /\ <<To(x), Swap(x[2], x[1], To(x))>> \in (1..L) \X [1..L -> A]
             /\ To(x) \in 1..L /\ x[1] \in 1..L /\ To(x) >= x[1]
  <2>1. x[1] \in 1..L /\ x[2] \in [1..L -> A]
    OBVIOUS
  <2>2. To(x) \in 1..L /\ To(x) >= x[1]
    BY <2>1, SmallerIs
  <2>3. Swap(x[2], x[1], To(x)) \in [1..L -> A]
    BY <2>1, <2>2, SwapType
  <2> HIDE DEF To
  <2>4. QED
    BY <2>1, <2>2, <2>3
<1>3. ASSUME NEW f, NEW x
      PROVE  Body(f, x) = IF To(x) = x[1] THEN x[2] ELSE f[<<To(x), Swap(x[2], x[1], To(x))>>]
  OBVIOUS
<1> HIDE DEF To
<1>4. nxt \in [S -> S]
  <2>1. ASSUME NEW x \in S PROVE <<To(x), Swap(x[2], x[1], To(x))>> \in S
    BY <1>2
  <2> HIDE DEF S
  <2>2. QED
    BY <2>1
<1>5. \A x \in S : nxt[x] = <<To(x), Swap(x[2], x[1], To(x))>> /\ v[x] = x[2] /\ (x \in stop <=> To(x) = x[1])
  <2> HIDE DEF S
  <2>1. QED
    OBVIOUS
<1>6. r \in [S -> Nat] /\ \A x \in S : r[x] = L - x[1]
  OBVIOUS
<1>7. I \in SUBSET S
  OBVIOUS
<1>8. ASSUME NEW x \in I, x \notin stop PROVE nxt[x] \in I /\ r[nxt[x]] < r[x]
  <2>1. x \in S
    BY <1>7
  <2>2. <<To(x), Swap(x[2], x[1], To(x))>> \in I
    BY <1>2
  <2>3. To(x) \in 1..L /\ x[1] \in 1..L /\ To(x) >= x[1]
    BY <1>2
  <2>4. nxt[x] = <<To(x), Swap(x[2], x[1], To(x))>> /\ To(x) # x[1]
    BY <1>5, <1>8, <2>1
  <2> HIDE DEF S, I, nxt, r
  <2>5. nxt[x] \in I /\ nxt[x] \in S /\ nxt[x][1] = To(x)
    BY <1>7, <2>2, <2>4
  <2>6. r[nxt[x]] = L - To(x) /\ r[x] = L - x[1]
    BY <1>6, <2>1, <2>5
  <2>7. QED
    BY <2>3, <2>4, <2>5, <2>6
<1> HIDE DEF S, I, stop, nxt, v, r
<1>9. ASSUME NEW f, NEW x \in S
      PROVE  Body(f, x) = IF x \in stop THEN v[x] ELSE f[nxt[x]]
  <2> HIDE DEF Body
  <2>1. QED
    BY <1>3, <1>5
<1>10. PICK f : Loops(f, S, stop, nxt, v)
  BY <1>4, LoopExists
<1>11. f = [x \in S |-> Body(f, x)]
  <2> HIDE DEF Body
  <2>1. QED
    BY <1>9, <1>10 DEF Loops
<1>12. U = [x \in S |-> Body(U, x)]
  <2> HIDE DEF Body
  <2>1. QED
    BY <1>11
<1> DEFINE a == <<1, heap>>
<1>13. SiftDown(heap, vals) = U[a]
  BY <1>1 DEF SiftDown, S
<1>14. a \in I
  BY DEF I
<1> HIDE DEF U, a
<1>15. Loops(U, S, stop, nxt, v)
  <2> HIDE DEF Body
  <2>1. QED
    BY <1>9, <1>12 DEF Loops
<1>16. PICK y \in I : y \in stop /\ U[a] = v[y]
  <2>1. \A x \in I : x \notin stop => nxt[x] \in I /\ r[nxt[x]] < r[x]
    BY <1>8
  <2>2. Descends(S, stop, nxt, r, I)
    BY <1>4, <1>6, <1>7, <2>1 DEF Descends
  <2>3. QED
    BY <1>14, <1>15, <2>2, LoopStops
<1>17. v[y] \in [1..L -> 1..m]
  BY <1>5, <1>7, <1>16 DEF I
<1>18. QED
  BY <1>13, <1>16, <1>17

(* Sets of numbers have a least one, as Min takes it.                      *)
LEMMA MinIs ==
  ASSUME NEW T, T \subseteq Nat, T # {}
  PROVE  Min(T) \in T
<1>1. PICK x \in T : \A y \in T : x <= y
  BY LeastNat
<1>2. QED
  BY <1>1 DEF Min

(* Sets of numbers: none is less than Min.                                 *)
LEMMA MinLe ==
  ASSUME NEW x \in Nat, NEW y \in Nat
  PROVE  Min({x, y}) <= x
<1> DEFINE T == {x, y}
<1>1. PICK z \in T : \A u \in T : z <= u
  <2>1. T \subseteq Nat /\ T # {}
    OBVIOUS
  <2> HIDE DEF T
  <2>2. QED
    BY <2>1, LeastNat
<1>2. Min(T) \in T /\ \A u \in T : Min(T) <= u
  <2> HIDE DEF T
  <2>1. QED
    BY <1>1 DEF Min
<1>3. QED
  BY <1>2

(* One of the logits is the greatest.                                      *)
LEMMA GreatestIs ==
  ASSUME NEW n \in Nat \ {0}, NEW l \in [1..n -> Int]
  PROVE  \E t \in 1..n : \A u \in 1..n : l[u] <= l[t]
<1> DEFINE T == {m \in 0..n : m > 0 => \E t \in 1..m : \A u \in 1..m : l[u] <= l[t]}
<1>1. 0 \in T
  OBVIOUS
<1>2. ASSUME NEW m \in 0..(n - 1), m \in T PROVE m + 1 \in T
  <2>1. m + 1 \in 1..n /\ m + 1 \in 1..(m + 1) /\ m + 1 \in 0..n
    OBVIOUS
  <2>2. \A u \in 1..(m + 1) : u = m + 1 \/ u \in 1..m
    OBVIOUS
  <2>3. \A u \in 1..(m + 1) : l[u] \in Int
    BY <2>1
  <2>4. CASE m = 0
    <3>1. \A u \in 1..(m + 1) : u = m + 1
      BY <2>4
    <3>2. \A u \in 1..(m + 1) : l[u] <= l[m + 1]
      BY <2>1, <2>3, <3>1
    <3>3. QED
      BY <2>1, <3>2
  <2>5. CASE m > 0
    <3>1. PICK t \in 1..m : \A u \in 1..m : l[u] <= l[t]
      BY <1>2, <2>5
    <3>2. t \in 1..(m + 1)
      OBVIOUS
    <3>3. CASE l[m + 1] <= l[t]
      <4>1. \A u \in 1..(m + 1) : l[u] <= l[t]
        BY <2>2, <3>1, <3>3
      <4>2. QED
        BY <2>1, <3>2, <4>1
    <3>4. CASE ~(l[m + 1] <= l[t])
      <4>1. \A u \in 1..(m + 1) : l[u] <= l[m + 1]
        BY <2>1, <2>2, <2>3, <3>1, <3>2, <3>4
      <4>2. QED
        BY <2>1, <4>1
    <3>5. QED
      BY <3>3, <3>4
  <2>6. QED
    BY <2>4, <2>5
<1>3. n \in T
  <2>1. \A m \in 0..(n - 1) : m \in T => m + 1 \in T
    BY <1>2
  <2> HIDE DEF T
  <2>2. \A m \in 0..n : m \in T
    BY <1>1, <2>1, UpTo
  <2>3. QED
    BY <2>2
<1>4. QED
  BY <1>3

(* Penalties leave numbers.                                                *)
LEMMA PenalisedType ==
  ASSUME NEW D, NEW logits \in [D -> Int], NEW history \in Seq(Int), NEW p,
         p.repeat_last_n \in Nat, p.repeat_penalty \in Nat \ {0},
         p.frequency_penalty \in Int, p.presence_penalty \in Int
  PROVE  Penalised(logits, p, history) \in [D -> Int]
<1> DEFINE h == Window(p, history)
           k == Max({0, Len(history) - p.repeat_last_n})
<1>1. Len(history) \in Nat
  BY LenProperties
<1>2. k \in 0..Len(history)
  <2> DEFINE d == Len(history) - p.repeat_last_n
  <2>1. d \in Int /\ d <= Len(history)
    BY <1>1
  <2> HIDE DEF d
  <2>2. CASE d >= 0
    <3>1. {0, d} \subseteq 0..Len(history) /\ {0, d} # {}
      BY <1>1, <2>1, <2>2
    <3>2. Max({0, d}) \in {0, d}
      BY <1>1, <3>1, MaxIs
    <3>3. QED
      BY <3>1, <3>2 DEF d
  <2>3. CASE d < 0
    <3>1. Max({0, d}) = 0
      BY <2>1, <2>3 DEF Max
    <3>2. QED
      BY <1>1, <3>1 DEF d
  <2>4. QED
    BY <2>1, <2>2, <2>3
<1>3. h = SubSeq(history, k + 1, Len(history))
  BY DEF Window
<1> HIDE DEF k, h
<1>4. h \in Seq(Int)
  BY <1>2, <1>3, Parts
<1>5. \A t : Count(t, h) \in Nat
  <2>1. ASSUME NEW t PROVE Count(t, h) \in Nat
    <3> DEFINE K == {j \in DOMAIN h : h[j] = t}
    <3>1. Len(h) \in Nat /\ DOMAIN h = 1..Len(h)
      BY <1>4, LenProperties
    <3>2. IsFiniteSet(1..Len(h))
      <4>1. 1 \in Int /\ Len(h) \in Int
        BY <3>1
      <4>2. QED
        BY <4>1, FS_Interval
    <3>3. K \in SUBSET (1..Len(h)) /\ Count(t, h) = Cardinality(K)
      BY <3>1 DEF Count
    <3> HIDE DEF K
    <3>4. IsFiniteSet(K)
      BY <3>2, <3>3, FS_Subset
    <3>5. QED
      BY <3>3, <3>4, FS_CardinalityType
  <2>2. QED
    BY <2>1
<1> DEFINE P(t) == IF Count(t, h) = 0 THEN logits[t]
                   ELSE (IF logits[t] <= 0 THEN logits[t] * p.repeat_penalty
                         ELSE logits[t] \div p.repeat_penalty)
                        - (Count(t, h) * p.frequency_penalty + p.presence_penalty)
<1>6. Penalised(logits, p, history) = [t \in D |-> P(t)]
  BY DEF Penalised, h
<1>7. ASSUME NEW t \in D PROVE P(t) \in Int
  <2> DEFINE c == Count(t, h)
             l == logits[t]
             q == p.repeat_penalty
             f == p.frequency_penalty
             e == p.presence_penalty
  <2>1. c \in Nat /\ l \in Int /\ q \in Nat \ {0} /\ f \in Int /\ e \in Int
    BY <1>5
  <2>2. P(t) = IF c = 0 THEN l ELSE (IF l <= 0 THEN l * q ELSE l \div q) - (c * f + e)
    OBVIOUS
  <2> HIDE DEF c, l, q, f, e, P
  <2>3. l * q \in Int /\ l \div q \in Int /\ c * f \in Int
    BY <2>1
  <2>4. (IF l <= 0 THEN l * q ELSE l \div q) \in Int
    BY <2>3
  <2>5. QED
    BY <2>1, <2>2, <2>3, <2>4
<1> HIDE DEF P
<1>8. QED
  BY <1>6, <1>7

\* No token is there twice; the same tokens, as often.
Distinct(h) == \A i, j \in DOMAIN h : h[i] = h[j] => i = j
SameTokens(g, h) == ToSet(g) = ToSet(h) /\ (Distinct(h) => Distinct(g))

(* It is the same tokens that are there after a swap.                      *)
LEMMA SwapSame ==
  ASSUME NEW D, NEW A, NEW h \in [D -> A], NEW i \in D, NEW j \in D
  PROVE  SameTokens(Swap(h, i, j), h)
<1> DEFINE g == Swap(h, i, j)
           to(k) == IF k = i THEN j ELSE IF k = j THEN i ELSE k
<1>1. g \in [D -> A] /\ \A k \in D : g[k] = IF k = j THEN h[i] ELSE IF k = i THEN h[j] ELSE h[k]
  BY DEF Swap
<1> HIDE DEF g
<1>2. \A k \in D : to(k) \in D /\ g[k] = h[to(k)] /\ to(to(k)) = k
  BY <1>1
<1>3. DOMAIN g = D /\ DOMAIN h = D
  BY <1>1
<1> HIDE DEF to
<1>4. ToSet(g) = ToSet(h)
  <2>1. \A k \in D : g[k] \in ToSet(h)
    BY <1>2, <1>3 DEF ToSet
  <2>2. \A k \in D : h[k] \in ToSet(g)
    <3>1. \A k \in D : h[k] = g[to(k)]
      BY <1>2
    <3>2. QED
      BY <1>2, <1>3, <3>1 DEF ToSet
  <2>3. QED
    BY <1>3, <2>1, <2>2 DEF ToSet
<1>5. ASSUME Distinct(h) PROVE Distinct(g)
  <2>1. ASSUME NEW x \in D, NEW y \in D, g[x] = g[y] PROVE x = y
    <3>1. h[to(x)] = h[to(y)] /\ to(x) \in D /\ to(y) \in D
      BY <1>2, <2>1
    <3>2. to(x) = to(y)
      BY <1>3, <1>5, <3>1 DEF Distinct
    <3>3. QED
      BY <1>2, <3>2
  <2>2. QED
    BY <1>3, <2>1 DEF Distinct
<1>6. QED
  BY <1>4, <1>5 DEF g, SameTokens

\* The values of a heap's tokens, and the order of a heap: a node is not above
\* its children.
Keys(h, vals) == [k \in DOMAIN h |-> vals[h[k]]]
HeapOrder(e) == \A k \in DOMAIN e : k > 1 => e[k \div 2] <= e[k]

\* The order but for the node c and what is above it, while c is on its way up,
\* and but for c and what is below it, while it is on its way down.
OrderBelow(e, c) ==
  /\ \A k \in DOMAIN e : k > 1 /\ k # c => e[k \div 2] <= e[k]
  /\ \A k \in DOMAIN e : k > 1 /\ c > 1 /\ k \div 2 = c => e[c \div 2] <= e[k]
OrderAbove(e, c) ==
  /\ \A k \in DOMAIN e : k > 1 /\ k \div 2 # c => e[k \div 2] <= e[k]
  /\ \A k \in DOMAIN e : k > 1 /\ c > 1 /\ k \div 2 = c => e[c \div 2] <= e[k]

(* Halves.                                                                 *)
LEMMA Halves == \A k \in Nat : k > 1 => k \div 2 \in 1..k /\ k \div 2 < k
  OBVIOUS

(* One round upwards.                                                      *)
LEMMA UpRound ==
  ASSUME NEW L \in Nat, NEW e \in [1..L -> Nat], NEW c \in 1..L, c > 1, OrderBelow(e, c),
         e[c \div 2] > e[c], NEW g \in [1..L -> Nat],
         g[c] = e[c \div 2], g[c \div 2] = e[c],
         \A k \in 1..L : k # c /\ k # c \div 2 => g[k] = e[k]
  PROVE  OrderBelow(g, c \div 2)
<1> DEFINE q == c \div 2
<1>1. q \in 1..L /\ q < c
  BY Halves
<1>2. g[c] = e[q] /\ g[q] = e[c] /\ e[q] > e[c] /\ \A k \in 1..L : k # c /\ k # q => g[k] = e[k]
  OBVIOUS
<1>3. \A k \in 1..L : k > 1 => k \div 2 \in 1..L /\ k \div 2 < k
  BY Halves
<1>4. \A k \in 1..L : g[k] \in Nat /\ e[k] \in Nat
  OBVIOUS
<1>5. /\ \A k \in 1..L : k > 1 /\ k # c => e[k \div 2] <= e[k]
      /\ \A k \in 1..L : k > 1 /\ k \div 2 = c => e[q] <= e[k]
  BY DEF OrderBelow
<1>6. \A k \in 1..L : k > 1 /\ k \div 2 = q /\ k # c => e[q] <= e[k]
  BY <1>5
<1>7. q > 1 => q \div 2 \in 1..L /\ q \div 2 < q /\ e[q \div 2] <= e[q]
  BY <1>1, <1>3, <1>5
<1>8. c \div 2 = q
  OBVIOUS
<1> HIDE DEF q
<1>9. ASSUME NEW k \in 1..L, k > 1, k # q PROVE g[k \div 2] <= g[k]
  <2> DEFINE d == k \div 2
  <2>1. d \in 1..L /\ d < k
    BY <1>3, <1>9
  <2>2. CASE k = c
    BY <1>1, <1>2, <1>4, <1>8, <2>2
  <2>3. CASE k # c
    <3>1. g[k] = e[k] /\ e[d] <= e[k]
      BY <1>2, <1>5, <1>9, <2>3
    <3>2. CASE d = c
      <4>1. e[q] <= e[k]
        BY <1>5, <1>9, <3>2
      <4>2. QED
        BY <1>2, <3>1, <3>2, <4>1
    <3> HIDE DEF d
    <3>3. CASE d = q
      <4>1. g[d] = e[c] /\ e[q] > e[c] /\ e[q] <= e[k] /\ g[k] = e[k]
        BY <1>2, <3>1, <3>3
      <4>2. e[c] \in Nat /\ e[q] \in Nat /\ e[k] \in Nat
        BY <1>1, <1>4
      <4>3. e[c] <= e[k]
        BY <4>1, <4>2
      <4>4. QED
        BY <4>1, <4>3 DEF d
    <3>4. CASE d # c /\ d # q
      BY <1>2, <2>1, <3>1, <3>4 DEF d
    <3>5. QED
      BY <3>2, <3>3, <3>4
  <2>4. QED
    BY <2>2, <2>3
<1>10. ASSUME NEW k \in 1..L, k > 1, q > 1, k \div 2 = q PROVE g[q \div 2] <= g[k]
  <2> DEFINE r == q \div 2
  <2>1. r \in 1..L /\ r < q /\ e[r] <= e[q]
    BY <1>7, <1>10
  <2> HIDE DEF r
  <2>2. g[r] = e[r]
    BY <1>1, <1>2, <2>1
  <2>3. CASE k = c
    BY <1>2, <2>1, <2>2, <2>3 DEF r
  <2>4. CASE k # c
    <3>1. k # q
      BY <1>3, <1>10
    <3>2. g[k] = e[k] /\ e[q] <= e[k]
      BY <1>2, <1>6, <1>10, <2>4, <3>1
    <3>3. e[r] \in Nat /\ e[q] \in Nat /\ e[k] \in Nat
      BY <1>1, <1>4, <2>1
    <3>4. e[r] <= e[k]
      BY <2>1, <3>2, <3>3
    <3>5. QED
      BY <2>2, <3>2, <3>4 DEF r
  <2>5. QED
    BY <2>3, <2>4
<1>11. DOMAIN g = 1..L
  OBVIOUS
<1>12. QED
  BY <1>9, <1>10, <1>11 DEF OrderBelow, q

\* s is the least of a node c and its children; d is e with c and s exchanged.
LeastChild(e, c, s) ==
  /\ s \in DOMAIN e
  /\ \A k \in DOMAIN e : k > 1 /\ k \div 2 = c => e[s] <= e[k]
  /\ s # c => s > 1 /\ s \div 2 = c /\ e[s] < e[c]
Exchanged(d, e, c, s) ==
  d[c] = e[s] /\ d[s] = e[c] /\ \A k \in DOMAIN e : k # c /\ k # s => d[k] = e[k]

(* One round downwards.                                                    *)
LEMMA DownRound ==
  ASSUME NEW L \in Nat, NEW e \in [1..L -> Nat], NEW c \in 1..L, OrderAbove(e, c),
         NEW s \in 1..L, s # c, LeastChild(e, c, s),
         NEW g \in [1..L -> Nat], Exchanged(g, e, c, s)
  PROVE  OrderAbove(g, s)
<1>1. /\ s > 1 /\ s \div 2 = c /\ c < s /\ e[s] < e[c]
      /\ \A k \in 1..L : k > 1 /\ k \div 2 = c => e[s] <= e[k]
  BY Halves DEF LeastChild
<1>2. \A k \in 1..L : k > 1 => k \div 2 \in 1..L /\ k \div 2 < k
  BY Halves
<1>3. /\ \A k \in 1..L : k > 1 /\ k \div 2 # c => e[k \div 2] <= e[k]
      /\ \A k \in 1..L : k > 1 /\ c > 1 /\ k \div 2 = c => e[c \div 2] <= e[k]
  BY DEF OrderAbove
<1>4. g[c] = e[s] /\ g[s] = e[c] /\ \A k \in 1..L : k # c /\ k # s => g[k] = e[k]
  BY DEF Exchanged
<1>5. ASSUME NEW k \in 1..L, k > 1, k \div 2 # s PROVE g[k \div 2] <= g[k]
  <2> DEFINE d == k \div 2
  <2>1. d \in 1..L /\ d < k /\ d # s
    BY <1>2, <1>5
  <2>2. CASE k = c
    <3>1. e[d] <= e[s]
      BY <1>1, <1>3, <1>5, <2>2
    <3> HIDE DEF d
    <3>2. g[d] = e[d]
      BY <1>4, <2>1, <2>2
    <3>3. QED
      BY <1>4, <2>2, <3>1, <3>2 DEF d
  <2>3. CASE k = s
    <3>1. d = c
      BY <1>1, <2>3
    <3> HIDE DEF d
    <3>2. e[s] \in Nat /\ e[c] \in Nat /\ g[d] = e[s] /\ g[k] = e[c]
      BY <1>4, <2>3, <3>1
    <3>3. QED
      BY <1>1, <3>2 DEF d
  <2>4. CASE k # c /\ k # s /\ d = c
    <3>1. e[s] <= e[k]
      BY <1>1, <1>5, <2>4
    <3> HIDE DEF d
    <3>2. QED
      BY <1>4, <2>4, <3>1 DEF d
  <2>5. CASE k # c /\ k # s /\ d # c
    <3>1. e[d] <= e[k]
      BY <1>3, <1>5, <2>5
    <3> HIDE DEF d
    <3>2. g[d] = e[d] /\ g[k] = e[k]
      BY <1>4, <2>1, <2>5
    <3>3. QED
      BY <3>1, <3>2 DEF d
  <2>6. QED
    BY <2>2, <2>3, <2>4, <2>5
<1>6. ASSUME NEW k \in 1..L, k > 1, k \div 2 = s PROVE g[s \div 2] <= g[k]
  <2>1. s < k
    BY <1>2, <1>6
  <2>2. e[s] <= e[k]
    BY <1>1, <1>3, <1>6
  <2>3. g[k] = e[k]
    BY <1>4, <1>1, <2>1
  <2>4. QED
    BY <1>4, <1>1, <2>2, <2>3
<1>7. DOMAIN g = 1..L
  OBVIOUS
<1>8. QED
  BY <1>5, <1>6, <1>7 DEF OrderAbove

(* The root of a heap is the least.                                        *)
LEMMA RootLeast ==
  ASSUME NEW L \in Nat, NEW e \in [1..L -> Nat], HeapOrder(e)
  PROVE  \A k \in 1..L : e[1] <= e[k]
<1> DEFINE T == {k \in 1..L : ~(e[1] <= e[k])}
<1>1. SUFFICES ASSUME T # {} PROVE FALSE
  OBVIOUS
<1>2. PICK k \in T : \A x \in T : k <= x
  <2>1. T \subseteq Nat
    OBVIOUS
  <2> HIDE DEF T
  <2>2. QED
    BY <1>1, <2>1, LeastNat
<1>3. k \in 1..L /\ ~(e[1] <= e[k]) /\ k > 1
  OBVIOUS
<1> DEFINE d == k \div 2
<1>4. d \in 1..L /\ d < k
  BY <1>3, Halves
<1>5. e[d] <= e[k]
  BY <1>3 DEF HeapOrder
<1> HIDE DEF d
<1>6. d \notin T
  <2> HIDE DEF T
  <2>1. d \in T => k <= d
    BY <1>2
  <2>2. QED
    BY <1>3, <1>4, <2>1
<1>7. e[1] <= e[d]
  BY <1>4, <1>6
<1>8. e[1] \in Nat /\ e[d] \in Nat /\ e[k] \in Nat
  BY <1>3, <1>4
<1>9. QED
  BY <1>3, <1>5, <1>7, <1>8

\* A round of SiftUp at a place c of a heap h, and what is kept by the rounds.
UpMoves(c, h, vals) == c > 1 /\ vals[h[c \div 2]] > vals[h[c]]
UpClosed(I, L, heap, vals) ==
  /\ I \in SUBSET ((1..L) \X [1..L -> Nat]) /\ <<L, heap>> \in I
  /\ \A x \in I : UpMoves(x[1], x[2], vals) => <<x[1] \div 2, Swap(x[2], x[1], x[1] \div 2)>> \in I
UpEnds(y, heap, vals) == ~UpMoves(y[1], y[2], vals) /\ SiftUp(heap, vals) = y[2]

(* Repairing upwards is a loop: whatever its rounds keep holds at the end.  *)
LEMMA SiftUpLoop ==
  ASSUME NEW L \in Nat \ {0}, NEW heap \in [1..L -> Nat], NEW vals,
         NEW I, UpClosed(I, L, heap, vals)
  PROVE  \E y \in I : UpEnds(y, heap, vals)
<1> DEFINE S == (1..L) \X [1..L -> Nat]
           Moves(c, h) == UpMoves(c, h, vals)
           stop == {x \in S : ~Moves(x[1], x[2])}
           nxt == [x \in S |-> IF x \in stop THEN x
                               ELSE <<x[1] \div 2, Swap(x[2], x[1], x[1] \div 2)>>]
           v == [x \in S |-> x[2]]
           r == [x \in S |-> x[1]]
           Body(f, x) == LET c == x[1]
                             h == x[2]
                         IN IF c > 1 /\ vals[h[c \div 2]] > vals[h[c]]
                            THEN f[<<c \div 2, Swap(h, c, c \div 2)>>] ELSE h
           U == CHOOSE f : f = [x \in S |-> Body(f, x)]
<1>1. DOMAIN heap = 1..L /\ Len(heap) = L
  OBVIOUS
<1>2. \A c \in 1..L : c > 1 => c \div 2 \in 1..L /\ c \div 2 < c
  BY Halves
<1>3. ASSUME NEW x \in S, x[1] > 1
      PROVE  <<x[1] \div 2, Swap(x[2], x[1], x[1] \div 2)>> \in S
  <2>1. x[1] \in 1..L /\ x[2] \in [1..L -> Nat] /\ x[1] \div 2 \in 1..L
    BY <1>2, <1>3
  <2>2. Swap(x[2], x[1], x[1] \div 2) \in [1..L -> Nat]
    BY <2>1, SwapType
  <2>3. QED
    BY <2>1, <2>2
<1>4. \A x \in S : x \notin stop => x[1] > 1
  BY DEF UpMoves
<1>5. \A x \in S : x \notin stop => nxt[x] = <<x[1] \div 2, Swap(x[2], x[1], x[1] \div 2)>>
  <2> HIDE DEF S, stop
  <2>1. QED
    OBVIOUS
<1>6. nxt \in [S -> S]
  <2>1. ASSUME NEW x \in S, x \notin stop
        PROVE  <<x[1] \div 2, Swap(x[2], x[1], x[1] \div 2)>> \in S
    <3>1. x[1] > 1
      BY <1>4, <2>1
    <3>2. QED
      BY <1>3, <3>1
  <2> HIDE DEF S, stop
  <2>2. QED
    BY <2>1
<1>7. v = [x \in S |-> x[2]] /\ r \in [S -> Nat] /\ \A x \in S : r[x] = x[1]
  OBVIOUS
<1>8. \A x \in S : x \in stop <=> ~Moves(x[1], x[2])
  OBVIOUS
<1>9. ASSUME NEW x \in I, x \notin stop PROVE nxt[x] \in I /\ r[nxt[x]] < r[x]
  <2>1. x \in S
    BY DEF UpClosed
  <2>2. x[1] \in 1..L /\ x[1] > 1
    BY <1>4, <1>9, <2>1
  <2>3. nxt[x] = <<x[1] \div 2, Swap(x[2], x[1], x[1] \div 2)>>
    BY <1>5, <1>9, <2>1
  <2>4. Moves(x[1], x[2])
    BY <1>8, <1>9, <2>1
  <2>5. nxt[x] \in I
    BY <2>3, <2>4 DEF UpClosed
  <2>6. nxt[x] \in S /\ nxt[x][1] = x[1] \div 2
    <3> HIDE DEF nxt, S
    <3>1. I \in SUBSET S
      BY DEF S, UpClosed
    <3>2. QED
      BY <2>3, <2>5, <3>1
  <2>7. r[nxt[x]] = x[1] \div 2 /\ r[x] = x[1]
    BY <1>7, <2>1, <2>6
  <2>8. QED
    BY <1>2, <2>2, <2>5, <2>7
<1>10. ASSUME NEW f, NEW x \in S
       PROVE  Body(f, x) = IF x \in stop THEN v[x] ELSE f[nxt[x]]
  <2>1. v[x] = x[2]
    BY <1>7
  <2>2. Body(f, x) = IF Moves(x[1], x[2])
                     THEN f[<<x[1] \div 2, Swap(x[2], x[1], x[1] \div 2)>>] ELSE x[2]
    BY DEF UpMoves
  <2> HIDE DEF S, stop, Moves, nxt, v, Body
  <2>3. QED
    BY <1>5, <1>8, <2>1, <2>2
<1>11. I \in SUBSET S
  BY DEF UpClosed
<1> DEFINE a == <<L, heap>>
<1>12. a \in I
  BY DEF UpClosed
<1>13. SiftUp(heap, vals) = U[a]
  BY <1>1 DEF SiftUp
<1> HIDE DEF S, stop, nxt, v, r, Moves, a
<1>14. PICK f : Loops(f, S, stop, nxt, v)
  BY <1>6, LoopExists
<1>15. f = [x \in S |-> Body(f, x)]
  <2> HIDE DEF Body
  <2>1. QED
    BY <1>10, <1>14 DEF Loops
<1>16. U = [x \in S |-> Body(U, x)]
  <2> HIDE DEF Body
  <2>1. QED
    BY <1>15
<1> HIDE DEF U
<1>17. Loops(U, S, stop, nxt, v)
  <2> HIDE DEF Body
  <2>1. QED
    BY <1>10, <1>16 DEF Loops
<1>18. PICK y \in I : y \in stop /\ U[a] = v[y]
  <2>1. \A x \in I : x \notin stop => nxt[x] \in I /\ r[nxt[x]] < r[x]
    BY <1>9
  <2>2. Descends(S, stop, nxt, r, I)
    BY <1>6, <1>7, <1>11, <2>1 DEF Descends
  <2>3. QED
    BY <1>12, <1>17, <2>2, LoopStops
<1>19. y \in S
  BY <1>11
<1>20. v[y] = y[2] /\ ~Moves(y[1], y[2])
  BY <1>7, <1>8, <1>18, <1>19
<1>21. QED
  BY <1>13, <1>18, <1>20 DEF Moves, UpEnds

(* The values of a heap are numbers.                                       *)
LEMMA KeysType ==
  ASSUME NEW n \in Nat, NEW vals \in [1..n -> Nat], NEW L \in Nat, NEW h \in [1..L -> 1..n]
  PROVE  /\ Keys(h, vals) \in [1..L -> Nat]
         /\ \A k \in 1..L : Keys(h, vals)[k] = vals[h[k]]
  BY DEF Keys

(* A round of SiftUp.                                                      *)
LEMMA UpKeeps ==
  ASSUME NEW n \in Nat, NEW vals \in [1..n -> Nat], NEW L \in Nat, NEW h \in [1..L -> 1..n],
         NEW c \in 1..L, OrderBelow(Keys(h, vals), c), UpMoves(c, h, vals)
  PROVE  OrderBelow(Keys(Swap(h, c, c \div 2), vals), c \div 2)
<1> DEFINE q == c \div 2
           g == Swap(h, c, q)
           e == Keys(h, vals)
           d == Keys(g, vals)
<1>1. q \in 1..L
  BY Halves DEF UpMoves
<1>2. vals[h[q]] > vals[h[c]] /\ q = c \div 2 /\ c > 1
  BY DEF UpMoves
<1> HIDE DEF q
<1>3. /\ g \in [1..L -> 1..n] /\ g[c] = h[q] /\ g[q] = h[c]
      /\ \A k \in 1..L : k # c /\ k # q => g[k] = h[k]
  BY <1>1 DEF Swap
<1> HIDE DEF g
<1>4. /\ e \in [1..L -> Nat] /\ d \in [1..L -> Nat]
      /\ \A k \in 1..L : e[k] = vals[h[k]] /\ d[k] = vals[g[k]]
  BY <1>3, KeysType
<1>5. OrderBelow(e, c)
  OBVIOUS
<1> HIDE DEF e, d
<1>6. d[c] = e[q] /\ d[q] = e[c] /\ e[q] > e[c]
  <2>1. /\ d[c] = vals[g[c]] /\ e[c] = vals[h[c]]
        /\ d[q] = vals[g[q]] /\ e[q] = vals[h[q]]
    BY <1>1, <1>4
  <2>2. QED
    BY <1>2, <1>3, <2>1
<1>7. \A k \in 1..L : k # c /\ k # q => d[k] = e[k]
  BY <1>3, <1>4
<1>8. OrderBelow(d, q)
  BY <1>2, <1>4, <1>5, <1>6, <1>7, UpRound
<1>9. QED
  BY <1>8 DEF d, g, q

\* f is a heap of the L tokens of heap; heap is one but for its last token.
Repaired(f, heap, L, n, vals) ==
  /\ f \in [1..L -> 1..n]
  /\ Distinct(f) /\ ToSet(f) = ToSet(heap)
  /\ HeapOrder(Keys(f, vals))
ButLast(heap, L, vals) == \A k \in 1..(L - 1) : k > 1 => vals[heap[k \div 2]] <= vals[heap[k]]

(* A heap with a new token at its end is repaired: the same tokens, in the *)
(* order of a heap.                                                        *)
LEMMA SiftUpIs ==
  ASSUME NEW n \in Nat, NEW vals \in [1..n -> Nat], NEW L \in Nat \ {0},
         NEW heap \in [1..L -> 1..n], Distinct(heap), ButLast(heap, L, vals)
  PROVE  Repaired(SiftUp(heap, vals), heap, L, n, vals)
<1> DEFINE H == {h \in [1..L -> 1..n] : Distinct(h) /\ ToSet(h) = ToSet(heap)}
           I == {x \in (1..L) \X H : OrderBelow(Keys(x[2], vals), x[1])}
<1>1. I \in SUBSET ((1..L) \X [1..L -> Nat]) /\ heap \in [1..L -> Nat]
  <2>1. \A h \in [1..L -> 1..n] : h \in [1..L -> Nat]
    OBVIOUS
  <2>2. H \subseteq [1..L -> Nat]
    BY <2>1
  <2>3. I \subseteq (1..L) \X H
    OBVIOUS
  <2> HIDE DEF H, I
  <2>4. I \subseteq (1..L) \X [1..L -> Nat]
    BY <2>2, <2>3
  <2>5. QED
    BY <2>1, <2>4
<1>2. \A h \in [1..L -> 1..n] : Keys(h, vals) \in [1..L -> Nat] /\ \A k \in 1..L : Keys(h, vals)[k] = vals[h[k]]
  BY KeysType
<1>3. <<L, heap>> \in I
  <2> DEFINE e == Keys(heap, vals)
  <2>1. e \in [1..L -> Nat] /\ \A k \in 1..L : e[k] = vals[heap[k]]
    BY <1>2
  <2> HIDE DEF e
  <2>2. ASSUME NEW k \in 1..L, k > 1, k # L PROVE e[k \div 2] <= e[k]
    <3>1. k \in 1..(L - 1) /\ k \div 2 \in 1..L
      BY <2>2, Halves
    <3>2. vals[heap[k \div 2]] <= vals[heap[k]]
      BY <2>2, <3>1 DEF ButLast
    <3>3. QED
      BY <2>1, <3>1, <3>2
  <2>3. ASSUME NEW k \in 1..L, k > 1, k \div 2 = L PROVE FALSE
    BY <2>3, Halves
  <2>4. DOMAIN e = 1..L
    BY <2>1
  <2>5. OrderBelow(e, L)
    BY <2>2, <2>3, <2>4 DEF OrderBelow
  <2>6. <<L, heap>> \in (1..L) \X H
    OBVIOUS
  <2>7. QED
    BY <2>5, <2>6 DEF e
<1>4. ASSUME NEW x \in I, UpMoves(x[1], x[2], vals)
      PROVE  <<x[1] \div 2, Swap(x[2], x[1], x[1] \div 2)>> \in I
  <2>1. /\ x[1] \in 1..L /\ x[2] \in [1..L -> 1..n] /\ Distinct(x[2])
        /\ ToSet(x[2]) = ToSet(heap) /\ OrderBelow(Keys(x[2], vals), x[1])
    OBVIOUS
  <2>2. PICK c \in 1..L, h \in [1..L -> 1..n] : c = x[1] /\ h = x[2]
    BY <2>1
  <2>3. UpMoves(c, h, vals) /\ Distinct(h) /\ ToSet(h) = ToSet(heap) /\ OrderBelow(Keys(h, vals), c)
    BY <1>4, <2>1, <2>2
  <2> HIDE DEF I
  <2> DEFINE q == c \div 2
             g == Swap(h, c, q)
             z == <<q, g>>
  <2>4. q \in 1..L
    <3>1. c > 1 /\ c \in 1..L
      BY <2>3 DEF UpMoves
    <3>2. QED
      BY <3>1, Halves
  <2>5. OrderBelow(Keys(g, vals), q)
    BY <2>3, UpKeeps
  <2> HIDE DEF q
  <2>6. g \in H
    <3>1. g \in [1..L -> 1..n]
      BY <2>4, SwapType
    <3>2. ToSet(g) = ToSet(h) /\ Distinct(g)
      <4>1. SameTokens(g, h)
        BY <2>4, SwapSame
      <4> HIDE DEF g
      <4>2. QED
        BY <2>3, <4>1 DEF SameTokens
    <3> HIDE DEF g
    <3>3. QED
      BY <2>3, <3>1, <3>2
  <2> HIDE DEF g
  <2>7. z \in (1..L) \X H /\ z[1] = q /\ z[2] = g
    BY <2>4, <2>6
  <2> HIDE DEF z, H
  <2>8. z \in I
    BY <2>5, <2>7 DEF I
  <2>9. QED
    BY <2>2, <2>8 DEF z, q, g
<1> HIDE DEF I
<1>5. PICK y \in I : UpEnds(y, heap, vals)
  <2> HIDE DEF H
  <2>1. UpClosed(I, L, heap, vals)
    BY <1>1, <1>3, <1>4 DEF UpClosed
  <2>2. QED
    BY <1>1, <2>1, SiftUpLoop
<1> DEFINE h == y[2]
           c == y[1]
           e == Keys(h, vals)
<1>6. c \in 1..L /\ h \in H /\ OrderBelow(e, c)
  BY DEF I
<1>7. h \in [1..L -> 1..n] /\ Distinct(h) /\ ToSet(h) = ToSet(heap)
  BY <1>6
<1>8. ~(c > 1 /\ vals[h[c \div 2]] > vals[h[c]])
  BY <1>5 DEF UpEnds, UpMoves
<1> HIDE DEF h, c
<1>9. e \in [1..L -> Nat] /\ \A k \in 1..L : e[k] = vals[h[k]]
  BY <1>2, <1>7
<1> HIDE DEF e
<1>10. ASSUME NEW k \in 1..L, k > 1 PROVE e[k \div 2] <= e[k]
  <2>1. CASE k # c
    BY <1>6, <1>9, <1>10, <2>1 DEF OrderBelow
  <2>2. CASE k = c
    <3>1. c > 1 /\ c \div 2 \in 1..L
      BY <1>10, <2>2, Halves
    <3>2. e[c \div 2] = vals[h[c \div 2]] /\ e[c] = vals[h[c]] /\ e[c] \in Nat /\ e[c \div 2] \in Nat
      BY <1>6, <1>9, <3>1
    <3>3. ~(e[c \div 2] > e[c])
      BY <1>8, <3>1, <3>2
    <3>4. QED
      BY <2>2, <3>2, <3>3
  <2>3. QED
    BY <2>1, <2>2
<1>11. HeapOrder(e)
  BY <1>9, <1>10 DEF HeapOrder
<1>12. SiftUp(heap, vals) = h
  BY <1>5 DEF UpEnds, h
<1>13. Repaired(h, heap, L, n, vals)
  BY <1>7, <1>11 DEF e, Repaired
<1>14. QED
  BY <1>12, <1>13

\* What the rounds of SiftDown keep.
DownClosed(I, L, heap, vals) ==
  /\ I \in SUBSET ((1..L) \X [1..L -> Nat]) /\ <<1, heap>> \in I
  /\ \A x \in I : Smaller(x[2], x[1], vals) # x[1] =>
       <<Smaller(x[2], x[1], vals), Swap(x[2], x[1], Smaller(x[2], x[1], vals))>> \in I
DownEnds(y, heap, vals) == Smaller(y[2], y[1], vals) = y[1] /\ SiftDown(heap, vals) = y[2]

(* Repairing downwards is a loop as well.                                  *)
LEMMA SiftDownLoop ==
  ASSUME NEW L \in Nat \ {0}, NEW heap \in [1..L -> Nat], NEW vals,
         NEW I, DownClosed(I, L, heap, vals)
  PROVE  \E y \in I : DownEnds(y, heap, vals)
<1> DEFINE S == (1..L) \X [1..L -> Nat]
           To(x) == Smaller(x[2], x[1], vals)
           stop == {x \in S : To(x) = x[1]}
           nxt == [x \in S |-> <<To(x), Swap(x[2], x[1], To(x))>>]
           v == [x \in S |-> x[2]]
           r == [x \in S |-> L - x[1]]
           Body(f, x) == LET p == x[1]
                             h == x[2]
                         IN IF Smaller(h, p, vals) = p THEN h
                            ELSE f[<<Smaller(h, p, vals), Swap(h, p, Smaller(h, p, vals))>>]
           U == CHOOSE f : f = [x \in S |-> Body(f, x)]
<1>1. DOMAIN heap = 1..L
  OBVIOUS
<1>2. ASSUME NEW x \in S
      PROVE  /\ <<To(x), Swap(x[2], x[1], To(x))>> \in S
             /\ To(x) \in 1..L /\ x[1] \in 1..L /\ To(x) >= x[1]
  <2>1. x[1] \in 1..L /\ x[2] \in [1..L -> Nat]
    OBVIOUS
  <2>2. To(x) \in 1..L /\ To(x) >= x[1]
    BY <2>1, SmallerIs
  <2>3. Swap(x[2], x[1], To(x)) \in [1..L -> Nat]
    BY <2>1, <2>2, SwapType
  <2> HIDE DEF To
  <2>4. QED
    BY <2>1, <2>2, <2>3
<1>3. ASSUME NEW f, NEW x
      PROVE  Body(f, x) = IF To(x) = x[1] THEN x[2] ELSE f[<<To(x), Swap(x[2], x[1], To(x))>>]
  OBVIOUS
<1>4. I \in SUBSET S
  BY DEF DownClosed
<1>5. \A x \in I : To(x) # x[1] => <<To(x), Swap(x[2], x[1], To(x))>> \in I
  BY DEF DownClosed
<1> DEFINE a == <<1, heap>>
<1>6. a \in I
  BY DEF DownClosed
<1>7. SiftDown(heap, vals) = U[a]
  BY <1>1 DEF SiftDown
<1> HIDE DEF To, a
<1>8. nxt \in [S -> S]
  <2>1. ASSUME NEW x \in S PROVE <<To(x), Swap(x[2], x[1], To(x))>> \in S
    BY <1>2
  <2> HIDE DEF S
  <2>2. QED
    BY <2>1
<1>9. \A x \in S : nxt[x] = <<To(x), Swap(x[2], x[1], To(x))>> /\ v[x] = x[2] /\ (x \in stop <=> To(x) = x[1])
  <2> HIDE DEF S
  <2>1. QED
    OBVIOUS
<1>10. r \in [S -> Nat] /\ \A x \in S : r[x] = L - x[1]
  OBVIOUS
<1>11. ASSUME NEW x \in I, x \notin stop PROVE nxt[x] \in I /\ r[nxt[x]] < r[x]
  <2>1. x \in S
    BY <1>4
  <2>2. To(x) \in 1..L /\ x[1] \in 1..L /\ To(x) >= x[1]
    BY <1>2, <2>1
  <2>3. nxt[x] = <<To(x), Swap(x[2], x[1], To(x))>> /\ To(x) # x[1]
    BY <1>9, <1>11, <2>1
  <2> HIDE DEF S, nxt, r
  <2>4. nxt[x] \in I
    BY <1>5, <2>3
  <2>5. nxt[x] \in S /\ nxt[x][1] = To(x)
    BY <1>4, <2>3, <2>4
  <2>6. r[nxt[x]] = L - To(x) /\ r[x] = L - x[1]
    BY <1>10, <2>1, <2>5
  <2>7. QED
    BY <2>2, <2>3, <2>4, <2>6
<1> HIDE DEF S, stop, nxt, v, r
<1>12. ASSUME NEW f, NEW x \in S
       PROVE  Body(f, x) = IF x \in stop THEN v[x] ELSE f[nxt[x]]
  <2> HIDE DEF Body
  <2>1. QED
    BY <1>3, <1>9
<1>13. PICK f : Loops(f, S, stop, nxt, v)
  BY <1>8, LoopExists
<1>14. f = [x \in S |-> Body(f, x)]
  <2> HIDE DEF Body
  <2>1. QED
    BY <1>12, <1>13 DEF Loops
<1>15. U = [x \in S |-> Body(U, x)]
  <2> HIDE DEF Body
  <2>1. QED
    BY <1>14
<1> HIDE DEF U
<1>16. Loops(U, S, stop, nxt, v)
  <2> HIDE DEF Body
  <2>1. QED
    BY <1>12, <1>15 DEF Loops
<1>17. PICK y \in I : y \in stop /\ U[a] = v[y]
  <2>1. \A x \in I : x \notin stop => nxt[x] \in I /\ r[nxt[x]] < r[x]
    BY <1>11
  <2>2. Descends(S, stop, nxt, r, I)
    BY <1>4, <1>8, <1>10, <2>1 DEF Descends
  <2>3. QED
    BY <1>6, <1>16, <2>2, LoopStops
<1>18. v[y] = y[2] /\ To(y) = y[1]
  BY <1>4, <1>9, <1>17
<1>19. QED
  BY <1>7, <1>17, <1>18 DEF DownEnds, To

(* Smaller finds it.                                                       *)
LEMMA SmallerLeast ==
  ASSUME NEW n \in Nat, NEW vals \in [1..n -> Nat], NEW L \in Nat, NEW h \in [1..L -> 1..n],
         NEW c \in 1..L
  PROVE  LeastChild(Keys(h, vals), c, Smaller(h, c, vals))
<1> DEFINE e == Keys(h, vals)
           l == IF 2 * c <= L /\ e[2 * c] < e[c] THEN 2 * c ELSE c
           s == IF 2 * c + 1 <= L /\ e[2 * c + 1] < e[l] THEN 2 * c + 1 ELSE l
<1>1. e \in [1..L -> Nat] /\ DOMAIN e = 1..L /\ \A k \in 1..L : e[k] = vals[h[k]]
  BY DEF Keys
<1>2. Smaller(h, c, vals) = s
  <2>1. Len(h) = L
    OBVIOUS
  <2> DEFINE m == IF 2 * c <= Len(h) /\ vals[h[2 * c]] < vals[h[c]] THEN 2 * c ELSE c
  <2>2. Smaller(h, c, vals) = IF 2 * c + 1 <= Len(h) /\ vals[h[2 * c + 1]] < vals[h[m]]
                              THEN 2 * c + 1 ELSE m
    BY DEF Smaller
  <2> HIDE DEF e
  <2>3. 2 * c <= L => 2 * c \in 1..L /\ e[2 * c] = vals[h[2 * c]]
    BY <1>1
  <2>4. 2 * c + 1 <= L => 2 * c + 1 \in 1..L /\ e[2 * c + 1] = vals[h[2 * c + 1]]
    BY <1>1
  <2>5. e[c] = vals[h[c]]
    BY <1>1
  <2>6. m = l
    BY <2>1, <2>3, <2>5
  <2>7. l \in 1..L
    BY <2>3
  <2>8. e[l] = vals[h[l]]
    BY <1>1, <2>7
  <2> HIDE DEF l, m
  <2>9. QED
    BY <2>1, <2>2, <2>4, <2>6, <2>8
<1> HIDE DEF e
<1>3. \A k \in 1..L : k > 1 /\ k \div 2 = c => k = 2 * c \/ k = 2 * c + 1
  OBVIOUS
<1>4. (2 * c) \div 2 = c /\ (2 * c + 1) \div 2 = c /\ 2 * c > 1
  OBVIOUS
<1>5. /\ l \in 1..L /\ e[l] <= e[c] /\ (2 * c <= L => e[l] <= e[2 * c])
      /\ l # c => l = 2 * c /\ e[l] < e[c]
  <2>1. CASE 2 * c <= L /\ e[2 * c] < e[c]
    <3>1. l = 2 * c /\ 2 * c \in 1..L /\ e[2 * c] \in Nat /\ e[c] \in Nat
      BY <1>1, <2>1
    <3> HIDE DEF l
    <3>2. QED
      BY <2>1, <3>1
  <2>2. CASE ~(2 * c <= L /\ e[2 * c] < e[c])
    <3>1. l = c /\ e[c] \in Nat /\ (2 * c <= L => e[2 * c] \in Nat /\ ~(e[2 * c] < e[c]))
      BY <1>1, <2>2
    <3> HIDE DEF l
    <3>2. QED
      BY <2>2, <3>1
  <2>3. QED
    BY <2>1, <2>2
<1> HIDE DEF l
<1>6. /\ s \in 1..L /\ (2 * c <= L => e[s] <= e[2 * c]) /\ (2 * c + 1 <= L => e[s] <= e[2 * c + 1])
      /\ s # c => (s = 2 * c \/ s = 2 * c + 1) /\ e[s] < e[c]
  <2>1. e[l] \in Nat /\ e[c] \in Nat /\ (2 * c <= L => e[2 * c] \in Nat) /\ (2 * c + 1 <= L => e[2 * c + 1] \in Nat)
    BY <1>1, <1>5
  <2>2. CASE 2 * c + 1 <= L /\ e[2 * c + 1] < e[l]
    <3>1. s = 2 * c + 1 /\ s \in 1..L /\ 2 * c <= L
      BY <2>2
    <3> HIDE DEF s
    <3>2. e[s] < e[l] /\ e[s] \in Nat
      BY <2>1, <2>2, <3>1
    <3>3. e[s] < e[c] /\ e[s] <= e[2 * c]
      <4>1. e[l] <= e[c] /\ e[l] <= e[2 * c] /\ e[2 * c] \in Nat
        BY <1>5, <2>1, <3>1
      <4>2. QED
        BY <2>1, <3>2, <4>1
    <3>4. e[s] <= e[2 * c + 1]
      BY <3>1, <3>2
    <3>5. QED
      BY <3>1, <3>3, <3>4
  <2>3. CASE ~(2 * c + 1 <= L /\ e[2 * c + 1] < e[l])
    <3>1. s = l
      BY <2>3
    <3> HIDE DEF s
    <3>2. 2 * c + 1 <= L => e[l] <= e[2 * c + 1]
      BY <2>1, <2>3
    <3>3. QED
      BY <1>5, <3>1, <3>2
  <2>4. QED
    BY <2>2, <2>3
<1> HIDE DEF s
<1>7. ASSUME NEW k \in 1..L, k > 1, k \div 2 = c PROVE e[s] <= e[k]
  <2>1. k = 2 * c \/ k = 2 * c + 1
    BY <1>3, <1>7
  <2>2. CASE k = 2 * c
    BY <1>6, <2>2
  <2>3. CASE k = 2 * c + 1
    BY <1>6, <2>3
  <2>4. QED
    BY <2>1, <2>2, <2>3
<1>8. s # c => s > 1 /\ s \div 2 = c /\ e[s] < e[c]
  BY <1>4, <1>6
<1>9. LeastChild(e, c, s)
  BY <1>1, <1>6, <1>7, <1>8 DEF LeastChild
<1>10. QED
  BY <1>2, <1>9 DEF e

(* A round of SiftDown.                                                    *)
LEMMA DownKeeps ==
  ASSUME NEW n \in Nat, NEW vals \in [1..n -> Nat], NEW L \in Nat, NEW h \in [1..L -> 1..n],
         NEW c \in 1..L, OrderAbove(Keys(h, vals), c),
         NEW s \in 1..L, s # c, LeastChild(Keys(h, vals), c, s)
  PROVE  OrderAbove(Keys(Swap(h, c, s), vals), s)
<1> DEFINE g == Swap(h, c, s)
           e == Keys(h, vals)
           d == Keys(g, vals)
<1>1. /\ g \in [1..L -> 1..n] /\ g[c] = h[s] /\ g[s] = h[c]
      /\ \A k \in 1..L : k # c /\ k # s => g[k] = h[k]
  BY DEF Swap
<1> HIDE DEF g
<1>2. /\ e \in [1..L -> Nat] /\ d \in [1..L -> Nat]
      /\ \A k \in 1..L : e[k] = vals[h[k]] /\ d[k] = vals[g[k]]
  BY <1>1, KeysType
<1>3. OrderAbove(e, c) /\ LeastChild(e, c, s)
  OBVIOUS
<1> HIDE DEF e, d
<1>4. Exchanged(d, e, c, s)
  BY <1>1, <1>2 DEF Exchanged
<1>5. OrderAbove(d, s)
  BY <1>2, <1>3, <1>4, DownRound
<1>6. QED
  BY <1>5 DEF d, g

(* A heap with a new root is repaired: the same tokens, in the order of a  *)
(* heap.                                                                   *)
LEMMA SiftDownIs ==
  ASSUME NEW n \in Nat, NEW vals \in [1..n -> Nat], NEW L \in Nat \ {0},
         NEW heap \in [1..L -> 1..n], Distinct(heap),
         OrderAbove(Keys(heap, vals), 1)
  PROVE  Repaired(SiftDown(heap, vals), heap, L, n, vals)
<1> DEFINE H == {h \in [1..L -> 1..n] : Distinct(h) /\ ToSet(h) = ToSet(heap)}
           I == {x \in (1..L) \X H : OrderAbove(Keys(x[2], vals), x[1])}
<1>1. I \in SUBSET ((1..L) \X [1..L -> Nat]) /\ heap \in [1..L -> Nat]
  <2>1. \A h \in [1..L -> 1..n] : h \in [1..L -> Nat]
    OBVIOUS
  <2>2. H \subseteq [1..L -> Nat]
    BY <2>1
  <2>3. I \subseteq (1..L) \X H
    OBVIOUS
  <2> HIDE DEF H, I
  <2>4. I \subseteq (1..L) \X [1..L -> Nat]
    BY <2>2, <2>3
  <2>5. QED
    BY <2>1, <2>4
<1>2. <<1, heap>> \in I
  OBVIOUS
<1>3. ASSUME NEW x \in I, Smaller(x[2], x[1], vals) # x[1]
      PROVE  <<Smaller(x[2], x[1], vals), Swap(x[2], x[1], Smaller(x[2], x[1], vals))>> \in I
  <2>1. /\ x[1] \in 1..L /\ x[2] \in [1..L -> 1..n] /\ Distinct(x[2])
        /\ ToSet(x[2]) = ToSet(heap) /\ OrderAbove(Keys(x[2], vals), x[1])
    OBVIOUS
  <2>2. PICK c \in 1..L, h \in [1..L -> 1..n] : c = x[1] /\ h = x[2]
    BY <2>1
  <2> DEFINE s == Smaller(h, c, vals)
             g == Swap(h, c, s)
             z == <<s, g>>
  <2>3. s # c /\ Distinct(h) /\ ToSet(h) = ToSet(heap) /\ OrderAbove(Keys(h, vals), c)
    BY <1>3, <2>1, <2>2
  <2> HIDE DEF I
  <2>4. LeastChild(Keys(h, vals), c, s)
    BY SmallerLeast
  <2>5. s \in 1..L
    <3>1. DOMAIN Keys(h, vals) = 1..L
      BY DEF Keys
    <3> HIDE DEF s
    <3>2. QED
      BY <2>4, <3>1 DEF LeastChild
  <2> HIDE DEF s
  <2>6. OrderAbove(Keys(g, vals), s)
    BY <2>3, <2>4, <2>5, DownKeeps
  <2>7. g \in H
    <3>1. g \in [1..L -> 1..n]
      BY <2>5, SwapType
    <3>2. ToSet(g) = ToSet(h) /\ Distinct(g)
      <4>1. SameTokens(g, h)
        BY <2>5, SwapSame
      <4> HIDE DEF g
      <4>2. QED
        BY <2>3, <4>1 DEF SameTokens
    <3> HIDE DEF g
    <3>3. QED
      BY <2>3, <3>1, <3>2
  <2> HIDE DEF g
  <2>8. z \in (1..L) \X H /\ z[1] = s /\ z[2] = g
    BY <2>5, <2>7
  <2> HIDE DEF z, H
  <2>9. z \in I
    BY <2>6, <2>8 DEF I
  <2>10. QED
    BY <2>2, <2>9 DEF z, s, g
<1> HIDE DEF I
<1>4. PICK y \in I : DownEnds(y, heap, vals)
  <2> HIDE DEF H
  <2>1. DownClosed(I, L, heap, vals)
    BY <1>1, <1>2, <1>3 DEF DownClosed
  <2>2. QED
    BY <1>1, <2>1, SiftDownLoop
<1>5. y[1] \in 1..L /\ y[2] \in H /\ OrderAbove(Keys(y[2], vals), y[1])
  BY DEF I
<1>6. PICK c \in 1..L, h \in [1..L -> 1..n] : c = y[1] /\ h = y[2]
  BY <1>5
<1>7. Distinct(h) /\ ToSet(h) = ToSet(heap) /\ OrderAbove(Keys(h, vals), c)
  BY <1>5, <1>6
<1> HIDE DEF H
<1>8. Smaller(h, c, vals) = c /\ SiftDown(heap, vals) = h
  BY <1>4, <1>6 DEF DownEnds
<1> DEFINE e == Keys(h, vals)
<1>9. LeastChild(e, c, c)
  BY <1>8, SmallerLeast
<1>10. DOMAIN e = 1..L
  BY DEF Keys
<1>11. OrderAbove(e, c)
  BY <1>7
<1> HIDE DEF e
<1>12. HeapOrder(e)
  <2>1. ASSUME NEW k \in 1..L, k > 1 PROVE e[k \div 2] <= e[k]
    <3>1. CASE k \div 2 = c
      <4>1. e[c] <= e[k]
        BY <1>9, <1>10, <2>1, <3>1 DEF LeastChild
      <4>2. QED
        BY <3>1, <4>1
    <3>2. CASE k \div 2 # c
      BY <1>10, <1>11, <2>1, <3>2 DEF OrderAbove
    <3>3. QED
      BY <3>1, <3>2
  <2>2. QED
    BY <1>10, <2>1 DEF HeapOrder
<1>13. Repaired(h, heap, L, n, vals)
  BY <1>7, <1>12 DEF e, Repaired
<1>14. QED
  BY <1>8, <1>13

\* T holds the best of the first i tokens; h is a heap of as many of them as
\* select_top keeps.
BestOf(T, i, vals) == T \subseteq 1..i /\ \A t \in T : \A u \in (1..i) \ T : vals[u] <= vals[t]
Held(h, i, n, cap, vals) ==
  /\ h \in [1..(IF i < cap THEN i ELSE cap) -> 1..n]
  /\ Distinct(h) /\ HeapOrder(Keys(h, vals))
  /\ BestOf(ToSet(h), i, vals) /\ (i <= cap => ToSet(h) = 1..i)

\* A round of select_top.
TakeToken(h, i, cap, vals) ==
  IF Len(h) < cap THEN SiftUp(Append(h, i), vals)
  ELSE IF vals[i] > vals[h[1]] THEN SiftDown([h EXCEPT ![1] = i], vals)
  ELSE h

(* There is room: the next token is added.                                 *)
LEMMA TokenAdded ==
  ASSUME NEW n \in Nat, NEW vals \in [1..n -> Nat], NEW cap \in Nat \ {0},
         NEW i \in 0..(n - 1), i < cap, NEW h, Held(h, i, n, cap, vals)
  PROVE  Held(SiftUp(Append(h, i + 1), vals), i + 1, n, cap, vals)
<1> DEFINE g == Append(h, i + 1)
<1>1. h \in [1..i -> 1..n] /\ Distinct(h) /\ HeapOrder(Keys(h, vals)) /\ ToSet(h) = 1..i
  BY DEF Held
<1>2. /\ g \in [1..(i + 1) -> 1..n] /\ g[i + 1] = i + 1
      /\ \A k \in 1..i : g[k] = h[k]
  <2>1. h \in Seq(1..n) /\ Len(h) = i
    BY <1>1, IsASeq
  <2>2. i + 1 \in 1..n
    OBVIOUS
  <2>3. g \in Seq(1..n) /\ Len(g) = i + 1 /\ g[i + 1] = i + 1 /\ \A k \in 1..i : g[k] = h[k]
    BY <2>1, <2>2, AppendProperties
  <2> HIDE DEF g
  <2>4. g \in [1..Len(g) -> 1..n]
    BY <2>3, LenProperties
  <2>5. QED
    BY <2>3, <2>4
<1> HIDE DEF g
<1>3. \A k \in 1..i : h[k] \in 1..i
  BY <1>1 DEF ToSet
<1>4. Distinct(g)
  <2>1. ASSUME NEW x \in 1..(i + 1), NEW y \in 1..(i + 1), g[x] = g[y] PROVE x = y
    <3>1. CASE x = i + 1 /\ y = i + 1
      BY <3>1
    <3>2. CASE x = i + 1 /\ y # i + 1
      <4>1. y \in 1..i /\ g[y] = h[y] /\ h[y] \in 1..i /\ g[x] = i + 1
        BY <1>2, <1>3, <3>2
      <4>2. h[y] # i + 1
        BY <4>1
      <4>3. QED
        BY <2>1, <4>1, <4>2
    <3>3. CASE x # i + 1 /\ y = i + 1
      <4>1. x \in 1..i /\ g[x] = h[x] /\ h[x] \in 1..i /\ g[y] = i + 1
        BY <1>2, <1>3, <3>3
      <4>2. h[x] # i + 1
        BY <4>1
      <4>3. QED
        BY <2>1, <4>1, <4>2
    <3>4. CASE x # i + 1 /\ y # i + 1
      <4>1. x \in 1..i /\ y \in 1..i /\ h[x] = h[y]
        BY <1>2, <2>1, <3>4
      <4>2. QED
        BY <1>1, <4>1 DEF Distinct
    <3>5. QED
      BY <3>1, <3>2, <3>3, <3>4
  <2>2. DOMAIN g = 1..(i + 1)
    BY <1>2
  <2>3. QED
    BY <2>1, <2>2 DEF Distinct
<1>5. ToSet(g) = 1..(i + 1)
  <2>1. DOMAIN g = 1..(i + 1) /\ DOMAIN h = 1..i
    BY <1>1, <1>2
  <2>2. ASSUME NEW t \in ToSet(g) PROVE t \in 1..(i + 1)
    <3>1. PICK k \in 1..(i + 1) : t = g[k]
      BY <2>1 DEF ToSet
    <3>2. CASE k = i + 1
      BY <1>2, <3>1, <3>2
    <3>3. CASE k # i + 1
      <4>1. k \in 1..i
        BY <3>1, <3>3
      <4>2. t = h[k]
        BY <1>2, <3>1, <3>3
      <4>3. h[k] \in 1..i
        BY <1>3, <4>1
      <4>4. QED
        BY <4>2, <4>3
    <3>4. QED
      BY <3>2, <3>3
  <2>3. ASSUME NEW t \in 1..(i + 1) PROVE t \in ToSet(g)
    <3>1. CASE t = i + 1
      BY <1>2, <2>1, <3>1 DEF ToSet
    <3>2. CASE t # i + 1
      <4>1. t \in ToSet(h)
        BY <1>1, <3>2
      <4>2. PICK k \in 1..i : t = h[k]
        BY <2>1, <4>1 DEF ToSet
      <4>3. k \in 1..(i + 1) /\ t = g[k]
        BY <1>2, <4>2
      <4>4. QED
        BY <2>1, <4>3 DEF ToSet
    <3>3. QED
      BY <3>1, <3>2
  <2>4. QED
    BY <2>2, <2>3
<1>6. \A k \in 1..((i + 1) - 1) : k > 1 => vals[g[k \div 2]] <= vals[g[k]]
  <2>1. ASSUME NEW k \in 1..i, k > 1 PROVE vals[g[k \div 2]] <= vals[g[k]]
    <3>1. k \div 2 \in 1..i
      BY <2>1, Halves
    <3>2. DOMAIN Keys(h, vals) = 1..i
      BY <1>1 DEF Keys
    <3>3. Keys(h, vals)[k \div 2] <= Keys(h, vals)[k]
      BY <1>1, <2>1, <3>2 DEF HeapOrder
    <3>4. vals[h[k \div 2]] <= vals[h[k]]
      BY <1>1, <3>1, <3>3 DEF Keys
    <3>5. QED
      BY <1>2, <3>1, <3>4
  <2>2. (i + 1) - 1 = i
    OBVIOUS
  <2>3. QED
    BY <2>1, <2>2
<1> DEFINE m == i + 1
           f == SiftUp(g, vals)
<1>7. m \in Nat \ {0} /\ m <= cap /\ g \in [1..m -> 1..n]
  BY <1>2
<1>8. ButLast(g, m, vals)
  BY <1>6 DEF ButLast
<1>9. ToSet(g) = 1..m
  BY <1>5
<1> HIDE DEF m
<1>10. f \in [1..m -> 1..n] /\ Distinct(f) /\ ToSet(f) = 1..m /\ HeapOrder(Keys(f, vals))
  <2>1. Repaired(f, g, m, n, vals)
    BY <1>4, <1>7, <1>8, SiftUpIs
  <2> HIDE DEF f
  <2>2. QED
    BY <1>9, <2>1 DEF Repaired
<1> HIDE DEF f
<1>11. (IF m < cap THEN m ELSE cap) = m
  BY <1>7
<1>12. BestOf(ToSet(f), m, vals)
  BY <1>10 DEF BestOf
<1>13. Held(f, m, n, cap, vals)
  BY <1>10, <1>11, <1>12 DEF Held
<1>14. QED
  BY <1>13 DEF f, m, g

(* There is none: a token that is better than the root takes its place.    *)
LEMMA TokenReplaced ==
  ASSUME NEW n \in Nat, NEW vals \in [1..n -> Nat], NEW cap \in Nat \ {0},
         NEW i \in 0..(n - 1), i >= cap, NEW h, Held(h, i, n, cap, vals),
         vals[i + 1] > vals[h[1]]
  PROVE  Held(SiftDown([h EXCEPT ![1] = i + 1], vals), i + 1, n, cap, vals)
<1> DEFINE g == [h EXCEPT ![1] = i + 1]
           m == i + 1
<1>1. /\ h \in [1..cap -> 1..n] /\ Distinct(h) /\ HeapOrder(Keys(h, vals))
      /\ BestOf(ToSet(h), i, vals)
  BY DEF Held
<1>2. 1 \in 1..cap /\ m \in 1..n
  OBVIOUS
<1>3. g \in [1..cap -> 1..n] /\ g[1] = m /\ \A k \in 1..cap : k # 1 => g[k] = h[k]
  BY <1>1, <1>2
<1> HIDE DEF g
<1>4. DOMAIN h = 1..cap /\ DOMAIN g = 1..cap
  BY <1>1, <1>3
<1>5. \A k \in 1..cap : h[k] \in 1..i
  BY <1>1, <1>4 DEF ToSet, BestOf
<1>6. \A k \in 1..cap : h[k] # m
  BY <1>5
<1>7. Distinct(g)
  <2>1. ASSUME NEW x \in 1..cap, NEW y \in 1..cap, g[x] = g[y] PROVE x = y
    <3>1. CASE x = 1 \/ y = 1
      BY <1>3, <1>6, <2>1, <3>1
    <3>2. CASE x # 1 /\ y # 1
      <4>1. h[x] = h[y]
        BY <1>3, <2>1, <3>2
      <4>2. QED
        BY <1>1, <1>4, <4>1 DEF Distinct
    <3>3. QED
      BY <3>1, <3>2
  <2>2. QED
    BY <1>4, <2>1 DEF Distinct
<1>8. \A t : t \in ToSet(g) <=> t = m \/ (t \in ToSet(h) /\ t # h[1])
  <2>1. ASSUME NEW t \in ToSet(g) PROVE t = m \/ (t \in ToSet(h) /\ t # h[1])
    <3>1. PICK k \in 1..cap : t = g[k]
      BY <1>4 DEF ToSet
    <3>2. CASE k = 1
      BY <1>3, <3>1, <3>2
    <3>3. CASE k # 1
      <4>1. t = h[k] /\ h[k] # h[1]
        BY <1>1, <1>2, <1>3, <1>4, <3>1, <3>3 DEF Distinct
      <4>2. QED
        BY <1>4, <4>1 DEF ToSet
    <3>4. QED
      BY <3>2, <3>3
  <2>2. m \in ToSet(g)
    BY <1>2, <1>3, <1>4 DEF ToSet
  <2>3. ASSUME NEW t \in ToSet(h), t # h[1] PROVE t \in ToSet(g)
    <3>1. PICK k \in 1..cap : t = h[k]
      BY <1>4 DEF ToSet
    <3>2. g[k] = t
      BY <1>3, <2>3, <3>1
    <3>3. QED
      BY <1>4, <3>2 DEF ToSet
  <2>4. QED
    BY <2>1, <2>2, <2>3
<1>9. /\ \A k \in 1..cap : vals[h[1]] <= vals[h[k]]
      /\ \A k \in 1..cap : k > 1 => vals[h[k \div 2]] <= vals[h[k]]
  <2> DEFINE e == Keys(h, vals)
  <2>1. e \in [1..cap -> Nat] /\ DOMAIN e = 1..cap /\ \A k \in 1..cap : e[k] = vals[h[k]]
    BY <1>1 DEF Keys
  <2>2. HeapOrder(e)
    BY <1>1
  <2> HIDE DEF e
  <2>3. \A k \in 1..cap : e[1] <= e[k]
    BY <2>1, <2>2, RootLeast
  <2>4. ASSUME NEW k \in 1..cap, k > 1 PROVE vals[h[k \div 2]] <= vals[h[k]]
    <3>1. k \div 2 \in 1..cap
      BY <2>4, Halves
    <3>2. e[k \div 2] <= e[k]
      BY <2>1, <2>2, <2>4 DEF HeapOrder
    <3>3. QED
      BY <2>1, <3>1, <3>2
  <2>5. QED
    BY <1>2, <2>1, <2>3, <2>4
<1>10. OrderAbove(Keys(g, vals), 1)
  <2> DEFINE e == Keys(g, vals)
  <2>1. DOMAIN e = 1..cap /\ \A k \in 1..cap : e[k] = vals[g[k]]
    BY <1>3 DEF Keys
  <2> HIDE DEF e
  <2>2. ASSUME NEW k \in 1..cap, k > 1, k \div 2 # 1 PROVE e[k \div 2] <= e[k]
    <3>1. k \div 2 \in 1..cap
      BY <2>2, Halves
    <3>2. g[k \div 2] = h[k \div 2] /\ g[k] = h[k]
      <4> DEFINE d == k \div 2
      <4>1. d \in 1..cap /\ d # 1 /\ k # 1
        BY <2>2, <3>1
      <4> HIDE DEF d, m
      <4>2. g[d] = h[d] /\ g[k] = h[k]
        BY <1>3, <4>1
      <4>3. QED
        BY <4>2 DEF d
    <3>3. vals[h[k \div 2]] <= vals[h[k]]
      BY <1>9, <2>2
    <3>4. QED
      BY <2>1, <3>1, <3>2, <3>3
  <2>3. OrderAbove(e, 1)
    BY <2>1, <2>2 DEF OrderAbove
  <2>4. QED
    BY <2>3 DEF e
<1> DEFINE f == SiftDown(g, vals)
<1>11. f \in [1..cap -> 1..n] /\ Distinct(f) /\ ToSet(f) = ToSet(g) /\ HeapOrder(Keys(f, vals))
  <2>1. Repaired(f, g, cap, n, vals)
    BY <1>3, <1>7, <1>10, SiftDownIs
  <2> HIDE DEF f
  <2>2. QED
    BY <2>1 DEF Repaired
<1> HIDE DEF f
<1>12. BestOf(ToSet(g), m, vals)
  <2>1. \A t \in ToSet(h) : t \in 1..i /\ t \in 1..n /\ vals[t] \in Nat /\ vals[h[1]] <= vals[t]
    <3>1. ASSUME NEW t \in ToSet(h) PROVE t \in 1..i /\ t \in 1..n /\ vals[t] \in Nat /\ vals[h[1]] <= vals[t]
      <4>1. PICK k \in 1..cap : t = h[k]
        BY <1>4 DEF ToSet
      <4>2. t \in 1..i /\ t \in 1..n
        BY <1>1, <1>5, <4>1
      <4>3. QED
        BY <1>9, <4>1, <4>2
    <3>2. QED
      BY <3>1
  <2>2. h[1] \in ToSet(h) /\ h[1] \in 1..n /\ vals[h[1]] \in Nat
    BY <1>1, <1>2, <1>4 DEF ToSet
  <2>3. ToSet(g) \subseteq 1..m
    BY <1>8, <2>1
  <2>4. ASSUME NEW t \in ToSet(g), NEW u \in (1..m) \ ToSet(g) PROVE vals[u] <= vals[t]
    <3>1. u # m /\ u \in 1..i /\ (u \in ToSet(h) => u = h[1])
      BY <1>8, <2>4
    <3>2. u \in 1..n /\ vals[u] \in Nat /\ vals[m] \in Nat
      BY <1>2, <3>1
    <3>3. u = h[1] \/ vals[u] <= vals[h[1]]
      BY <1>1, <2>2, <3>1 DEF BestOf
    <3>4. vals[u] <= vals[h[1]]
      BY <2>2, <3>3
    <3>5. CASE t = m
      BY <2>2, <3>2, <3>4, <3>5
    <3>6. CASE t # m
      <4>1. t \in ToSet(h)
        BY <1>8, <3>6
      <4>2. vals[t] \in Nat /\ vals[h[1]] <= vals[t]
        BY <2>1, <4>1
      <4>3. QED
        BY <2>2, <3>2, <3>4, <4>2
    <3>7. QED
      BY <3>5, <3>6
  <2>5. QED
    BY <2>3, <2>4 DEF BestOf
<1>13. (IF m < cap THEN m ELSE cap) = cap /\ ~(m <= cap)
  OBVIOUS
<1> HIDE DEF m
<1>14. Held(f, m, n, cap, vals)
  BY <1>11, <1>12, <1>13 DEF Held
<1>15. QED
  BY <1>14 DEF f, g, m

(* Or it is not better than any of the heap.                               *)
LEMMA TokenLeft ==
  ASSUME NEW n \in Nat, NEW vals \in [1..n -> Nat], NEW cap \in Nat \ {0},
         NEW i \in 0..(n - 1), i >= cap, NEW h, Held(h, i, n, cap, vals),
         ~(vals[i + 1] > vals[h[1]])
  PROVE  Held(h, i + 1, n, cap, vals)
<1> DEFINE m == i + 1
           e == Keys(h, vals)
<1>1. /\ h \in [1..cap -> 1..n] /\ Distinct(h) /\ HeapOrder(e)
      /\ BestOf(ToSet(h), i, vals)
  BY DEF Held
<1>2. 1 \in 1..cap /\ m \in 1..n /\ DOMAIN h = 1..cap
  BY <1>1
<1>3. e \in [1..cap -> Nat] /\ \A k \in 1..cap : e[k] = vals[h[k]]
  BY <1>1 DEF Keys
<1>4. \A k \in 1..cap : e[1] <= e[k]
  <2> HIDE DEF e
  <2>1. QED
    BY <1>1, <1>3, RootLeast
<1>5. vals[m] \in Nat /\ e[1] \in Nat /\ vals[m] <= e[1]
  BY <1>1, <1>2, <1>3
<1> HIDE DEF e
<1>6. ASSUME NEW t \in ToSet(h), NEW u \in (1..m) \ ToSet(h) PROVE vals[u] <= vals[t]
  <2>1. PICK k \in 1..cap : t = h[k]
    BY <1>2 DEF ToSet
  <2>2. e[1] <= vals[t] /\ vals[t] \in Nat
    BY <1>3, <1>4, <2>1
  <2>3. CASE u = m
    BY <1>5, <2>2, <2>3
  <2>4. CASE u # m
    <3>1. u \in (1..i) \ ToSet(h)
      BY <2>4
    <3>2. QED
      BY <1>1, <3>1 DEF BestOf
  <2>5. QED
    BY <2>3, <2>4
<1>7. ToSet(h) \subseteq 1..m
  BY <1>1 DEF BestOf
<1>8. BestOf(ToSet(h), m, vals)
  BY <1>6, <1>7 DEF BestOf
<1>9. (IF m < cap THEN m ELSE cap) = cap /\ ~(m <= cap)
  OBVIOUS
<1> HIDE DEF m
<1>10. Held(h, m, n, cap, vals)
  BY <1>1, <1>8, <1>9 DEF Held, e
<1>11. QED
  BY <1>10 DEF m

\* U holds the heap after each round of select_top.
Selects(U, n, cap, vals) ==
  U[0] = <<>> /\ \A i \in 1..n : U[i] = TakeToken(U[i - 1], i, cap, vals)

(* select_top runs over the vocabulary.                                    *)
LEMMA SelectScan ==
  ASSUME NEW n \in Nat \ {0}, NEW cap \in Nat \ {0}, NEW vals, Len(vals) = n
  PROVE  \E U : select_top(cap, vals) = U[n] /\ Selects(U, n, cap, vals)
<1> DEFINE X == Seq(1..n)
           Take(h, i) == TakeToken(h, i, cap, vals)
           st == [x \in X \X (1..n) |-> Take(x[1], x[2])]
           Body(f, i) == IF i = 0 THEN <<>>
                         ELSE LET h == f[i - 1] IN
                              IF Len(h) < cap THEN SiftUp(Append(h, i), vals)
                              ELSE IF vals[i] > vals[h[1]] THEN SiftDown([h EXCEPT ![1] = i], vals)
                              ELSE h
           U == CHOOSE f : f = [i \in 0..n |-> Body(f, i)]
<1>1. ASSUME NEW L \in Nat \ {0}, NEW g \in [1..L -> 1..n] PROVE g \in X
  BY IsASeq
<1>2. ASSUME NEW h \in X, NEW i \in 1..n PROVE Take(h, i) \in X
  <2>1. Len(h) \in Nat /\ h \in [1..Len(h) -> 1..n]
    BY LenProperties
  <2>2. CASE Len(h) < cap
    <3> DEFINE g == Append(h, i)
    <3>1. Len(h) + 1 \in Nat \ {0} /\ g \in [1..(Len(h) + 1) -> 1..n]
      <4>1. g \in Seq(1..n) /\ Len(g) = Len(h) + 1
        BY AppendProperties
      <4> HIDE DEF g
      <4>2. g \in [1..Len(g) -> 1..n]
        BY <4>1, LenProperties
      <4>3. QED
        BY <2>1, <4>1, <4>2
    <3>2. SiftUp(g, vals) \in [1..(Len(h) + 1) -> 1..n]
      BY <3>1, SiftUpType
    <3>3. SiftUp(g, vals) \in X
      BY <1>1, <3>1, <3>2
    <3>4. QED
      BY <2>2, <3>3 DEF TakeToken
  <2>3. CASE ~(Len(h) < cap) /\ vals[i] > vals[h[1]]
    <3> DEFINE g == [h EXCEPT ![1] = i]
    <3>1. Len(h) \in Nat \ {0}
      BY <2>1, <2>3
    <3>2. g \in [1..Len(h) -> 1..n]
      BY <2>1
    <3>3. SiftDown(g, vals) \in [1..Len(h) -> 1..n]
      BY <3>1, <3>2, SiftDownType
    <3>4. SiftDown(g, vals) \in X
      BY <1>1, <3>1, <3>3
    <3>5. QED
      BY <2>3, <3>4 DEF TakeToken
  <2>4. CASE ~(Len(h) < cap) /\ ~(vals[i] > vals[h[1]])
    BY <2>4 DEF TakeToken
  <2>5. QED
    BY <2>2, <2>3, <2>4
<1>3. ASSUME NEW f, NEW i \in 0..n PROVE Body(f, i) = IF i = 0 THEN <<>> ELSE Take(f[i - 1], i)
  BY DEF TakeToken
<1>4. select_top(cap, vals) = U[n]
  BY DEF select_top
<1> HIDE DEF Take, Body
<1>5. st \in [X \X (1..n) -> X]
  <2>1. ASSUME NEW x \in X \X (1..n) PROVE Take(x[1], x[2]) \in X
    <3>1. x[1] \in X /\ x[2] \in 1..n
      OBVIOUS
    <3> HIDE DEF X
    <3>2. QED
      BY <1>2, <3>1
  <2> HIDE DEF X
  <2>2. QED
    BY <2>1
<1>6. \A h \in X : \A i \in 1..n : st[<<h, i>>] = Take(h, i)
  <2> HIDE DEF X
  <2>1. QED
    OBVIOUS
<1>7. <<>> \in X
  BY EmptySeq
<1> HIDE DEF X, st
<1>8. PICK f : Iterates(f, n, <<>>, st)
  BY <1>5, <1>7, IterateExists
<1>9. ASSUME NEW g, \A i \in 0..n : g[i] \in X
      PROVE  \A i \in 0..n : Body(g, i) = IF i = 0 THEN <<>> ELSE st[<<g[i - 1], i>>]
  <2>1. ASSUME NEW i \in 0..n PROVE Body(g, i) = IF i = 0 THEN <<>> ELSE st[<<g[i - 1], i>>]
    <3>1. CASE i = 0
      BY <1>3, <3>1
    <3>2. CASE i # 0
      <4>1. i \in 1..n /\ i - 1 \in 0..n
        BY <3>2
      <4>2. st[<<g[i - 1], i>>] = Take(g[i - 1], i)
        BY <1>6, <1>9, <4>1
      <4>3. QED
        BY <1>3, <3>2, <4>2
    <3>3. QED
      BY <3>1, <3>2
  <2>2. QED
    BY <2>1
<1>10. \A i \in 0..n : f[i] \in X
  BY <1>5, <1>7, <1>8, IterateType
<1>11. f = [i \in 0..n |-> Body(f, i)]
  BY <1>8, <1>9, <1>10 DEF Iterates
<1>12. U = [i \in 0..n |-> Body(U, i)]
  BY <1>11
<1> HIDE DEF U
<1>13. \A i \in 0..n : U[i] = IF i = 0 THEN <<>> ELSE Take(U[i - 1], i)
  BY <1>3, <1>12
<1>14. U[0] = <<>>
  BY <1>13
<1>15. \A i \in 1..n : U[i] = Take(U[i - 1], i)
  BY <1>13
<1>16. Selects(U, n, cap, vals)
  BY <1>14, <1>15 DEF Selects, Take
<1>17. QED
  BY <1>4, <1>16

(* The heap holds the best of the tokens seen, as many as the cap allows.  *)
LEMMA SelectIs ==
  ASSUME NEW n \in Nat \ {0}, NEW vals \in [1..n -> Nat], NEW cap \in Nat \ {0}
  PROVE  Held(select_top(cap, vals), n, n, cap, vals)
<1>1. Len(vals) = n
  OBVIOUS
<1>2. PICK U : select_top(cap, vals) = U[n] /\ Selects(U, n, cap, vals)
  BY <1>1, SelectScan
<1> DEFINE T == {i \in 0..n : Held(U[i], i, n, cap, vals)}
<1>3. 0 \in T
  <2>1. U[0] = <<>>
    BY <1>2 DEF Selects
  <2>2. <<>> \in [1..0 -> 1..n] /\ DOMAIN <<>> = {}
    OBVIOUS
  <2>3. (IF 0 < cap THEN 0 ELSE cap) = 0 /\ 1..0 = {} /\ 0 \in 0..n
    OBVIOUS
  <2>4. ToSet(<<>>) = {}
    BY <2>2 DEF ToSet
  <2>5. Distinct(<<>>) /\ HeapOrder(Keys(<<>>, vals))
    BY <2>2 DEF Distinct, HeapOrder, Keys
  <2>6. BestOf({}, 0, vals)
    BY DEF BestOf
  <2>7. Held(<<>>, 0, n, cap, vals)
    BY <2>2, <2>3, <2>4, <2>5, <2>6 DEF Held
  <2>8. QED
    BY <2>1, <2>3, <2>7
<1>4. ASSUME NEW i \in 0..(n - 1), i \in T PROVE i + 1 \in T
  <2> DEFINE h == U[i]
             m == i + 1
  <2>1. m \in 0..n /\ m \in 1..n /\ m - 1 = i
    OBVIOUS
  <2>2. Held(h, i, n, cap, vals)
    BY <1>4
  <2>3. U[m] = TakeToken(h, m, cap, vals)
    <3>1. U[m] = TakeToken(U[m - 1], m, cap, vals)
      BY <1>2, <2>1 DEF Selects
    <3>2. QED
      BY <2>1, <3>1
  <2>4. Len(h) = IF i < cap THEN i ELSE cap
    BY <2>2 DEF Held
  <2> HIDE DEF h
  <2>5. CASE i < cap
    <3>1. Held(SiftUp(Append(h, i + 1), vals), i + 1, n, cap, vals)
      BY <2>2, <2>5, TokenAdded
    <3>2. U[m] = SiftUp(Append(h, m), vals)
      BY <2>3, <2>4, <2>5 DEF TakeToken
    <3>3. QED
      BY <2>1, <3>1, <3>2
  <2>6. CASE ~(i < cap) /\ vals[i + 1] > vals[h[1]]
    <3>1. i >= cap
      BY <2>6
    <3>2. Held(SiftDown([h EXCEPT ![1] = i + 1], vals), i + 1, n, cap, vals)
      BY <2>2, <2>6, <3>1, TokenReplaced
    <3>3. U[m] = SiftDown([h EXCEPT ![1] = m], vals)
      BY <2>3, <2>4, <2>6 DEF TakeToken
    <3>4. QED
      BY <2>1, <3>2, <3>3
  <2>7. CASE ~(i < cap) /\ ~(vals[i + 1] > vals[h[1]])
    <3>1. i >= cap
      BY <2>7
    <3>2. Held(h, i + 1, n, cap, vals)
      BY <2>2, <2>7, <3>1, TokenLeft
    <3>3. U[m] = h
      BY <2>3, <2>4, <2>7 DEF TakeToken
    <3>4. QED
      BY <2>1, <3>2, <3>3
  <2>8. QED
    BY <2>5, <2>6, <2>7
<1>5. \A i \in 0..(n - 1) : i \in T => i + 1 \in T
  BY <1>4
<1> HIDE DEF T
<1>6. \A i \in 0..n : i \in T
  BY <1>3, <1>5, UpTo
<1>7. n \in T
  BY <1>6
<1>8. QED
  BY <1>2, <1>7 DEF T

(* A set of places that holds all that are before one it holds is the      *)
(* first of them, as many as it has.                                       *)
LEMMA Initial ==
  ASSUME NEW m \in Nat, NEW K, K \subseteq 1..m, \A k \in K : \A l \in 1..k : l \in K
  PROVE  Cardinality(K) \in 0..m /\ K = 1..Cardinality(K)
<1> DEFINE R == {x \in 1..(m + 1) : x \notin K}
<1>1. m + 1 \in R /\ R \subseteq Nat
  OBVIOUS
<1>2. PICK x \in R : \A y \in R : x <= y
  <2> HIDE DEF R
  <2>1. QED
    BY <1>1, LeastNat
<1>3. x \in 1..(m + 1) /\ x \notin K
  OBVIOUS
<1>4. ASSUME NEW k \in 1..(x - 1) PROVE k \in K
  <2>1. k \in 1..(m + 1) /\ ~(x <= k)
    BY <1>3
  <2>2. k \notin R
    BY <1>2, <2>1
  <2>3. QED
    BY <2>1, <2>2
<1>5. ASSUME NEW k \in K PROVE k \in 1..(x - 1)
  <2>1. k \in 1..m
    OBVIOUS
  <2>2. ~(x <= k)
    <3>1. SUFFICES ASSUME x <= k PROVE FALSE
      OBVIOUS
    <3>2. x \in 1..k
      BY <1>3, <2>1, <3>1
    <3>3. x \in K
      BY <3>2
    <3>4. QED
      BY <1>3, <3>3
  <2>3. QED
    BY <1>3, <2>1, <2>2
<1>6. K = 1..(x - 1)
  BY <1>4, <1>5
<1> DEFINE j == x - 1
<1>7. j \in 0..m /\ j \in Int /\ 1 \in Int /\ K = 1..j
  BY <1>3, <1>6
<1> HIDE DEF j
<1>8. Cardinality(1..j) = IF 1 > j THEN 0 ELSE (j - 1) + 1
  BY <1>7, FS_Interval
<1>9. Cardinality(K) = j
  BY <1>7, <1>8
<1>10. QED
  BY <1>7, <1>9

\* r is s with t at the place j + 1.
Placed(r, s, j, t) ==
  /\ \A k \in 1..j : r[k] = s[k]
  /\ r[j + 1] = t
  /\ \A k \in (j + 1)..Len(s) : r[k + 1] = s[k]

\* A round of sort_desc.
PutAt(s, t, j) == SubSeq(s, 1, j) \o <<t>> \o SubSeq(s, j + 1, Len(s))
Ahead(s, t, vals) == {k \in DOMAIN s : vals[s[k]] >= vals[t]}
Insert(s, t, vals) == PutAt(s, t, Cardinality(Ahead(s, t, vals)))

(* The two parts and what is between them.                                 *)
LEMMA InsertPlaces ==
  ASSUME NEW A, NEW s \in Seq(A), NEW t \in A, NEW j \in 0..Len(s)
  PROVE  /\ PutAt(s, t, j) \in [1..(Len(s) + 1) -> A]
         /\ Placed(PutAt(s, t, j), s, j, t)
<1> DEFINE l == SubSeq(s, 1, j)
           e == <<t>>
           r == SubSeq(s, j + 1, Len(s))
           f == l \o e
           g == f \o r
           N == Len(s)
<1>1. N \in Nat /\ j \in Nat /\ j <= N
  BY LenProperties
<1>2. /\ l \in Seq(A) /\ Len(l) = j /\ (\A i \in 1..j : l[i] = s[i])
      /\ r \in Seq(A) /\ Len(r) = N - j /\ s = l \o r
  <2>1. /\ SubSeq(s, 1, j) \in Seq(A) /\ Len(SubSeq(s, 1, j)) = j
        /\ \A i \in 1..j : SubSeq(s, 1, j)[i] = s[i]
        /\ SubSeq(s, j + 1, Len(s)) \in Seq(A) /\ Len(SubSeq(s, j + 1, Len(s))) = Len(s) - j
        /\ s = SubSeq(s, 1, j) \o SubSeq(s, j + 1, Len(s))
    BY Parts
  <2> HIDE DEF l, r, N
  <2>2. QED
    BY <2>1 DEF l, r, N
<1>3. e \in Seq(A) /\ Len(e) = 1 /\ e[1] = t
  OBVIOUS
<1> HIDE DEF l, e, r, N
<1>4. /\ f \in Seq(A) /\ Len(f) = j + 1
      /\ \A i \in 1..(j + 1) : f[i] = IF i <= j THEN l[i] ELSE e[i - j]
  <2>1. /\ l \o e \in Seq(A) /\ Len(l \o e) = Len(l) + Len(e)
        /\ \A i \in 1..(Len(l) + Len(e)) : (l \o e)[i] = IF i <= Len(l) THEN l[i] ELSE e[i - Len(l)]
    BY <1>2, <1>3, ConcatProperties
  <2>2. QED
    BY <1>2, <1>3, <2>1
<1>5. \A i \in 1..N : s[i] = IF i <= j THEN l[i] ELSE r[i - j]
  <2>1. \A i \in 1..(Len(l) + Len(r)) : (l \o r)[i] = IF i <= Len(l) THEN l[i] ELSE r[i - Len(l)]
    BY <1>2, ConcatProperties
  <2>2. Len(l) + Len(r) = N
    BY <1>1, <1>2
  <2>3. QED
    BY <1>2, <2>1, <2>2
<1> HIDE DEF f
<1>6. /\ g \in Seq(A) /\ Len(g) = N + 1
      /\ \A i \in 1..(N + 1) : g[i] = IF i <= j + 1 THEN f[i] ELSE r[i - (j + 1)]
  <2>1. /\ f \o r \in Seq(A) /\ Len(f \o r) = Len(f) + Len(r)
        /\ \A i \in 1..(Len(f) + Len(r)) : (f \o r)[i] = IF i <= Len(f) THEN f[i] ELSE r[i - Len(f)]
    BY <1>2, <1>4, ConcatProperties
  <2>2. Len(f) + Len(r) = N + 1
    BY <1>1, <1>2, <1>4
  <2>3. QED
    BY <1>4, <2>1, <2>2
<1>7. PutAt(s, t, j) = g
  BY DEF PutAt, g, f, l, e, r
<1> HIDE DEF g
<1>8. g \in [1..(N + 1) -> A]
  <2>1. g \in [1..Len(g) -> A]
    BY <1>6, LenProperties
  <2>2. QED
    BY <1>6, <2>1
<1>9. ASSUME NEW k \in 1..j PROVE g[k] = s[k]
  <2>1. k \in 1..(N + 1) /\ k <= j + 1 /\ k \in 1..(j + 1) /\ k <= j /\ k \in 1..N
    BY <1>1
  <2>2. QED
    BY <1>4, <1>5, <1>6, <2>1
<1>10. g[j + 1] = t
  <2>1. j + 1 \in 1..(N + 1) /\ j + 1 <= j + 1 /\ j + 1 \in 1..(j + 1) /\ ~(j + 1 <= j) /\ (j + 1) - j = 1
    BY <1>1
  <2>2. QED
    BY <1>3, <1>4, <1>6, <2>1
<1>11. ASSUME NEW k \in (j + 1)..N PROVE g[k + 1] = s[k]
  <2>1. k + 1 \in 1..(N + 1) /\ ~(k + 1 <= j + 1) /\ k \in 1..N /\ ~(k <= j) /\ (k + 1) - (j + 1) = k - j
    BY <1>1
  <2>2. QED
    BY <1>5, <1>6, <2>1
<1>12. Placed(g, s, j, t)
  BY <1>9, <1>10, <1>11 DEF Placed, N
<1>13. QED
  BY <1>7, <1>8, <1>12 DEF N

\* The tokens of s in the order of their weights, the best first.
Sorted(s, vals) == \A i, j \in DOMAIN s : i <= j => vals[s[j]] <= vals[s[i]]
\* s holds L tokens of 1..n, each once.
Tokens(s, L, n) == s \in [1..L -> 1..n] /\ Distinct(s)
\* They are those of T, and in order.
Orders(s, T, L, n, vals) == Tokens(s, L, n) /\ Sorted(s, vals) /\ ToSet(s) = T

(* A round puts the new token behind those that are not worse.             *)
LEMMA InsertIs ==
  ASSUME NEW n \in Nat, NEW vals \in [1..n -> Nat], NEW m \in Nat, NEW s,
         Tokens(s, m, n), Sorted(s, vals), NEW t \in 1..n, t \notin ToSet(s)
  PROVE  Orders(Insert(s, t, vals), ToSet(s) \cup {t}, m + 1, n, vals)
<1> DEFINE K == Ahead(s, t, vals)
           j == Cardinality(K)
           g == Insert(s, t, vals)
<1>1. s \in [1..m -> 1..n] /\ Distinct(s) /\ DOMAIN s = 1..m
  BY DEF Tokens
<1>2. s \in Seq(1..n) /\ Len(s) = m
  BY <1>1, IsASeq
<1>3. \A k \in 1..m : s[k] \in 1..n /\ vals[s[k]] \in Nat
  BY <1>1
<1>4. vals[t] \in Nat
  OBVIOUS
<1>5. K \subseteq 1..m /\ \A k \in 1..m : k \in K <=> vals[s[k]] >= vals[t]
  BY <1>1 DEF Ahead
<1> HIDE DEF K
<1>6. ASSUME NEW k \in K, NEW l \in 1..k PROVE l \in K
  <2>1. k \in 1..m /\ l \in 1..m /\ l <= k
    BY <1>5
  <2>2. vals[s[k]] <= vals[s[l]]
    BY <1>1, <2>1 DEF Sorted
  <2>3. QED
    BY <1>3, <1>4, <1>5, <2>1, <2>2
<1>7. j \in 0..m /\ K = 1..j
  BY <1>5, <1>6, Initial
<1>8. g = PutAt(s, t, j)
  BY DEF Insert, K
<1> HIDE DEF j, g
<1>9. g \in [1..(m + 1) -> 1..n] /\ Placed(g, s, j, t)
  BY <1>2, <1>7, <1>8, InsertPlaces
<1>10. /\ \A k \in 1..j : g[k] = s[k]
       /\ g[j + 1] = t
       /\ \A k \in (j + 1)..m : g[k + 1] = s[k]
  BY <1>2, <1>9 DEF Placed
<1>11. ASSUME NEW k \in 1..(m + 1)
       PROVE  \/ k \in 1..j /\ k \in 1..m /\ g[k] = s[k]
              \/ k = j + 1 /\ g[k] = t
              \/ k - 1 \in (j + 1)..m /\ k - 1 \in 1..m /\ g[k] = s[k - 1]
  <2>1. CASE k <= j
    BY <1>7, <1>10, <2>1
  <2>2. CASE k = j + 1
    BY <1>10, <2>2
  <2>3. CASE k > j + 1
    <3>1. k - 1 \in (j + 1)..m /\ k - 1 \in 1..m /\ (k - 1) + 1 = k
      BY <1>7, <2>3
    <3>2. QED
      BY <1>10, <3>1
  <2>4. QED
    BY <1>7, <2>1, <2>2, <2>3
<1>12. DOMAIN g = 1..(m + 1)
  BY <1>9
<1>13. ToSet(g) = ToSet(s) \cup {t}
  <2>1. ASSUME NEW u \in ToSet(g) PROVE u \in ToSet(s) \cup {t}
    <3>1. PICK k \in 1..(m + 1) : u = g[k]
      BY <1>12 DEF ToSet
    <3>2. QED
      BY <1>1, <1>11, <3>1 DEF ToSet
  <2>2. ASSUME NEW u \in ToSet(s) PROVE u \in ToSet(g)
    <3>1. PICK k \in 1..m : u = s[k]
      BY <1>1 DEF ToSet
    <3>2. CASE k <= j
      <4>1. k \in 1..j /\ k \in 1..(m + 1)
        BY <1>7, <3>2
      <4>2. QED
        BY <1>10, <1>12, <3>1, <4>1 DEF ToSet
    <3>3. CASE k > j
      <4>1. k \in (j + 1)..m /\ k + 1 \in 1..(m + 1)
        BY <1>7, <3>3
      <4>2. QED
        BY <1>10, <1>12, <3>1, <4>1 DEF ToSet
    <3>4. QED
      BY <1>7, <3>2, <3>3
  <2>3. t \in ToSet(g)
    <3>1. j + 1 \in 1..(m + 1)
      BY <1>7
    <3>2. QED
      BY <1>10, <1>12, <3>1 DEF ToSet
  <2>4. QED
    BY <2>1, <2>2, <2>3
<1>14. \A k \in 1..m : s[k] # t
  BY <1>1 DEF ToSet
<1>15. \A k, l \in 1..m : s[k] = s[l] => k = l
  BY <1>1 DEF Distinct
<1>16. Distinct(g)
  <2>1. ASSUME NEW x \in 1..(m + 1), NEW y \in 1..(m + 1), g[x] = g[y] PROVE x = y
    <3>1. CASE x \in 1..j /\ x \in 1..m /\ g[x] = s[x]
      <4>1. CASE y \in 1..j /\ y \in 1..m /\ g[y] = s[y]
        BY <1>15, <2>1, <3>1, <4>1
      <4>2. CASE y = j + 1 /\ g[y] = t
        BY <1>14, <2>1, <3>1, <4>2
      <4>3. CASE y - 1 \in (j + 1)..m /\ y - 1 \in 1..m /\ g[y] = s[y - 1]
        <5>1. x = y - 1
          BY <1>15, <2>1, <3>1, <4>3
        <5>2. QED
          BY <1>7, <3>1, <4>3, <5>1
      <4>4. QED
        BY <1>11, <4>1, <4>2, <4>3
    <3>2. CASE x = j + 1 /\ g[x] = t
      <4>1. \A k \in 1..m : g[y] # s[k]
        BY <1>14, <2>1, <3>2
      <4>2. y = j + 1
        BY <1>11, <4>1
      <4>3. QED
        BY <3>2, <4>2
    <3>3. CASE x - 1 \in (j + 1)..m /\ x - 1 \in 1..m /\ g[x] = s[x - 1]
      <4>1. CASE y \in 1..j /\ y \in 1..m /\ g[y] = s[y]
        <5>1. x - 1 = y
          BY <1>15, <2>1, <3>3, <4>1
        <5>2. QED
          BY <1>7, <3>3, <4>1, <5>1
      <4>2. CASE y = j + 1 /\ g[y] = t
        BY <1>14, <2>1, <3>3, <4>2
      <4>3. CASE y - 1 \in (j + 1)..m /\ y - 1 \in 1..m /\ g[y] = s[y - 1]
        <5>1. x - 1 = y - 1
          BY <1>15, <2>1, <3>3, <4>3
        <5>2. QED
          BY <5>1
      <4>4. QED
        BY <1>11, <4>1, <4>2, <4>3
    <3>4. QED
      BY <1>11, <3>1, <3>2, <3>3
  <2>2. QED
    BY <1>12, <2>1 DEF Distinct
<1>17. \A k, l \in 1..m : k <= l => vals[s[l]] <= vals[s[k]]
  BY <1>1 DEF Sorted
<1>18. Sorted(g, vals)
  <2>1. ASSUME NEW x \in 1..(m + 1), NEW y \in 1..(m + 1), x <= y PROVE vals[g[y]] <= vals[g[x]]
    <3>1. ASSUME NEW k \in 1..j PROVE vals[t] <= vals[s[k]]
      BY <1>3, <1>4, <1>5, <1>7
    <3>2. ASSUME NEW k \in (j + 1)..m PROVE vals[s[k]] <= vals[t]
      <4>1. k \in 1..m /\ k \notin K
        BY <1>7
      <4>2. ~(vals[s[k]] >= vals[t])
        BY <1>5, <4>1
      <4>3. QED
        BY <1>3, <1>4, <4>1, <4>2
    <3>3. CASE x \in 1..j /\ x \in 1..m /\ g[x] = s[x]
      <4>1. CASE y \in 1..j /\ y \in 1..m /\ g[y] = s[y]
        BY <1>17, <2>1, <3>3, <4>1
      <4>2. CASE y = j + 1 /\ g[y] = t
        BY <3>1, <3>3, <4>2
      <4>3. CASE y - 1 \in (j + 1)..m /\ y - 1 \in 1..m /\ g[y] = s[y - 1]
        <5>1. x <= y - 1
          BY <1>7, <3>3, <4>3
        <5>2. QED
          BY <1>17, <3>3, <4>3, <5>1
      <4>4. QED
        BY <1>11, <4>1, <4>2, <4>3
    <3>4. CASE x = j + 1 /\ g[x] = t
      <4>1. CASE y = j + 1
        BY <1>4, <3>4, <4>1
      <4>2. CASE y - 1 \in (j + 1)..m /\ y - 1 \in 1..m /\ g[y] = s[y - 1]
        BY <3>2, <3>4, <4>2
      <4>3. ~(y \in 1..j)
        BY <1>7, <2>1, <3>4
      <4>4. QED
        BY <1>11, <4>1, <4>2, <4>3
    <3>5. CASE x - 1 \in (j + 1)..m /\ x - 1 \in 1..m /\ g[x] = s[x - 1]
      <4>1. ~(y \in 1..j) /\ y # j + 1
        BY <1>7, <2>1, <3>5
      <4>2. y - 1 \in 1..m /\ g[y] = s[y - 1] /\ x - 1 <= y - 1
        BY <1>11, <2>1, <4>1
      <4>3. QED
        BY <1>17, <3>5, <4>2
    <3>6. QED
      BY <1>11, <3>3, <3>4, <3>5
  <2>2. QED
    BY <1>12, <2>1 DEF Sorted
<1>19. Tokens(g, m + 1, n)
  BY <1>9, <1>16 DEF Tokens
<1>20. QED
  BY <1>13, <1>18, <1>19 DEF g, Orders

\* U holds what is sorted after each round of sort_desc.
Inserts(U, a, m, vals) == U[0] = <<>> /\ \A i \in 1..m : U[i] = Insert(U[i - 1], a[i], vals)

(* sort_desc runs over the candidates.                                     *)
LEMMA SortScan ==
  ASSUME NEW n \in Nat, NEW m \in Nat, NEW a \in [1..m -> 1..n], NEW vals
  PROVE  \E U : sort_desc(a, vals) = U[m] /\ Inserts(U, a, m, vals)
<1> DEFINE X == Seq(1..n)
           Put(s, i) == Insert(s, a[i], vals)
           st == [x \in X \X (1..m) |-> Put(x[1], x[2])]
           Body(f, i) == IF i = 0 THEN <<>>
                         ELSE LET s == f[i - 1]
                                  j == Cardinality({k \in DOMAIN s : vals[s[k]] >= vals[a[i]]})
                              IN SubSeq(s, 1, j) \o <<a[i]>> \o SubSeq(s, j + 1, Len(s))
           U == CHOOSE f : f = [i \in 0..m |-> Body(f, i)]
<1>1. Len(a) = m
  OBVIOUS
<1>2. ASSUME NEW f, NEW i \in 0..m PROVE Body(f, i) = IF i = 0 THEN <<>> ELSE Put(f[i - 1], i)
  BY DEF Insert, PutAt, Ahead
<1>3. sort_desc(a, vals) = U[m]
  BY <1>1 DEF sort_desc
<1> HIDE DEF Body
<1>4. ASSUME NEW s \in X, NEW i \in 1..m PROVE Put(s, i) \in X
  <2> DEFINE K == Ahead(s, a[i], vals)
             j == Cardinality(K)
             g == PutAt(s, a[i], j)
  <2>1. Len(s) \in Nat /\ DOMAIN s = 1..Len(s)
    BY LenProperties
  <2>2. K \in SUBSET (1..Len(s))
    BY <2>1 DEF Ahead
  <2>3. Put(s, i) = g
    BY DEF Insert
  <2> HIDE DEF K
  <2>4. IsFiniteSet(1..Len(s)) /\ Cardinality(1..Len(s)) = Len(s)
    <3>1. 1 \in Int /\ Len(s) \in Int
      BY <2>1
    <3>2. IsFiniteSet(1..Len(s)) /\ Cardinality(1..Len(s)) = IF 1 > Len(s) THEN 0 ELSE (Len(s) - 1) + 1
      BY <3>1, FS_Interval
    <3>3. QED
      BY <2>1, <3>2
  <2>5. IsFiniteSet(K) /\ Cardinality(K) <= Len(s)
    <3> DEFINE D == 1..Len(s)
    <3>1. K \in SUBSET D /\ IsFiniteSet(D) /\ Cardinality(D) = Len(s)
      BY <2>2, <2>4
    <3> HIDE DEF D
    <3>2. IsFiniteSet(K) /\ Cardinality(K) <= Cardinality(D)
      BY <3>1, FS_Subset
    <3>3. QED
      BY <3>1, <3>2
  <2>6. j \in 0..Len(s)
    BY <2>1, <2>5, FS_CardinalityType
  <2> HIDE DEF j
  <2>7. a[i] \in 1..n
    OBVIOUS
  <2>8. g \in [1..(Len(s) + 1) -> 1..n]
    BY <2>6, <2>7, InsertPlaces
  <2> HIDE DEF g
  <2>9. g \in Seq(1..n)
    <3> DEFINE N == Len(s) + 1
    <3>1. N \in Nat /\ g \in [1..N -> 1..n]
      BY <2>1, <2>8
    <3> HIDE DEF N
    <3>2. QED
      BY <3>1, IsASeq
  <2>10. QED
    BY <2>3, <2>9
<1> HIDE DEF Put
<1>5. st \in [X \X (1..m) -> X]
  <2>1. ASSUME NEW x \in X \X (1..m) PROVE Put(x[1], x[2]) \in X
    <3>1. x[1] \in X /\ x[2] \in 1..m
      OBVIOUS
    <3> HIDE DEF X
    <3>2. QED
      BY <1>4, <3>1
  <2> HIDE DEF X
  <2>2. QED
    BY <2>1
<1>6. \A s \in X : \A i \in 1..m : st[<<s, i>>] = Put(s, i)
  <2> HIDE DEF X
  <2>1. QED
    OBVIOUS
<1>7. <<>> \in X
  BY EmptySeq
<1> HIDE DEF X, st
<1>8. PICK f : Iterates(f, m, <<>>, st)
  BY <1>5, <1>7, IterateExists
<1>9. \A i \in 0..m : f[i] \in X
  BY <1>5, <1>7, <1>8, IterateType
<1>10. ASSUME NEW i \in 0..m PROVE Body(f, i) = IF i = 0 THEN <<>> ELSE st[<<f[i - 1], i>>]
  <2>1. CASE i = 0
    BY <1>2, <2>1
  <2>2. CASE i # 0
    <3>1. i \in 1..m /\ i - 1 \in 0..m
      BY <2>2
    <3>2. st[<<f[i - 1], i>>] = Put(f[i - 1], i)
      BY <1>6, <1>9, <3>1
    <3>3. QED
      BY <1>2, <2>2, <3>2
  <2>3. QED
    BY <2>1, <2>2
<1>11. f = [i \in 0..m |-> Body(f, i)]
  BY <1>8, <1>10 DEF Iterates
<1>12. U = [i \in 0..m |-> Body(U, i)]
  BY <1>11
<1> HIDE DEF U
<1>13. \A i \in 0..m : U[i] = IF i = 0 THEN <<>> ELSE Put(U[i - 1], i)
  BY <1>2, <1>12
<1>14. U[0] = <<>>
  BY <1>13
<1>15. \A i \in 1..m : U[i] = Put(U[i - 1], i)
  BY <1>13
<1>16. Inserts(U, a, m, vals)
  BY <1>14, <1>15 DEF Inserts, Put
<1>17. QED
  BY <1>3, <1>16

\* The first k tokens of pi.
Prefix(pi, k) == {pi[i] : i \in 1..k}

(* What is sorted is what was to be sorted, in order.                      *)
LEMMA SortIs ==
  ASSUME NEW n \in Nat, NEW vals \in [1..n -> Nat], NEW m \in Nat, NEW a, Tokens(a, m, n)
  PROVE  Orders(sort_desc(a, vals), ToSet(a), m, n, vals)
<1>1. a \in [1..m -> 1..n] /\ Distinct(a) /\ DOMAIN a = 1..m
  BY DEF Tokens
<1>2. PICK U : sort_desc(a, vals) = U[m] /\ Inserts(U, a, m, vals)
  BY <1>1, SortScan
<1> DEFINE T == {i \in 0..m : Orders(U[i], Prefix(a, i), i, n, vals)}
<1>3. 0 \in T
  <2>1. U[0] = <<>>
    BY <1>2 DEF Inserts
  <2>2. <<>> \in [1..0 -> 1..n] /\ DOMAIN <<>> = {} /\ 1..0 = {} /\ 0 \in 0..m
    OBVIOUS
  <2>3. ToSet(<<>>) = {} /\ Prefix(a, 0) = {}
    BY <2>2 DEF ToSet, Prefix
  <2>4. Distinct(<<>>) /\ Sorted(<<>>, vals)
    BY <2>2 DEF Distinct, Sorted
  <2>5. Orders(<<>>, {}, 0, n, vals)
    BY <2>2, <2>3, <2>4 DEF Orders, Tokens
  <2>6. QED
    BY <2>1, <2>2, <2>3, <2>5
<1>4. ASSUME NEW i \in 0..(m - 1), i \in T PROVE i + 1 \in T
  <2> DEFINE s == U[i]
             t == a[i + 1]
  <2>1. i + 1 \in 1..m /\ i + 1 \in 0..m /\ (i + 1) - 1 = i /\ i \in Nat
    OBVIOUS
  <2>2. Tokens(s, i, n) /\ Sorted(s, vals) /\ ToSet(s) = Prefix(a, i)
    BY <1>4 DEF Orders
  <2>3. t \in 1..n
    BY <1>1, <2>1
  <2>4. t \notin Prefix(a, i)
    <3>1. ASSUME NEW k \in 1..i PROVE a[k] # t
      <4>1. k \in 1..m /\ k # i + 1
        BY <2>1
      <4>2. QED
        BY <1>1, <2>1, <4>1 DEF Distinct
    <3>2. QED
      BY <3>1 DEF Prefix
  <2>5. U[i + 1] = Insert(s, t, vals)
    <3>1. U[i + 1] = Insert(U[(i + 1) - 1], a[i + 1], vals)
      BY <1>2, <2>1 DEF Inserts
    <3>2. QED
      BY <2>1, <3>1
  <2>6. Prefix(a, i + 1) = Prefix(a, i) \cup {t}
    <3>1. 1..(i + 1) = (1..i) \cup {i + 1}
      BY <2>1
    <3>2. QED
      BY <3>1 DEF Prefix
  <2> HIDE DEF s, t
  <2>7. Orders(Insert(s, t, vals), ToSet(s) \cup {t}, i + 1, n, vals)
    BY <2>1, <2>2, <2>3, <2>4, InsertIs
  <2>8. QED
    BY <2>1, <2>2, <2>5, <2>6, <2>7
<1>5. \A i \in 0..(m - 1) : i \in T => i + 1 \in T
  BY <1>4
<1> HIDE DEF T
<1>6. \A i \in 0..m : i \in T
  BY <1>3, <1>5, UpTo
<1>7. m \in T
  BY <1>6
<1>8. Orders(U[m], Prefix(a, m), m, n, vals)
  BY <1>7 DEF T
<1>9. Prefix(a, m) = ToSet(a)
  BY <1>1 DEF Prefix, ToSet
<1>10. QED
  BY <1>2, <1>8, <1>9

\* The cap best tokens, in order.
Candidates(pi, n, L, vals) ==
  /\ Tokens(pi, L, n) /\ Sorted(pi, vals)
  /\ \A t \in ToSet(pi) : \A u \in (1..n) \ ToSet(pi) : vals[u] <= vals[t]
  /\ L = n => ToSet(pi) = 1..n

(* What the selection leaves are the candidates.                           *)
LEMMA CandidatesIs ==
  ASSUME NEW n \in Nat \ {0}, NEW vals \in [1..n -> Nat], NEW cap \in 1..n
  PROVE  Candidates(sort_desc(select_top(cap, vals), vals), n, cap, vals)
<1> DEFINE h == select_top(cap, vals)
           pi == sort_desc(h, vals)
<1>1. Held(h, n, n, cap, vals)
  BY SelectIs
<1> HIDE DEF h
<1>2. (IF n < cap THEN n ELSE cap) = cap /\ cap \in Nat
  OBVIOUS
<1>3. h \in [1..cap -> 1..n] /\ Distinct(h) /\ BestOf(ToSet(h), n, vals) /\ (n <= cap => ToSet(h) = 1..n)
  BY <1>1, <1>2 DEF Held
<1>4. Tokens(h, cap, n)
  BY <1>3 DEF Tokens
<1>5. Orders(pi, ToSet(h), cap, n, vals)
  BY <1>2, <1>4, SortIs
<1> HIDE DEF pi
<1>6. cap = n => n <= cap
  OBVIOUS
<1>7. Candidates(pi, n, cap, vals)
  BY <1>3, <1>5, <1>6 DEF Candidates, Orders, BestOf
<1>8. QED
  BY <1>7 DEF pi, h

-----------------------------------------------------------------------------
(* Sums of weights.                                                        *)

\* f holds the running totals of g.
Adds(f, n, g) == f = [i \in 0..n |-> IF i = 0 THEN 0 ELSE f[i - 1] + g[i]]
Totals(f, n, g) == f \in [0..n -> Nat] /\ f[0] = 0 /\ \A i \in 1..n : f[i] = f[i - 1] + g[i]

(* There are running totals.                                               *)
LEMMA TotalsExist ==
  ASSUME NEW n \in Nat, NEW g \in [1..n -> Nat]
  PROVE  \E f : Adds(f, n, g)
<1> DEFINE st == [x \in Nat \X (1..n) |-> x[1] + g[x[2]]]
<1>1. st \in [Nat \X (1..n) -> Nat] /\ \A c \in Nat : \A i \in 1..n : st[<<c, i>>] = c + g[i]
  OBVIOUS
<1> HIDE DEF st
<1>2. 0 \in Nat
  OBVIOUS
<1>3. PICK f : Iterates(f, n, 0, st)
  BY <1>1, <1>2, IterateExists
<1>4. \A i \in 0..n : f[i] \in Nat
  BY <1>1, <1>2, <1>3, IterateType
<1>5. ASSUME NEW i \in 0..n PROVE (IF i = 0 THEN 0 ELSE st[<<f[i - 1], i>>]) = IF i = 0 THEN 0 ELSE f[i - 1] + g[i]
  <2>1. CASE i = 0
    BY <2>1
  <2>2. CASE i # 0
    <3>1. i \in 1..n /\ f[i - 1] \in Nat
      BY <1>4, <2>2
    <3>2. QED
      BY <1>1, <2>2, <3>1
  <2>3. QED
    BY <2>1, <2>2
<1>6. QED
  BY <1>3, <1>5 DEF Iterates, Adds

(* They are numbers, and grow by what is added.                          *)
LEMMA AddsIs ==
  ASSUME NEW n \in Nat, NEW g \in [1..n -> Nat], NEW f, Adds(f, n, g)
  PROVE  Totals(f, n, g)
<1> DEFINE T == {i \in 0..n : f[i] \in Nat}
<1>1. DOMAIN f = 0..n /\ \A i \in 0..n : f[i] = IF i = 0 THEN 0 ELSE f[i - 1] + g[i]
  BY DEF Adds
<1>2. f[0] = 0
  BY <1>1
<1>3. \A i \in 1..n : f[i] = f[i - 1] + g[i]
  BY <1>1
<1>4. 0 \in T
  BY <1>2
<1>5. ASSUME NEW i \in 0..(n - 1), i \in T PROVE i + 1 \in T
  <2>1. i + 1 \in 1..n /\ i + 1 \in 0..n /\ (i + 1) - 1 = i
    OBVIOUS
  <2>2. f[i + 1] = f[i] + g[i + 1]
    BY <1>3, <2>1
  <2>3. f[i] \in Nat /\ g[i + 1] \in Nat
    BY <1>5, <2>1
  <2>4. QED
    BY <2>1, <2>2, <2>3
<1>6. \A i \in 0..(n - 1) : i \in T => i + 1 \in T
  BY <1>5
<1> HIDE DEF T
<1>7. \A i \in 0..n : i \in T
  BY <1>4, <1>6, UpTo
<1>8. \A i \in 0..n : f[i] \in Nat
  BY <1>7 DEF T
<1>9. f \in [0..n -> Nat]
  <2>1. f = [i \in 0..n |-> f[i]]
    BY DEF Adds
  <2>2. QED
    BY <1>8, <2>1
<1>10. QED
  BY <1>2, <1>3, <1>9 DEF Totals

\* The weights of the first k of pi, and of the tokens of S alone.
Along(pi, k, vals) == [i \in 1..k |-> vals[pi[i]]]
Part(w, S, n) == [i \in 1..n |-> IF i \in S THEN w[i] ELSE 0]

(* Sum is such a total, along the candidates.                              *)
LEMMA SumTotals ==
  ASSUME NEW n \in Nat, NEW vals \in [1..n -> Nat], NEW L \in Nat, NEW pi \in [1..L -> 1..n],
         NEW k \in 0..L
  PROVE  \E f : Sum(pi, k, vals) = f[k] /\ Totals(f, k, Along(pi, k, vals))
<1> DEFINE g == Along(pi, k, vals)
           f == CHOOSE S : S = [i \in 0..k |-> IF i = 0 THEN 0 ELSE S[i - 1] + vals[pi[i]]]
<1>1. Sum(pi, k, vals) = f[k]
  BY DEF Sum
<1>2. g \in [1..k -> Nat] /\ \A i \in 1..k : g[i] = vals[pi[i]]
  BY DEF Along
<1> HIDE DEF g
<1>3. k \in Nat
  OBVIOUS
<1>4. PICK S : Adds(S, k, g)
  BY <1>2, <1>3, TotalsExist
<1>5. S = [i \in 0..k |-> IF i = 0 THEN 0 ELSE S[i - 1] + vals[pi[i]]]
  <2>1. \A i \in 0..k : i # 0 => g[i] = vals[pi[i]]
    BY <1>2
  <2>2. QED
    BY <1>4, <2>1 DEF Adds
<1>6. f = [i \in 0..k |-> IF i = 0 THEN 0 ELSE f[i - 1] + vals[pi[i]]]
  BY <1>5
<1> HIDE DEF f
<1>7. Adds(f, k, g)
  <2>1. \A i \in 0..k : i # 0 => g[i] = vals[pi[i]]
    BY <1>2
  <2>2. QED
    BY <1>6, <2>1 DEF Adds
<1>8. Totals(f, k, g)
  BY <1>2, <1>3, <1>7, AddsIs
<1>9. QED
  BY <1>1, <1>8 DEF g

(* And Total, over the whole vocabulary.                                 *)
LEMMA TotalTotals ==
  ASSUME NEW n \in Nat, NEW vals \in [1..n -> Nat]
  PROVE  \E f : Total(vals) = f[n] /\ Totals(f, n, vals)
<1> DEFINE f == CHOOSE S : S = [i \in 0..n |-> IF i = 0 THEN 0 ELSE S[i - 1] + vals[i]]
<1>1. Len(vals) = n
  OBVIOUS
<1>2. Total(vals) = f[n]
  BY <1>1 DEF Total
<1>3. PICK S : Adds(S, n, vals)
  BY TotalsExist
<1>4. Adds(f, n, vals)
  BY <1>3 DEF Adds
<1> HIDE DEF f
<1>5. Totals(f, n, vals)
  BY <1>4, AddsIs
<1>6. QED
  BY <1>2, <1>5

(* And WeightOf, over the tokens of a set.                               *)
LEMMA WeightTotals ==
  ASSUME NEW n \in Nat, NEW w \in [1..n -> Nat], NEW S
  PROVE  \E f : WeightOf(w, S) = f[n] /\ Totals(f, n, Part(w, S, n))
<1> DEFINE g == Part(w, S, n)
           f == CHOOSE W : W = [t \in 0..n |-> IF t = 0 THEN 0
                                               ELSE W[t - 1] + (IF t \in S THEN w[t] ELSE 0)]
<1>1. Len(w) = n
  OBVIOUS
<1>2. WeightOf(w, S) = f[n]
  BY <1>1 DEF WeightOf
<1>3. g \in [1..n -> Nat] /\ \A i \in 1..n : g[i] = IF i \in S THEN w[i] ELSE 0
  BY DEF Part
<1> HIDE DEF g
<1>4. \A t \in 0..n : t # 0 => (IF t \in S THEN w[t] ELSE 0) = g[t]
  BY <1>3
<1>5. PICK W : Adds(W, n, g)
  BY <1>3, TotalsExist
<1>6. W = [t \in 0..n |-> IF t = 0 THEN 0 ELSE W[t - 1] + (IF t \in S THEN w[t] ELSE 0)]
  BY <1>4, <1>5 DEF Adds
<1>7. f = [t \in 0..n |-> IF t = 0 THEN 0 ELSE f[t - 1] + (IF t \in S THEN w[t] ELSE 0)]
  BY <1>6
<1> HIDE DEF f
<1>8. Adds(f, n, g)
  BY <1>4, <1>7 DEF Adds
<1>9. Totals(f, n, g)
  BY <1>3, <1>8, AddsIs
<1>10. QED
  BY <1>2, <1>9 DEF g

(* The weight of two sets that share no token is the sum of theirs.        *)
LEMMA WeightJoin ==
  ASSUME NEW n \in Nat, NEW w \in [1..n -> Nat], NEW A, NEW B, A \cap B = {}
  PROVE  WeightOf(w, A \cup B) = WeightOf(w, A) + WeightOf(w, B)
<1> DEFINE C == A \cup B
<1>1. PICK a : WeightOf(w, A) = a[n] /\ Totals(a, n, Part(w, A, n))
  BY WeightTotals
<1>2. PICK b : WeightOf(w, B) = b[n] /\ Totals(b, n, Part(w, B, n))
  BY WeightTotals
<1>3. PICK c : WeightOf(w, C) = c[n] /\ Totals(c, n, Part(w, C, n))
  BY WeightTotals
<1> DEFINE T == {i \in 0..n : c[i] = a[i] + b[i]}
<1>4. 0 \in T
  BY <1>1, <1>2, <1>3 DEF Totals
<1>5. ASSUME NEW i \in 0..(n - 1), i \in T PROVE i + 1 \in T
  <2> DEFINE m == i + 1
  <2>1. m \in 1..n /\ m \in 0..n /\ m - 1 = i
    OBVIOUS
  <2>2. /\ a[m] = a[i] + Part(w, A, n)[m] /\ b[m] = b[i] + Part(w, B, n)[m]
        /\ c[m] = c[i] + Part(w, C, n)[m]
    <3> HIDE DEF m, C
    <3>1. /\ a[m] = a[m - 1] + Part(w, A, n)[m] /\ b[m] = b[m - 1] + Part(w, B, n)[m]
          /\ c[m] = c[m - 1] + Part(w, C, n)[m]
      BY <1>1, <1>2, <1>3, <2>1 DEF Totals
    <3>2. QED
      BY <2>1, <3>1
  <2>3. a[i] \in Nat /\ b[i] \in Nat /\ c[i] = a[i] + b[i] /\ w[m] \in Nat
    BY <1>1, <1>2, <1>5, <2>1 DEF Totals
  <2>4. /\ Part(w, A, n)[m] = IF m \in A THEN w[m] ELSE 0
        /\ Part(w, B, n)[m] = IF m \in B THEN w[m] ELSE 0
        /\ Part(w, C, n)[m] = IF m \in C THEN w[m] ELSE 0
    <3> HIDE DEF m, C
    <3>1. QED
      BY <2>1 DEF Part
  <2>5. (m \in C <=> m \in A \/ m \in B) /\ ~(m \in A /\ m \in B)
    OBVIOUS
  <2> HIDE DEF m, C
  <2>6. c[m] = a[m] + b[m]
    BY <2>2, <2>3, <2>4, <2>5
  <2>7. QED
    BY <2>1, <2>6 DEF m
<1>6. \A i \in 0..(n - 1) : i \in T => i + 1 \in T
  BY <1>5
<1> HIDE DEF T, C
<1>7. \A i \in 0..n : i \in T
  BY <1>4, <1>6, UpTo
<1>8. n \in T
  BY <1>7
<1>9. QED
  BY <1>1, <1>2, <1>3, <1>8 DEF T, C

\* The tokens of X weigh v each.
Each(X, v, w) == \A x \in X : w[x] = v

(* Then v for each of them is the weight of X.                             *)
LEMMA WeightSame ==
  ASSUME NEW n \in Nat, NEW w \in [1..n -> Nat], NEW X, X \subseteq 1..n, NEW v \in Nat,
         Each(X, v, w)
  PROVE  WeightOf(w, X) = v * Cardinality(X)
<1> DEFINE Y(i) == {x \in X : x <= i}
           c(i) == Cardinality(Y(i))
<1>1. PICK f : WeightOf(w, X) = f[n] /\ Totals(f, n, Part(w, X, n))
  BY WeightTotals
<1>2. IsFiniteSet(1..n)
  <2>1. 1 \in Int /\ n \in Int
    OBVIOUS
  <2>2. QED
    BY <2>1, FS_Interval
<1>3. IsFiniteSet(X)
  BY <1>2, FS_Subset
<1>4. \A x \in X : x \in Int /\ 1 <= x /\ x <= n
  OBVIOUS
<1>5. ASSUME NEW i \in 0..n PROVE IsFiniteSet(Y(i)) /\ c(i) \in Nat
  <2> DEFINE Z == Y(i)
  <2>1. Z \in SUBSET X
    OBVIOUS
  <2> HIDE DEF Z
  <2>2. IsFiniteSet(Z)
    BY <1>3, <2>1, FS_Subset
  <2>3. Cardinality(Z) \in Nat
    BY <2>2, FS_CardinalityType
  <2>4. QED
    BY <2>2, <2>3 DEF Z
<1> DEFINE T == {i \in 0..n : f[i] = v * c(i)}
<1>6. 0 \in T
  <2>1. Y(0) = {}
    <3>1. \A x \in X : ~(x <= 0)
      BY <1>4
    <3>2. QED
      BY <3>1
  <2>2. c(0) = 0
    BY <2>1, FS_EmptySet
  <2>3. f[0] = 0
    BY <1>1 DEF Totals
  <2> HIDE DEF c
  <2>4. v * c(0) = 0
    BY <2>2
  <2>5. QED
    BY <2>3, <2>4
<1>7. ASSUME NEW i \in 0..(n - 1), i \in T PROVE i + 1 \in T
  <2> DEFINE m == i + 1
             Z == Y(i)
  <2>1. m \in 1..n /\ m \in 0..n /\ m - 1 = i /\ i \in 0..n
    OBVIOUS
  <2>2. f[m] = f[i] + (IF m \in X THEN w[m] ELSE 0)
    <3> HIDE DEF m
    <3>1. f[m] = f[m - 1] + Part(w, X, n)[m]
      BY <1>1, <2>1 DEF Totals
    <3>2. Part(w, X, n)[m] = IF m \in X THEN w[m] ELSE 0
      BY <2>1 DEF Part
    <3>3. QED
      BY <2>1, <3>1, <3>2
  <2>3. f[i] = v * c(i) /\ c(i) \in Nat /\ IsFiniteSet(Z)
    BY <1>5, <1>7, <2>1
  <2>4. CASE m \in X
    <3>1. Y(m) = Z \cup {m} /\ m \notin Z
      <4>1. \A x \in X : x <= m <=> x <= i \/ x = m
        BY <1>4
      <4>2. ~(m <= i)
        OBVIOUS
      <4>3. QED
        BY <2>4, <4>1, <4>2
    <3> HIDE DEF Z, m
    <3>2. Cardinality(Z \cup {m}) = Cardinality(Z) + 1
      BY <2>3, <3>1, FS_AddElement
    <3>3. c(m) = c(i) + 1
      BY <3>1, <3>2 DEF Z
    <3>4. f[m] = f[i] + v
      BY <2>2, <2>4 DEF Each
    <3> HIDE DEF c
    <3>5. f[m] = v * c(m)
      <4>1. v * (c(i) + 1) = v * c(i) + v
        BY <2>3
      <4>2. QED
        BY <2>3, <3>3, <3>4, <4>1
    <3>6. QED
      BY <2>1, <3>5 DEF m
  <2>5. CASE m \notin X
    <3>1. Y(m) = Z
      <4>1. \A x \in X : x <= m <=> x <= i
        BY <1>4, <2>5
      <4>2. QED
        BY <4>1
    <3>2. c(m) = c(i)
      BY <3>1
    <3> HIDE DEF c, m
    <3>3. v * c(i) \in Nat
      BY <2>3
    <3>4. f[m] = f[i]
      BY <2>2, <2>3, <2>5, <3>3
    <3>5. QED
      BY <2>1, <2>3, <3>2, <3>4 DEF m
  <2>6. QED
    BY <2>4, <2>5
<1>8. \A i \in 0..(n - 1) : i \in T => i + 1 \in T
  BY <1>7
<1>9. Y(n) = X
  BY <1>4
<1>10. c(n) = Cardinality(X)
  BY <1>9
<1> HIDE DEF T
<1>11. \A i \in 0..n : i \in T
  BY <1>6, <1>8, UpTo
<1>12. n \in T
  BY <1>11
<1> HIDE DEF Y
<1>13. QED
  BY <1>1, <1>10, <1>12 DEF T

(* Weights are numbers.                                                    *)
LEMMA WeightType ==
  ASSUME NEW n \in Nat, NEW w \in [1..n -> Nat], NEW S
  PROVE  WeightOf(w, S) \in Nat
<1>1. PICK f : WeightOf(w, S) = f[n] /\ Totals(f, n, Part(w, S, n))
  BY WeightTotals
<1>2. QED
  BY <1>1 DEF Totals

(* That of one token is its own.                                         *)
LEMMA WeightOne ==
  ASSUME NEW n \in Nat, NEW w \in [1..n -> Nat], NEW x \in 1..n
  PROVE  WeightOf(w, {x}) = w[x]
<1> DEFINE X == {x}
           v == w[x]
<1>1. X \subseteq 1..n /\ v \in Nat /\ Each(X, v, w)
  BY DEF Each
<1>2. Cardinality(X) = 1
  BY FS_Singleton
<1> HIDE DEF X, v
<1>3. WeightOf(w, X) = v * Cardinality(X)
  BY <1>1, WeightSame
<1>4. v * 1 = v
  BY <1>1
<1>5. QED
  BY <1>2, <1>3, <1>4 DEF X, v

(* That of all tokens is Total.                                          *)
LEMMA WeightAll ==
  ASSUME NEW n \in Nat, NEW w \in [1..n -> Nat]
  PROVE  WeightOf(w, 1..n) = Total(w)
<1> DEFINE X == 1..n
<1>1. PICK f : WeightOf(w, X) = f[n] /\ Totals(f, n, Part(w, X, n))
  BY WeightTotals
<1>2. PICK g : Total(w) = g[n] /\ Totals(g, n, w)
  BY TotalTotals
<1> DEFINE T == {i \in 0..n : f[i] = g[i]}
<1>3. 0 \in T
  BY <1>1, <1>2 DEF Totals
<1>4. ASSUME NEW i \in 0..(n - 1), i \in T PROVE i + 1 \in T
  <2> DEFINE m == i + 1
  <2>1. m \in 1..n /\ m \in 0..n /\ m - 1 = i
    OBVIOUS
  <2> HIDE DEF m
  <2>2. f[m] = f[m - 1] + Part(w, X, n)[m] /\ g[m] = g[m - 1] + w[m]
    <3> HIDE DEF X
    <3>1. QED
      BY <1>1, <1>2, <2>1 DEF Totals
  <2>3. Part(w, X, n)[m] = w[m]
    BY <2>1 DEF Part
  <2>4. f[i] = g[i]
    BY <1>4
  <2>5. QED
    BY <2>1, <2>2, <2>3, <2>4 DEF m
<1>5. \A i \in 0..(n - 1) : i \in T => i + 1 \in T
  BY <1>4
<1> HIDE DEF T
<1>6. \A i \in 0..n : i \in T
  BY <1>3, <1>5, UpTo
<1>7. n \in T
  BY <1>6
<1>8. QED
  BY <1>1, <1>2, <1>7 DEF T

(* The prefixes of the candidates: one more token, its weight more.        *)
LEMMA PrefixNext ==
  ASSUME NEW n \in Nat, NEW L \in Nat, NEW pi, Tokens(pi, L, n), NEW k \in 0..(L - 1)
  PROVE  /\ Prefix(pi, k + 1) = Prefix(pi, k) \cup {pi[k + 1]}
         /\ pi[k + 1] \in 1..n /\ pi[k + 1] \notin Prefix(pi, k)
<1>1. pi \in [1..L -> 1..n] /\ DOMAIN pi = 1..L /\ Distinct(pi) /\ k + 1 \in 1..L
  BY DEF Tokens
<1>2. 1..(k + 1) = (1..k) \cup {k + 1}
  OBVIOUS
<1>3. Prefix(pi, k + 1) = Prefix(pi, k) \cup {pi[k + 1]}
  BY <1>2 DEF Prefix
<1>4. ASSUME NEW i \in 1..k PROVE pi[i] # pi[k + 1]
  <2>1. i \in 1..L /\ i # k + 1
    BY <1>1
  <2>2. QED
    BY <1>1, <2>1 DEF Distinct
<1>5. pi[k + 1] \notin Prefix(pi, k)
  BY <1>4 DEF Prefix
<1>6. QED
  BY <1>1, <1>3, <1>5

(* A prefix of k candidates has k tokens.                                  *)
LEMMA PrefixCount ==
  ASSUME NEW n \in Nat, NEW L \in Nat, NEW pi, Tokens(pi, L, n)
  PROVE  \A k \in 0..L : /\ Prefix(pi, k) \subseteq 1..n /\ IsFiniteSet(Prefix(pi, k))
                         /\ Cardinality(Prefix(pi, k)) = k
<1> DEFINE Good(A, k) == A \subseteq 1..n /\ IsFiniteSet(A) /\ Cardinality(A) = k
           T == {k \in 0..L : Good(Prefix(pi, k), k)}
<1>1. 0 \in T
  <2>1. Prefix(pi, 0) = {}
    BY DEF Prefix
  <2>2. Good({}, 0)
    BY FS_EmptySet
  <2> HIDE DEF Good
  <2>3. QED
    BY <2>1, <2>2
<1>2. ASSUME NEW k \in 0..(L - 1), k \in T PROVE k + 1 \in T
  <2> DEFINE A == Prefix(pi, k)
             t == pi[k + 1]
  <2>1. Prefix(pi, k + 1) = A \cup {t} /\ t \in 1..n /\ t \notin A
    BY PrefixNext
  <2>2. Good(A, k)
    BY <1>2
  <2> HIDE DEF A, t
  <2>3. IsFiniteSet(A \cup {t}) /\ Cardinality(A \cup {t}) = Cardinality(A) + 1
    BY <2>1, <2>2, FS_AddElement
  <2>4. Good(A \cup {t}, k + 1)
    BY <2>1, <2>2, <2>3
  <2>5. k + 1 \in 0..L
    OBVIOUS
  <2> HIDE DEF Good
  <2>6. QED
    BY <2>1, <2>4, <2>5
<1>3. \A k \in 0..(L - 1) : k \in T => k + 1 \in T
  BY <1>2
<1> HIDE DEF T
<1>4. \A k \in 0..L : k \in T
  BY <1>1, <1>3, UpTo
<1>5. QED
  BY <1>4 DEF T

(* Sum is the weight of a prefix.                                          *)
LEMMA PrefixWeight ==
  ASSUME NEW n \in Nat, NEW w \in [1..n -> Nat], NEW L \in Nat, NEW pi, Tokens(pi, L, n),
         NEW k \in 0..L
  PROVE  Sum(pi, k, w) = WeightOf(w, Prefix(pi, k))
<1>1. pi \in [1..L -> 1..n]
  BY DEF Tokens
<1>2. PICK f : Sum(pi, k, w) = f[k] /\ Totals(f, k, Along(pi, k, w))
  BY <1>1, SumTotals
<1> DEFINE T == {i \in 0..k : f[i] = WeightOf(w, Prefix(pi, i))}
<1>3. k \in Nat
  OBVIOUS
<1>4. 0 \in T
  <2>1. Prefix(pi, 0) = {}
    BY DEF Prefix
  <2>2. WeightOf(w, {}) = 0
    <3> DEFINE X == {}
    <3>1. X \subseteq 1..n /\ 0 \in Nat /\ Each(X, 0, w)
      BY DEF Each
    <3>2. Cardinality(X) = 0
      BY FS_EmptySet
    <3> HIDE DEF X
    <3>3. WeightOf(w, X) = 0 * Cardinality(X)
      BY <3>1, WeightSame
    <3>4. 0 * 0 = 0
      OBVIOUS
    <3>5. QED
      BY <3>2, <3>3, <3>4 DEF X
  <2>3. f[0] = 0
    BY <1>2 DEF Totals
  <2>4. 0 \in 0..k
    BY <1>3
  <2>5. f[0] = WeightOf(w, Prefix(pi, 0))
    BY <2>1, <2>2, <2>3
  <2>6. QED
    BY <2>4, <2>5
<1>5. ASSUME NEW i \in 0..(k - 1), i \in T PROVE i + 1 \in T
  <2> DEFINE A == Prefix(pi, i)
             t == pi[i + 1]
             m == i + 1
  <2>1. m \in 1..k /\ m \in 0..k /\ m - 1 = i /\ i \in 0..(L - 1)
    OBVIOUS
  <2>2. Prefix(pi, m) = A \cup {t} /\ t \in 1..n /\ t \notin A
    <3>1. PICK j \in 0..(L - 1) : j = i
      BY <2>1
    <3>2. /\ Prefix(pi, j + 1) = Prefix(pi, j) \cup {pi[j + 1]}
          /\ pi[j + 1] \in 1..n /\ pi[j + 1] \notin Prefix(pi, j)
      BY PrefixNext
    <3>3. QED
      BY <3>1, <3>2
  <2>3. f[m] = f[m - 1] + Along(pi, k, w)[m]
    <3> HIDE DEF m
    <3>1. QED
      BY <1>2, <2>1 DEF Totals
  <2>4. Along(pi, k, w)[m] = w[t]
    BY <2>1 DEF Along
  <2>5. f[i] = WeightOf(w, A)
    BY <1>5
  <2> HIDE DEF A, t, m
  <2>6. WeightOf(w, A \cup {t}) = WeightOf(w, A) + WeightOf(w, {t})
    BY <2>2, WeightJoin
  <2>7. WeightOf(w, {t}) = w[t]
    BY <2>2, WeightOne
  <2>8. f[m] = WeightOf(w, Prefix(pi, m))
    BY <2>1, <2>2, <2>3, <2>4, <2>5, <2>6, <2>7
  <2>9. QED
    BY <2>1, <2>8 DEF m
<1>6. \A i \in 0..(k - 1) : i \in T => i + 1 \in T
  BY <1>5
<1> HIDE DEF T
<1>7. \A i \in 0..k : i \in T
  BY <1>3, <1>4, <1>6, UpTo
<1>8. k \in T
  BY <1>7
<1>9. QED
  BY <1>2, <1>8 DEF T

(* All sets of the k largest weigh the same: where they differ, their      *)
(* tokens have one weight.                                                 *)
LEMMA LargestSame ==
  ASSUME NEW n \in Nat, NEW w \in [1..n -> Nat], NEW k,
         NEW S \in Largest(w, k), NEW T \in Largest(w, k)
  PROVE  WeightOf(w, S) = WeightOf(w, T)
<1>1. /\ S \subseteq 1..n /\ Cardinality(S) = k /\ \A t \in S : \A u \in (1..n) \ S : w[t] >= w[u]
      /\ T \subseteq 1..n /\ Cardinality(T) = k /\ \A t \in T : \A u \in (1..n) \ T : w[t] >= w[u]
  BY DEF Largest
<1> DEFINE A == S \ T
           B == T \ S
           C == S \cap T
<1>2. IsFiniteSet(S) /\ IsFiniteSet(T)
  <2>1. IsFiniteSet(1..n)
    <3>1. 1 \in Int /\ n \in Int
      OBVIOUS
    <3>2. QED
      BY <3>1, FS_Interval
  <2>2. QED
    BY <1>1, <2>1, FS_Subset
<1>3. Cardinality(A) = Cardinality(B) /\ IsFiniteSet(A) /\ IsFiniteSet(B)
  <2>1. Cardinality(S \ T) = Cardinality(S) - Cardinality(S \cap T) /\ IsFiniteSet(S \ T)
    BY <1>2, FS_Difference
  <2>2. Cardinality(T \ S) = Cardinality(T) - Cardinality(T \cap S) /\ IsFiniteSet(T \ S)
    BY <1>2, FS_Difference
  <2>3. S \cap T = T \cap S
    OBVIOUS
  <2>4. QED
    BY <1>1, <2>1, <2>2, <2>3
<1>4. /\ S = C \cup A /\ C \cap A = {} /\ T = C \cup B /\ C \cap B = {}
      /\ A \subseteq 1..n /\ B \subseteq 1..n
  BY <1>1
<1>5. \A a \in A : \A b \in B : w[a] = w[b]
  <2>1. ASSUME NEW a \in A, NEW b \in B PROVE w[a] = w[b]
    <3>1. a \in S /\ a \in (1..n) \ T /\ b \in T /\ b \in (1..n) \ S
      BY <1>1
    <3>2. w[a] >= w[b] /\ w[b] >= w[a] /\ w[a] \in Nat /\ w[b] \in Nat
      BY <1>1, <3>1
    <3>3. QED
      BY <3>2
  <2>2. QED
    BY <2>1
<1> HIDE DEF A, B, C
<1>6. WeightOf(w, A) = WeightOf(w, B)
  <2>1. CASE A = {}
    <3>1. B = {}
      <4>1. Cardinality(A) = 0
        BY <2>1, FS_EmptySet
      <4>2. QED
        BY <1>3, <4>1, FS_EmptySet
    <3>2. QED
      BY <2>1, <3>1
  <2>2. CASE A # {}
    <3>1. B # {}
      <4>1. SUFFICES ASSUME B = {} PROVE FALSE
        OBVIOUS
      <4>2. Cardinality(B) = 0
        BY <4>1, FS_EmptySet
      <4>3. QED
        BY <1>3, <2>2, <4>2, FS_EmptySet
    <3>2. PICK b \in B : TRUE
      BY <3>1
    <3> DEFINE v == w[b]
    <3>3. v \in Nat
      BY <1>4
    <3>4. Each(A, v, w) /\ Each(B, v, w)
      <4>1. \A a \in A : w[a] = v
        BY <1>5
      <4>2. PICK a \in A : TRUE
        BY <2>2
      <4>3. \A c \in B : w[c] = w[a]
        BY <1>5
      <4>4. QED
        BY <4>1, <4>3 DEF Each
    <3> HIDE DEF v
    <3>5. WeightOf(w, A) = v * Cardinality(A)
      BY <1>4, <3>3, <3>4, WeightSame
    <3>6. WeightOf(w, B) = v * Cardinality(B)
      BY <1>4, <3>3, <3>4, WeightSame
    <3>7. QED
      BY <1>3, <3>5, <3>6
  <2>3. QED
    BY <2>1, <2>2
<1>7. WeightOf(w, C \cup A) = WeightOf(w, C) + WeightOf(w, A)
  BY <1>4, WeightJoin
<1>8. WeightOf(w, C \cup B) = WeightOf(w, C) + WeightOf(w, B)
  BY <1>4, WeightJoin
<1>9. QED
  BY <1>4, <1>6, <1>7, <1>8

-----------------------------------------------------------------------------
(* The filters.                                                            *)

(* The least element, given one.                                           *)
LEMMA MinAt ==
  ASSUME NEW T, T \subseteq Int, NEW x \in T, \A y \in T : x <= y
  PROVE  Min(T) = x
<1>1. Min(T) \in T /\ \A y \in T : Min(T) <= y
  BY DEF Min
<1>2. Min(T) \in Int /\ x \in Int /\ Min(T) <= x /\ x <= Min(T)
  BY <1>1
<1>3. QED
  BY <1>2

(* And the greatest.                                                     *)
LEMMA MaxAt ==
  ASSUME NEW T, T \subseteq Int, NEW x \in T, \A y \in T : x >= y
  PROVE  Max(T) = x
<1>1. Max(T) \in T /\ \A y \in T : Max(T) >= y
  BY DEF Max
<1>2. Max(T) \in Int /\ x \in Int /\ Max(T) >= x /\ x >= Max(T)
  BY <1>1
<1>3. QED
  BY <1>2

(* No token weighs more than one of the first k candidates and is not one. *)
LEMMA PrefixBest ==
  ASSUME NEW n \in Nat, NEW w \in [1..n -> Nat], NEW L \in Nat, NEW pi, Candidates(pi, n, L, w),
         NEW k \in 1..L, NEW u \in (1..n) \ Prefix(pi, k)
  PROVE  \A i \in 1..k : w[u] <= w[pi[i]]
<1>1. pi \in [1..L -> 1..n] /\ DOMAIN pi = 1..L
  BY DEF Candidates, Tokens
<1>2. ASSUME NEW i \in 1..k PROVE w[u] <= w[pi[i]]
  <2>1. i \in 1..L
    OBVIOUS
  <2>2. CASE u \in ToSet(pi)
    <3>1. PICK j \in 1..L : u = pi[j]
      BY <1>1, <2>2 DEF ToSet
    <3>2. j \notin 1..k
      BY <3>1 DEF Prefix
    <3>3. i <= j
      BY <3>1, <3>2
    <3>4. QED
      BY <1>1, <2>1, <3>1, <3>3 DEF Candidates, Sorted
  <2>3. CASE u \notin ToSet(pi)
    <3>1. pi[i] \in ToSet(pi)
      BY <1>1, <2>1 DEF ToSet
    <3>2. QED
      BY <2>3, <3>1 DEF Candidates
  <2>4. QED
    BY <2>2, <2>3
<1>3. QED
  BY <1>2

(* The first k candidates are k of the largest.                            *)
LEMMA PrefixLargest ==
  ASSUME NEW n \in Nat, NEW w \in [1..n -> Nat], NEW L \in Nat, NEW pi, Candidates(pi, n, L, w),
         NEW k \in 1..L
  PROVE  Prefix(pi, k) \in Largest(w, k)
<1> DEFINE P == Prefix(pi, k)
<1>1. Tokens(pi, L, n) /\ pi \in [1..L -> 1..n]
  BY DEF Candidates, Tokens
<1>2. P \subseteq 1..n /\ Cardinality(P) = k
  <2>1. k \in 0..L
    OBVIOUS
  <2>2. QED
    BY <1>1, <2>1, PrefixCount
<1>3. ASSUME NEW t \in P, NEW u \in (1..n) \ P PROVE w[t] >= w[u]
  <2>1. PICK i \in 1..k : t = pi[i]
    BY DEF Prefix
  <2>2. w[u] <= w[pi[i]]
    BY PrefixBest
  <2>3. w[u] \in Nat /\ w[t] \in Nat
    BY <1>2
  <2>4. QED
    BY <2>1, <2>2, <2>3
<1>4. DOMAIN w = 1..n
  OBVIOUS
<1> HIDE DEF P
<1>5. P \in Largest(w, k)
  BY <1>2, <1>3, <1>4 DEF Largest
<1>6. QED
  BY <1>5 DEF P

\* The share of the k largest tokens is that of top-p, in the reference and in
\* the loop over the candidates.
Share(p, w, k) ==
  \A S \in Largest(w, k) : WeightOf(w, S) * 100 >= p.top_p * WeightOf(w, DOMAIN w)
Reach(p, pi, k, w) == Sum(pi, k, w) * 100 >= p.top_p * Total(w)

(* They are the same.                                                      *)
LEMMA ShareIs ==
  ASSUME NEW n \in Nat, NEW w \in [1..n -> Nat], NEW L \in Nat, NEW pi, Candidates(pi, n, L, w),
         NEW k \in 1..L, NEW p
  PROVE  Share(p, w, k) <=> Reach(p, pi, k, w)
<1> DEFINE P == Prefix(pi, k)
<1>1. P \in Largest(w, k)
  BY PrefixLargest
<1>2. Sum(pi, k, w) = WeightOf(w, P)
  <2>1. Tokens(pi, L, n) /\ k \in 0..L
    BY DEF Candidates
  <2>2. QED
    BY <2>1, PrefixWeight
<1>3. WeightOf(w, DOMAIN w) = Total(w)
  <2>1. DOMAIN w = 1..n
    OBVIOUS
  <2>2. QED
    BY <2>1, WeightAll
<1> HIDE DEF P
<1>4. \A S \in Largest(w, k) : WeightOf(w, S) = WeightOf(w, P)
  BY <1>1, LargestSame
<1>5. QED
  BY <1>1, <1>2, <1>3, <1>4 DEF Share, Reach

(* Without a filter, only all tokens together have the whole share.        *)
LEMMA ShareAll ==
  ASSUME NEW n \in Nat, NEW w \in [1..n -> Nat], NEW L \in 1..n, NEW pi, Candidates(pi, n, L, w),
         NEW k \in 1..(L - 1), NEW p, p.top_p \in Nat, p.top_p >= 100, \A t \in 1..n : w[t] > 0
  PROVE  ~Share(p, w, k)
<1> DEFINE P == Prefix(pi, k)
           x == pi[L]
           R == (1..n) \ (P \cup {x})
           a == WeightOf(w, P)
           b == WeightOf(w, R)
           q == p.top_p
<1>1. Tokens(pi, L, n) /\ pi \in [1..L -> 1..n] /\ Distinct(pi) /\ DOMAIN pi = 1..L
  BY DEF Candidates, Tokens
<1>2. k \in 1..L /\ k \in 0..L /\ L \in Nat
  OBVIOUS
<1>3. P \subseteq 1..n /\ x \in 1..n
  BY <1>1, <1>2, PrefixCount
<1>4. x \notin P
  <2>1. ASSUME NEW i \in 1..k PROVE pi[i] # x
    <3>1. i \in 1..L /\ L \in 1..L /\ i # L
      OBVIOUS
    <3>2. QED
      BY <1>1, <3>1 DEF Distinct
  <2>2. QED
    BY <2>1 DEF Prefix
<1>5. 1..n = (P \cup {x}) \cup R /\ (P \cup {x}) \cap R = {} /\ P \cap {x} = {}
  BY <1>3, <1>4
<1> HIDE DEF P, x, R
<1>6. WeightOf(w, (P \cup {x}) \cup R) = WeightOf(w, P \cup {x}) + WeightOf(w, R)
  BY <1>5, WeightJoin
<1>7. WeightOf(w, P \cup {x}) = WeightOf(w, P) + WeightOf(w, {x})
  BY <1>5, WeightJoin
<1>8. WeightOf(w, {x}) = w[x]
  BY <1>3, WeightOne
<1>9. WeightOf(w, 1..n) = (a + w[x]) + b
  BY <1>5, <1>6, <1>7, <1>8
<1>10. a \in Nat /\ b \in Nat /\ w[x] \in Nat /\ w[x] > 0 /\ q \in Nat /\ q >= 100
  BY <1>3, WeightType
<1>11. P \in Largest(w, k)
  BY <1>2, PrefixLargest DEF P
<1>12. DOMAIN w = 1..n
  OBVIOUS
<1> DEFINE y == w[x]
           c == (a + y) + b
<1>13. y \in Nat /\ y > 0
  BY <1>10
<1> HIDE DEF a, b, q, y
<1>14. ~(a * 100 >= q * c)
  <2>1. c \in Nat /\ c > a
    BY <1>10, <1>13
  <2> HIDE DEF c
  <2>2. q * c >= 100 * c
    <3>1. (q - 100) * c >= 0
      <4>1. q - 100 \in Nat
        BY <1>10
      <4>2. \A u, v \in Nat : u * v >= 0
        OBVIOUS
      <4>3. QED
        BY <2>1, <4>1, <4>2
    <3>2. (q - 100) * c = q * c - 100 * c
      BY <1>10, <2>1
    <3>3. q * c \in Int
      BY <1>10, <2>1
    <3>4. QED
      BY <2>1, <3>1, <3>2, <3>3
  <2>3. q * c \in Int
    BY <1>10, <2>1
  <2>4. QED
    BY <1>10, <2>1, <2>2, <2>3
<1>15. QED
  BY <1>9, <1>11, <1>12, <1>14 DEF Share, a, q, y

\* What min-p and top-p leave of the sorted vocabulary, as RefCutoff has it.
Kept(p, w) == {t \in DOMAIN w : w[t] * 100 >= p.min_p * Max({w[u] : u \in DOMAIN w})}
RefTop(p, w) == Min({Len(w)} \cup {k \in 1..Len(w) : Share(p, w, k)})

\* x is the least of a, b and c.
LeastOf(x, a, b, c) == x <= a /\ x <= b /\ x <= c /\ (x = a \/ x = b \/ x = c)

(* The loop of top-p stops at the share, or at the end of what min-p left. *)
LEMMA TopPIs ==
  ASSUME NEW n \in Nat, NEW w \in [1..n -> Nat], NEW L \in 1..n, NEW pi, Candidates(pi, n, L, w),
         NEW m \in 1..L, NEW p, p.top_p \in Nat, \A t \in 1..n : w[t] > 0
  PROVE  /\ TopPCutoff(p, pi, m, w) \in 1..m
         /\ RefTop(p, w) \in Nat
         /\ TopPCutoff(p, pi, m, w) <= RefTop(p, w)
         /\ TopPCutoff(p, pi, m, w) # m => TopPCutoff(p, pi, m, w) = RefTop(p, w)
<1> DEFINE R == {i \in 1..m : Reach(p, pi, i, w)}
           K == {k \in 1..n : Share(p, w, k)}
           c == TopPCutoff(p, pi, m, w)
           q == RefTop(p, w)
<1>1. c = IF p.top_p >= 100 \/ R = {} THEN m ELSE Min(R)
  BY DEF TopPCutoff, Reach
<1>2. q = Min({n} \cup K)
  <2>1. Len(w) = n
    OBVIOUS
  <2>2. QED
    BY <2>1 DEF RefTop
<1>3. \A i \in 1..L : Share(p, w, i) <=> Reach(p, pi, i, w)
  <2>1. L \in Nat
    OBVIOUS
  <2>2. QED
    BY <2>1, ShareIs
<1>4. \A i \in 1..m : i \in K <=> i \in R
  BY <1>3
<1>5. K \subseteq 1..n /\ R \subseteq 1..m /\ R \subseteq Nat
  OBVIOUS
<1>6. p.top_p >= 100 => \A i \in 1..(L - 1) : i \notin K
  BY ShareAll
<1> HIDE DEF R, K, c, q
<1>7. q \in {n} \cup K /\ \A y \in {n} \cup K : q <= y
  <2> DEFINE T == {n} \cup K
  <2>1. T \subseteq Nat /\ T # {}
    BY <1>5
  <2> HIDE DEF T
  <2>2. PICK x \in T : \A y \in T : x <= y
    BY <2>1, LeastNat
  <2>3. Min(T) \in T /\ \A y \in T : Min(T) <= y
    BY <2>2 DEF Min
  <2>4. QED
    BY <1>2, <2>3 DEF T
<1>8. q \in 1..n
  BY <1>5, <1>7
<1>9. CASE p.top_p >= 100
  <2>1. c = m
    BY <1>1, <1>9
  <2>2. q >= L
    BY <1>6, <1>7, <1>8, <1>9
  <2>3. QED
    BY <1>8, <2>1, <2>2 DEF c, q
<1>10. CASE ~(p.top_p >= 100) /\ R = {}
  <2>1. c = m
    BY <1>1, <1>10
  <2>2. q >= m
    BY <1>4, <1>7, <1>8, <1>10
  <2>3. QED
    BY <1>8, <2>1, <2>2 DEF c, q
<1>11. CASE ~(p.top_p >= 100) /\ R # {}
  <2>1. c = Min(R)
    BY <1>1, <1>11
  <2>2. PICK x \in R : \A y \in R : x <= y
    BY <1>5, <1>11, LeastNat
  <2>3. c \in R /\ \A y \in R : c <= y
    BY <2>1, <2>2 DEF Min
  <2>4. c \in 1..m /\ c \in K
    BY <1>4, <1>5, <2>3
  <2>5. q <= c
    BY <1>7, <2>4
  <2>6. q \in 1..m
    BY <1>8, <2>4, <2>5
  <2>7. q \in K
    BY <1>4, <1>7, <2>3, <2>4, <2>5, <2>6
  <2>8. c <= q
    BY <1>4, <2>3, <2>6, <2>7
  <2>9. QED
    BY <1>8, <2>4, <2>5, <2>8 DEF c, q
<1>12. QED
  BY <1>9, <1>10, <1>11

(* min-p keeps the tokens that are heavy enough, as far as there are       *)
(* candidates.                                                             *)
LEMMA MinPIs ==
  ASSUME NEW n \in Nat, NEW w \in [1..n -> Nat], NEW L \in 1..n, NEW pi, Candidates(pi, n, L, w),
         NEW p, p.min_p \in 0..100
  PROVE  /\ MinPCutoff(p, pi, w) \in 1..L
         /\ Cardinality(Kept(p, w)) \in Nat
         /\ MinPCutoff(p, pi, w) <= Cardinality(Kept(p, w))
         /\ MinPCutoff(p, pi, w) # L => MinPCutoff(p, pi, w) = Cardinality(Kept(p, w))
<1> DEFINE m == MinPCutoff(p, pi, w)
           M == Kept(p, w)
           q == p.min_p
           v == w[pi[1]]
           F(t) == w[t] * 100 >= q * v
<1>1. Tokens(pi, L, n) /\ pi \in [1..L -> 1..n] /\ DOMAIN pi = 1..L /\ L \in Nat /\ 1 \in 1..L
  BY DEF Candidates, Tokens
<1>2. Len(pi) = L /\ pi # <<>>
  BY <1>1
<1>3. pi[1] \in 1..n /\ v \in Nat
  BY <1>1
<1>4. ASSUME NEW u \in 1..n PROVE w[u] <= v
  <2>1. CASE u \in Prefix(pi, 1)
    <3>1. u = pi[1]
      BY <2>1 DEF Prefix
    <3>2. QED
      BY <1>3, <3>1
  <2>2. CASE u \notin Prefix(pi, 1)
    <3>1. \A i \in 1..1 : w[u] <= w[pi[i]]
      BY <1>1, <2>2, PrefixBest
    <3>2. QED
      BY <3>1
  <2>3. QED
    BY <2>1, <2>2
<1>5. Max({w[u] : u \in DOMAIN w}) = v
  <2> DEFINE T == {w[u] : u \in DOMAIN w}
  <2>1. T \subseteq Int /\ v \in T /\ \A y \in T : v >= y
    BY <1>3, <1>4
  <2> HIDE DEF T, v
  <2>2. Max(T) = v
    BY <2>1, MaxAt
  <2>3. QED
    BY <2>2 DEF T
<1>6. M = {t \in 1..n : F(t)}
  BY <1>5 DEF Kept
<1> DEFINE K == {k \in 1..L : \A i \in 1..k : F(pi[i])}
<1>7. m = IF q = 0 THEN L ELSE Max(K)
  BY <1>2 DEF MinPCutoff
<1>8. q \in 0..100 /\ q \in Nat
  <2>1. q \in 0..100
    BY Zenon
  <2> HIDE DEF q
  <2>2. QED
    BY <2>1
<1>9. IsFiniteSet(1..n) /\ Cardinality(1..n) = n
  <2>1. 1 \in Int /\ n \in Int
    OBVIOUS
  <2>2. IsFiniteSet(1..n) /\ Cardinality(1..n) = IF 1 > n THEN 0 ELSE (n - 1) + 1
    BY <2>1, FS_Interval
  <2>3. QED
    BY <2>2
<1> HIDE DEF m, M, q, v
<1>10. F(pi[1])
  <2>1. v * 100 >= q * v
    <3>1. (100 - q) * v >= 0
      <4>1. 100 - q \in Nat
        BY <1>8
      <4>2. \A x, y \in Nat : x * y >= 0
        OBVIOUS
      <4>3. QED
        BY <1>3, <4>1, <4>2
    <3>2. (100 - q) * v = v * 100 - q * v
      BY <1>3, <1>8
    <3>3. q * v \in Int
      BY <1>3, <1>8
    <3>4. QED
      BY <1>3, <3>1, <3>2, <3>3
  <2>2. QED
    BY <2>1 DEF v
<1>11. \A t, u \in 1..n : F(u) /\ w[u] <= w[t] => F(t)
  <2>1. q * v \in Int
    BY <1>3, <1>8
  <2> DEFINE z == q * v
  <2>2. z \in Int /\ \A t \in 1..n : F(t) <=> w[t] * 100 >= z
    BY <2>1
  <2>3. \A t \in 1..n : w[t] \in Nat
    OBVIOUS
  <2> HIDE DEF F, z
  <2>4. ASSUME NEW t \in 1..n, NEW u \in 1..n, F(u), w[u] <= w[t] PROVE F(t)
    <3>1. w[u] * 100 >= z /\ w[u] \in Nat /\ w[t] \in Nat
      BY <2>2, <2>3, <2>4
    <3>2. w[t] * 100 >= z
      BY <2>2, <2>4, <3>1
    <3>3. QED
      BY <2>2, <3>2
  <2>5. QED
    BY <2>4
<1>12. M \subseteq 1..n /\ IsFiniteSet(M) /\ Cardinality(M) \in Nat
  <2>1. M \in SUBSET (1..n)
    BY <1>6
  <2>2. IsFiniteSet(M)
    BY <1>9, <2>1, FS_Subset
  <2>3. QED
    BY <2>1, <2>2, FS_CardinalityType
<1>13. CASE q = 0
  <2>1. m = L
    BY <1>7, <1>13
  <2>2. M = 1..n
    <3>1. ASSUME NEW t \in 1..n PROVE F(t)
      <4>1. q * v = 0 /\ w[t] \in Nat
        BY <1>3, <1>13
      <4>2. QED
        BY <4>1
    <3>2. QED
      BY <1>6, <3>1
  <2>3. QED
    BY <1>1, <1>9, <1>12, <2>1, <2>2 DEF m, M
<1>14. CASE q # 0
  <2>1. m \in K /\ \A k \in K : k <= m
    <3>1. 1 \in K
      <4>1. \A i \in 1..1 : i = 1
        OBVIOUS
      <4> HIDE DEF F
      <4>2. \A i \in 1..1 : F(pi[i])
        BY <1>10, <4>1
      <4>3. QED
        BY <1>1, <4>2
    <3>2. K \subseteq 0..L /\ K # {}
      BY <3>1
    <3> HIDE DEF K
    <3>3. PICK x \in K : \A y \in K : x >= y
      <4> DEFINE G == {L - y : y \in K}
      <4>1. G \subseteq Nat /\ L - 1 \in G
        BY <3>1, <3>2
      <4> HIDE DEF G
      <4>2. PICK g \in G : \A h \in G : g <= h
        BY <4>1, LeastNat
      <4>3. PICK x \in K : g = L - x
        BY DEF G
      <4>4. ASSUME NEW y \in K PROVE x >= y
        <5>1. g <= L - y
          BY <4>2 DEF G
        <5>2. x \in 0..L /\ y \in 0..L
          BY <3>2
        <5>3. QED
          BY <1>1, <4>3, <5>1, <5>2
      <4>5. QED
        BY <4>4
    <3>4. Max(K) = x
      <4>1. K \subseteq Int
        BY <3>2
      <4>2. QED
        BY <3>3, <4>1, MaxAt
    <3>5. x \in Int /\ \A k \in K : k \in Int /\ k <= x
      BY <3>2, <3>3
    <3>6. QED
      BY <1>7, <1>14, <3>4, <3>5
  <2>2. m \in 1..L /\ m \in 0..L /\ \A i \in 1..m : F(pi[i])
    BY <2>1
  <2> DEFINE P == Prefix(pi, m)
  <2>3. P \subseteq 1..n /\ IsFiniteSet(P) /\ Cardinality(P) = m
    BY <1>1, <2>2, PrefixCount
  <2>4. P \subseteq M
    <3>1. ASSUME NEW t \in P PROVE F(t)
      <4>1. PICK i \in 1..m : t = pi[i]
        BY DEF Prefix
      <4> HIDE DEF F
      <4>2. QED
        BY <2>2, <4>1
    <3> HIDE DEF F
    <3>2. QED
      BY <1>6, <2>3, <3>1
  <2>5. m <= Cardinality(M)
    <3> HIDE DEF P
    <3>1. P \in SUBSET M
      BY <2>4
    <3>2. Cardinality(P) <= Cardinality(M)
      BY <1>12, <3>1, FS_Subset
    <3>3. QED
      BY <2>3, <3>2
  <2>6. ASSUME m # L PROVE m = Cardinality(M)
    <3> DEFINE j == m + 1
    <3>1. j \in 1..L
      BY <2>2, <2>6
    <3>2. ~F(pi[j])
      <4>1. SUFFICES ASSUME F(pi[j]) PROVE FALSE
        OBVIOUS
      <4> HIDE DEF F
      <4>2. \A i \in 1..j : i \in 1..m \/ i = j
        BY <2>2
      <4>3. \A i \in 1..j : F(pi[i])
        BY <2>2, <4>1, <4>2
      <4>4. j \in K
        BY <3>1, <4>3
      <4>5. QED
        BY <2>1, <2>2, <4>4
    <3>3. ASSUME NEW u \in M, u \notin P PROVE FALSE
      <4>1. u \in 1..n /\ F(u)
        BY <1>6
      <4>2. pi[j] \in 1..n
        BY <1>1, <3>1
      <4>3. w[u] <= w[pi[j]]
        <5>1. CASE u \in Prefix(pi, j)
          <6>1. PICK i \in 1..j : u = pi[i]
            BY <5>1 DEF Prefix
          <6>2. i \notin 1..m
            BY <3>3, <6>1 DEF Prefix
          <6>3. i = j
            BY <2>2, <6>1, <6>2
          <6>4. QED
            BY <4>2, <6>1, <6>3
        <5>2. CASE u \notin Prefix(pi, j)
          <6> HIDE DEF j
          <6>1. \A i \in 1..j : w[u] <= w[pi[i]]
            BY <1>1, <3>1, <4>1, <5>2, PrefixBest
          <6>2. j \in 1..j
            BY <3>1
          <6>3. QED
            BY <6>1, <6>2
        <5>3. QED
          BY <5>1, <5>2
      <4> HIDE DEF F, j
      <4>4. QED
        BY <1>11, <3>2, <4>1, <4>2, <4>3
    <3>4. M = P
      BY <2>4, <3>3
    <3>5. QED
      BY <2>3, <3>4
  <2>7. QED
    BY <1>12, <2>2, <2>5, <2>6 DEF m, M
<1>15. QED
  BY <1>13, <1>14

(* The loop's cutoff is the least of what there is and what the filters    *)
(* leave.                                                                  *)
LEMMA CutoffExact ==
  ASSUME NEW n \in Nat, NEW w \in [1..n -> Nat], NEW L \in 1..n, NEW pi, Candidates(pi, n, L, w),
         NEW p, p.min_p \in 0..100, p.top_p \in Nat, \A t \in 1..n : w[t] > 0
  PROVE  /\ TopPCutoff(p, pi, MinPCutoff(p, pi, w), w) \in 1..L
         /\ Cardinality(Kept(p, w)) \in Nat /\ RefTop(p, w) \in Nat
         /\ LeastOf(TopPCutoff(p, pi, MinPCutoff(p, pi, w), w), L, Cardinality(Kept(p, w)), RefTop(p, w))
<1> DEFINE m == MinPCutoff(p, pi, w)
           c == TopPCutoff(p, pi, m, w)
           a == Cardinality(Kept(p, w))
           b == RefTop(p, w)
<1>1. m \in 1..L /\ a \in Nat /\ m <= a /\ (m # L => m = a)
  BY MinPIs
<1> HIDE DEF m, a
<1>2. c \in 1..m /\ b \in Nat /\ c <= b /\ (c # m => c = b)
  BY <1>1, TopPIs
<1> HIDE DEF c, b
<1>3. c \in 1..L /\ LeastOf(c, L, a, b)
  BY <1>1, <1>2 DEF LeastOf
<1>4. QED
  BY <1>1, <1>2, <1>3 DEF c, m, a, b

\* The survivors are the first of the candidates, as many as the reference has.
Survive(s, pi, L, n, p, w) ==
  /\ L \in 1..n /\ Candidates(pi, n, L, w)
  /\ RefCutoff(p, w) \in 1..L /\ s = SubSeq(pi, 1, RefCutoff(p, w))

(* A round of the selection loop that ends it is right about the cutoff.   *)
LEMMA RoundIs ==
  ASSUME NEW n \in Nat \ {0}, NEW w \in [1..n -> Nat], NEW L \in 1..n, NEW pi, Candidates(pi, n, L, w),
         NEW p, p.min_p \in 0..100, p.top_p \in Nat, p.top_k \in Nat, \A t \in 1..n : w[t] > 0,
         NEW c, c = TopPCutoff(p, pi, MinPCutoff(p, pi, w), w),
         p.top_k > 0 => L = Min({n, p.top_k}),
         p.top_k > 0 \/ c < L \/ L >= n
  PROVE  Survive(SubSeq(pi, 1, Max({c, 1})), pi, L, n, p, w)
<1> DEFINE a == Cardinality(Kept(p, w))
           b == RefTop(p, w)
           k == IF p.top_k > 0 THEN Min({p.top_k, n}) ELSE n
<1>1. c \in 1..L /\ a \in Nat /\ b \in Nat /\ LeastOf(c, L, a, b)
  BY CutoffExact
<1>2. RefCutoff(p, w) = Min({k, a, b})
  <2>1. Len(w) = n
    OBVIOUS
  <2>2. QED
    BY <2>1 DEF RefCutoff, Kept, RefTop, Share
<1>3. {p.top_k, n} = {n, p.top_k}
  OBVIOUS
<1>4. k = IF p.top_k > 0 THEN L ELSE n
  BY <1>3
<1> HIDE DEF a, b, k
<1>5. k \in Nat /\ k >= L
  BY <1>4
<1>6. c = k \/ c = a \/ c = b
  BY <1>1, <1>4 DEF LeastOf
<1>7. c <= k /\ c <= a /\ c <= b
  BY <1>1, <1>5 DEF LeastOf
<1>8. Min({k, a, b}) = c
  <2> DEFINE T == {k, a, b}
  <2>1. T \subseteq Int /\ c \in T /\ \A y \in T : c <= y
    BY <1>1, <1>5, <1>6, <1>7
  <2> HIDE DEF T
  <2>2. Min(T) = c
    BY <2>1, MinAt
  <2>3. QED
    BY <2>2 DEF T
<1>9. Max({c, 1}) = c
  <2> DEFINE T == {c, 1}
  <2>1. T \subseteq Int /\ c \in T /\ \A y \in T : c >= y
    BY <1>1
  <2> HIDE DEF T
  <2>2. Max(T) = c
    BY <2>1, MaxAt
  <2>3. QED
    BY <2>2 DEF T
<1>10. QED
  BY <1>1, <1>2, <1>8, <1>9 DEF Survive

(* However the cap grows, the survivors are those of the reference.        *)
LEMMA SurvivorsIs ==
  ASSUME NEW n \in Nat \ {0}, NEW vals \in [1..n -> Nat], \A t \in 1..n : vals[t] > 0,
         NEW p, p.min_p \in 0..100, p.top_p \in Nat, p.top_k \in Nat
  PROVE  \E pi, L : Survive(Survivors(p, vals), pi, L, n, p, vals)
<1> DEFINE S == 1..n
           Pi(cap) == sort_desc(select_top(cap, vals), vals)
           Cutoff(cap) == TopPCutoff(p, Pi(cap), MinPCutoff(p, Pi(cap), vals), vals)
           stop == {cap \in S : p.top_k > 0 \/ Cutoff(cap) < Len(Pi(cap)) \/ cap >= n}
           To(cap) == IF cap > n \div 4 THEN n ELSE cap * 4
           nxt == [cap \in S |-> To(cap)]
           v == [cap \in S |-> SubSeq(Pi(cap), 1, Max({Cutoff(cap), 1}))]
           r == [cap \in S |-> n - cap]
           Body(f, cap) ==
             LET pi == sort_desc(select_top(cap, vals), vals)
                 cutoff == TopPCutoff(p, pi, MinPCutoff(p, pi, vals), vals)
             IN IF p.top_k > 0 \/ cutoff < Len(pi) \/ cap >= n
                THEN SubSeq(pi, 1, Max({cutoff, 1}))
                ELSE f[IF cap > n \div 4 THEN n ELSE cap * 4]
           U == CHOOSE f : f = [cap \in 1..n |-> Body(f, cap)]
           a == Min({n, IF p.top_k > 0 THEN p.top_k ELSE CAP})
           I == {cap \in S : p.top_k > 0 => cap = a}
<1>1. Len(vals) = n
  OBVIOUS
<1>2. Survivors(p, vals) = U[a]
  BY <1>1 DEF Survivors
<1>3. ASSUME NEW f, NEW cap \in S
      PROVE  Body(f, cap) = IF p.top_k > 0 \/ Cutoff(cap) < Len(Pi(cap)) \/ cap >= n
                            THEN SubSeq(Pi(cap), 1, Max({Cutoff(cap), 1})) ELSE f[To(cap)]
  OBVIOUS
<1>4. \A cap \in S : Candidates(Pi(cap), n, cap, vals)
  BY CandidatesIs
<1>5. \A cap \in S : Cutoff(cap) = TopPCutoff(p, Pi(cap), MinPCutoff(p, Pi(cap), vals), vals)
  OBVIOUS
<1>6. p.top_k > 0 => a = Min({n, p.top_k})
  OBVIOUS
<1> HIDE DEF Body, Pi, Cutoff
<1>7. nxt \in [S -> S]
  OBVIOUS
<1>8. \A cap \in S : /\ v[cap] = SubSeq(Pi(cap), 1, Max({Cutoff(cap), 1}))
                     /\ nxt[cap] = To(cap)
                     /\ r[cap] = n - cap
                     /\ cap \in stop <=> p.top_k > 0 \/ Cutoff(cap) < Len(Pi(cap)) \/ cap >= n
  <2> HIDE DEF S
  <2>1. QED
    OBVIOUS
<1>9. r \in [S -> Nat]
  OBVIOUS
<1>10. ASSUME NEW cap \in S, cap \notin stop PROVE nxt[cap] \in S /\ r[nxt[cap]] < r[cap]
  <2>1. cap \in 1..n /\ cap < n
    BY <1>8, <1>10
  <2>2. nxt[cap] \in S
    BY <1>7
  <2>3. nxt[cap] > cap
    BY <1>8, <2>1
  <2>4. r[nxt[cap]] = n - nxt[cap] /\ r[cap] = n - cap
    BY <1>8, <2>2
  <2> HIDE DEF nxt, r, stop
  <2>5. nxt[cap] \in 1..n
    BY <2>2
  <2>6. QED
    BY <2>1, <2>2, <2>3, <2>4, <2>5
<1> HIDE DEF stop, nxt, v, r
<1>11. ASSUME NEW f, NEW cap \in S
       PROVE  Body(f, cap) = IF cap \in stop THEN v[cap] ELSE f[nxt[cap]]
  <2> DEFINE c == p.top_k > 0 \/ Cutoff(cap) < Len(Pi(cap)) \/ cap >= n
             e == SubSeq(Pi(cap), 1, Max({Cutoff(cap), 1}))
  <2>1. Body(f, cap) = IF c THEN e ELSE f[To(cap)]
    BY <1>3
  <2>2. v[cap] = e /\ nxt[cap] = To(cap) /\ (cap \in stop <=> c)
    BY <1>8
  <2> HIDE DEF c, e, To, S
  <2>3. QED
    BY <2>1, <2>2
<1>12. PICK f : Loops(f, S, stop, nxt, v)
  <2> HIDE DEF S
  <2>1. QED
    BY <1>7, LoopExists
<1>13. f = [cap \in 1..n |-> Body(f, cap)]
  BY <1>11, <1>12 DEF Loops
<1>14. U = [cap \in 1..n |-> Body(U, cap)]
  BY <1>13
<1> HIDE DEF U
<1>15. Loops(U, S, stop, nxt, v)
  BY <1>11, <1>14 DEF Loops
<1>16. a \in S
  <2> DEFINE k == IF p.top_k > 0 THEN p.top_k ELSE CAP
  <2>1. k \in Nat \ {0}
    BY LimitsAssumption
  <2>2. a = Min({n, k})
    OBVIOUS
  <2> HIDE DEF k, a
  <2>3. Min({n, k}) \in {n, k}
    BY <2>1, MinIs
  <2>4. Min({n, k}) <= n
    BY <2>1, MinLe
  <2>5. QED
    BY <2>1, <2>2, <2>3, <2>4
<1> HIDE DEF a
<1>17. a \in I
  BY <1>16
<1>18. PICK y \in I : y \in stop /\ U[a] = v[y]
  <2>1. \A x \in I : x \notin stop => nxt[x] \in I /\ r[nxt[x]] < r[x]
    <3>1. ASSUME NEW x \in I, x \notin stop PROVE nxt[x] \in I /\ r[nxt[x]] < r[x]
      <4>1. x \in S /\ ~(p.top_k > 0)
        BY <1>8, <3>1
      <4>2. QED
        BY <1>10, <3>1, <4>1
    <3>2. QED
      BY <3>1
  <2>2. I \in SUBSET S
    OBVIOUS
  <2> HIDE DEF S, I
  <2>3. Descends(S, stop, nxt, r, I)
    BY <1>7, <1>9, <2>1, <2>2 DEF Descends
  <2>4. QED
    BY <1>15, <1>17, <2>3, LoopStops
<1>19. y \in 1..n /\ (p.top_k > 0 => y = Min({n, p.top_k}))
  BY <1>6, <1>18
<1> DEFINE pi == Pi(y)
           c == Cutoff(y)
<1>20. Candidates(pi, n, y, vals) /\ c = TopPCutoff(p, pi, MinPCutoff(p, pi, vals), vals)
  BY <1>4, <1>5, <1>19
<1>21. /\ v[y] = SubSeq(pi, 1, Max({c, 1}))
       /\ p.top_k > 0 \/ c < Len(pi) \/ y >= n
  BY <1>8, <1>18, <1>19
<1> HIDE DEF pi, c, I, S
<1>22. Len(pi) = y
  <2>1. pi \in [1..y -> 1..n] /\ y \in Nat
    BY <1>19, <1>20 DEF Candidates, Tokens
  <2>2. QED
    BY <2>1
<1>23. p.top_k > 0 \/ c < y \/ y >= n
  BY <1>21, <1>22
<1>24. Survive(SubSeq(pi, 1, Max({c, 1})), pi, y, n, p, vals)
  BY <1>19, <1>20, <1>23, RoundIs
<1>25. QED
  BY <1>2, <1>18, <1>21, <1>24

\* No other filter is on, or the temperature is 0.
Greedy(p) == p.temperature = 0 \/ (p.top_k = 0 /\ p.top_p >= 100 /\ p.min_p = 0)
\* x is one of m tokens of T, none of which is worse than m others.
Ranked(x, T, m, w) == Cardinality({u \in DOMAIN w : w[u] > w[x]}) < m /\ Cardinality(T) = m

(* The survivors are as many as the reference leaves, and the best.        *)
LEMMA SurvivorsRanked ==
  ASSUME NEW n \in Nat \ {0}, NEW w \in [1..n -> Nat], \A t \in 1..n : w[t] > 0,
         NEW p, p.min_p \in 0..100, p.top_p \in Nat, p.top_k \in Nat
  PROVE  \A x \in ToSet(Survivors(p, w)) : Ranked(x, ToSet(Survivors(p, w)), RefCutoff(p, w), w)
<1> DEFINE s == Survivors(p, w)
           c == RefCutoff(p, w)
<1>1. PICK pi, L : Survive(s, pi, L, n, p, w)
  BY SurvivorsIs
<1> HIDE DEF s, c
<1>2. L \in 1..n /\ L \in Nat /\ Candidates(pi, n, L, w) /\ c \in 1..L /\ s = SubSeq(pi, 1, c)
  BY <1>1 DEF Survive, c
<1>3. Tokens(pi, L, n) /\ pi \in [1..L -> 1..n] /\ DOMAIN pi = 1..L
  BY <1>2 DEF Candidates, Tokens
<1> DEFINE P == Prefix(pi, c)
<1>4. ToSet(s) = P
  <2>1. pi \in Seq(1..n) /\ Len(pi) = L
    BY <1>2, <1>3, IsASeq
  <2>2. c \in 0..Len(pi)
    BY <1>2, <2>1
  <2>3. s \in Seq(1..n) /\ Len(s) = c /\ \A i \in 1..c : s[i] = pi[i]
    <3>1. /\ SubSeq(pi, 1, c) \in Seq(1..n) /\ Len(SubSeq(pi, 1, c)) = c
          /\ \A i \in 1..c : SubSeq(pi, 1, c)[i] = pi[i]
      BY <2>1, <2>2, Parts
    <3>2. QED
      BY <1>2, <3>1
  <2>4. DOMAIN s = 1..c
    BY <2>3, LenProperties
  <2>5. \A t : t \in ToSet(s) <=> \E i \in 1..c : t = s[i]
    BY <2>4 DEF ToSet
  <2>6. \A t : t \in P <=> \E i \in 1..c : t = pi[i]
    BY DEF Prefix
  <2> HIDE DEF P
  <2>7. ASSUME NEW t \in ToSet(s) PROVE t \in P
    <3>1. PICK i \in 1..c : t = s[i]
      BY <2>5
    <3>2. t = pi[i]
      BY <2>3, <3>1
    <3>3. QED
      BY <2>6, <3>2
  <2>8. ASSUME NEW t \in P PROVE t \in ToSet(s)
    <3>1. PICK i \in 1..c : t = pi[i]
      BY <2>6
    <3>2. t = s[i]
      BY <2>3, <3>1
    <3>3. QED
      BY <2>5, <3>2
  <2>9. QED
    BY <2>7, <2>8
<1>5. P \subseteq 1..n /\ IsFiniteSet(P) /\ Cardinality(P) = c
  <2>1. c \in 0..L
    BY <1>2
  <2>2. QED
    BY <1>2, <1>3, <2>1, PrefixCount
<1>6. ASSUME NEW x \in P PROVE Cardinality({u \in DOMAIN w : w[u] > w[x]}) < c
  <2> DEFINE B == {u \in DOMAIN w : w[u] > w[x]}
             Q == P \ {x}
  <2>1. PICK i \in 1..c : x = pi[i]
    BY DEF Prefix
  <2>2. x \in 1..n /\ w[x] \in Nat
    BY <1>5
  <2>3. ASSUME NEW u \in B PROVE u \in Q
    <3>1. u \in 1..n /\ w[u] > w[x] /\ w[u] \in Nat
      OBVIOUS
    <3>2. u # x
      BY <2>2, <3>1
    <3>3. u \in P
      <4>1. SUFFICES ASSUME u \notin P PROVE FALSE
        OBVIOUS
      <4>2. \A k \in 1..c : w[u] <= w[pi[k]]
        BY <1>2, <3>1, <4>1, PrefixBest
      <4>3. w[u] <= w[x]
        BY <2>1, <4>2
      <4>4. QED
        BY <2>2, <3>1, <4>3
    <3>4. QED
      BY <3>2, <3>3
  <2>4. IsFiniteSet(Q) /\ Cardinality(Q) = c - 1
    <3> HIDE DEF P
    <3>1. IsFiniteSet(P \ {x}) /\ Cardinality(P \ {x}) = Cardinality(P) - 1
      BY <1>5, FS_RemoveElement
    <3>2. QED
      BY <1>5, <3>1
  <2>5. B \in SUBSET Q
    BY <2>3
  <2> HIDE DEF B, Q
  <2>6. IsFiniteSet(B) /\ Cardinality(B) <= Cardinality(Q)
    BY <2>4, <2>5, FS_Subset
  <2>7. Cardinality(B) \in Nat
    BY <2>6, FS_CardinalityType
  <2>8. Cardinality(B) < c
    BY <1>2, <2>4, <2>6, <2>7
  <2>9. QED
    BY <2>8 DEF B
<1> HIDE DEF P
<1>7. \A x \in P : Ranked(x, P, c, w)
  BY <1>5, <1>6 DEF Ranked
<1>8. QED
  BY <1>4, <1>7 DEF s, c

\* What SampledAllowed says of a draw.
Allowed(x, logits, p, history) ==
  LET l == Penalised(logits, p, history)
      w == [t \in DOMAIN l |-> Weight(l[t])]
  IN Ranked(x, sample_token(logits, p, history), IF Greedy(p) THEN 1 ELSE RefCutoff(p, w), w)

(* It is so of every draw.                                                 *)
LEMMA SampleIs ==
  ASSUME NEW n \in Nat \ {0}, NEW logits \in [1..n -> Int], NEW history \in Seq(Int), NEW p,
         p.top_k \in Nat, p.min_p \in 0..100, p.top_p \in Nat, p.repeat_last_n \in Nat,
         p.repeat_penalty \in Nat \ {0}, p.frequency_penalty \in Int, p.presence_penalty \in Int,
         Exponential(Penalised(logits, p, history), 1..n),
         NEW x \in sample_token(logits, p, history)
  PROVE  Allowed(x, logits, p, history)
<1> DEFINE l == Penalised(logits, p, history)
           w == [t \in DOMAIN l |-> Weight(l[t])]
           T == sample_token(logits, p, history)
<1>1. l \in [1..n -> Int]
  BY PenalisedType
<1>2. /\ w \in [1..n -> Nat] /\ (\A t \in 1..n : w[t] > 0) /\ DOMAIN w = 1..n
      /\ \A t, u \in 1..n : l[u] <= l[t] => w[u] <= w[t]
  <2>1. DOMAIN l = 1..n
    BY <1>1
  <2>2. \A t \in 1..n : /\ Weight(l[t]) \in Nat \ {0}
                        /\ \A u \in 1..n : l[u] <= l[t] => Weight(l[u]) <= Weight(l[t])
    BY Zenon DEF Exponential
  <2> HIDE DEF l
  <2>3. \A t \in 1..n : Weight(l[t]) \in Nat /\ Weight(l[t]) > 0
    BY <2>2
  <2>4. \A t \in 1..n : w[t] = Weight(l[t])
    BY <2>1
  <2>5. w \in [1..n -> Nat] /\ (\A t \in 1..n : w[t] > 0) /\ DOMAIN w = 1..n
    BY <2>1, <2>3
  <2>6. QED
    BY <2>2, <2>4, <2>5
<1>3. \A t, u \in 1..n : l[u] <= l[t] => w[u] <= w[t]
  BY <1>2
<1>4. T = IF Greedy(p) THEN {sample_greedy(l)} ELSE ToSet(Survivors(p, w))
  BY DEF sample_token, Greedy
<1>5. Allowed(x, logits, p, history) <=> Ranked(x, T, IF Greedy(p) THEN 1 ELSE RefCutoff(p, w), w)
  BY DEF Allowed
<1> HIDE DEF l, w, T
<1>6. CASE Greedy(p)
  <2>1. T = {sample_greedy(l)} /\ x = sample_greedy(l)
    BY <1>4, <1>6 DEF T
  <2> DEFINE G == {t \in 1..n : \A u \in 1..n : l[u] <= l[t]}
  <2>2. x \in G
    <3>1. sample_greedy(l) = Min(G)
      BY <1>1 DEF sample_greedy
    <3>2. G # {}
      BY <1>1, GreatestIs
    <3>3. G \subseteq Nat
      OBVIOUS
    <3> HIDE DEF G
    <3>4. QED
      BY <2>1, <3>1, <3>2, <3>3, MinIs
  <2>3. ASSUME NEW u \in 1..n PROVE ~(w[u] > w[x])
    <3>1. x \in 1..n /\ l[u] <= l[x]
      BY <2>2
    <3>2. w[u] <= w[x] /\ w[u] \in Nat /\ w[x] \in Nat
      BY <1>2, <1>3, <3>1
    <3>3. QED
      BY <3>2
  <2>4. {u \in DOMAIN w : w[u] > w[x]} = {}
    BY <1>2, <2>3
  <2>5. Cardinality({u \in DOMAIN w : w[u] > w[x]}) = 0
    BY <2>4, FS_EmptySet
  <2>6. Cardinality(T) = 1
    BY <2>1, FS_Singleton
  <2>7. Ranked(x, T, 1, w)
    BY <2>5, <2>6 DEF Ranked
  <2>8. QED
    BY <1>5, <1>6, <2>7
<1>7. CASE ~Greedy(p)
  <2>1. x \in ToSet(Survivors(p, w)) /\ T = ToSet(Survivors(p, w))
    BY <1>4, <1>7 DEF T
  <2>2. Ranked(x, ToSet(Survivors(p, w)), RefCutoff(p, w), w)
    BY <1>2, <2>1, SurvivorsRanked
  <2>3. QED
    BY <1>5, <1>7, <2>1, <2>2
<1>8. QED
  BY <1>6, <1>7

(* Whatever the logits and the options are, a token is drawn.              *)
LEMMA SampleType ==
  ASSUME NEW n \in Nat \ {0}, NEW logits \in [1..n -> Int], NEW history \in Seq(Int), NEW p,
         p.top_k \in Nat, p.min_p \in 0..100, p.top_p \in Nat, p.repeat_last_n \in Nat,
         p.repeat_penalty \in Nat \ {0}, p.frequency_penalty \in Int, p.presence_penalty \in Int,
         Exponential(Penalised(logits, p, history), 1..n)
  PROVE  sample_token(logits, p, history) \subseteq 1..n
<1> DEFINE l == Penalised(logits, p, history)
           w == [t \in DOMAIN l |-> Weight(l[t])]
<1>1. l \in [1..n -> Int]
  BY PenalisedType
<1>2. w \in [1..n -> Nat] /\ \A t \in 1..n : w[t] > 0
  <2>1. DOMAIN l = 1..n
    BY <1>1
  <2>2. \A t \in 1..n : Weight(l[t]) \in Nat /\ Weight(l[t]) > 0
    <3>1. \A t \in 1..n : Weight(l[t]) \in Nat \ {0}
      BY Zenon DEF Exponential
    <3> HIDE DEF l
    <3>2. QED
      BY <3>1
  <2> HIDE DEF l
  <2>3. QED
    BY <2>1, <2>2
<1>3. sample_token(logits, p, history)
        = IF p.temperature = 0 \/ (p.top_k = 0 /\ p.top_p >= 100 /\ p.min_p = 0)
          THEN {sample_greedy(l)} ELSE ToSet(Survivors(p, w))
  BY DEF sample_token
<1> HIDE DEF l, w
<1>4. sample_greedy(l) \in 1..n
  <2> DEFINE T == {t \in 1..n : \A u \in 1..n : l[u] <= l[t]}
  <2>1. sample_greedy(l) = Min(T)
    BY <1>1 DEF sample_greedy
  <2>2. T # {}
    BY <1>1, GreatestIs
  <2>3. T \subseteq Nat /\ T \subseteq 1..n
    OBVIOUS
  <2> HIDE DEF T
  <2>4. QED
    BY <2>1, <2>2, <2>3, MinIs
<1>5. ToSet(Survivors(p, w)) \subseteq 1..n
  <2> DEFINE s == Survivors(p, w)
             c == RefCutoff(p, w)
  <2>1. PICK pi, L : Survive(s, pi, L, n, p, w)
    BY <1>2, SurvivorsIs
  <2> HIDE DEF s, c
  <2>2. L \in 1..n /\ pi \in [1..L -> 1..n] /\ c \in 1..L /\ s = SubSeq(pi, 1, c)
    BY <2>1 DEF Survive, Candidates, Tokens, c
  <2>3. pi \in Seq(1..n) /\ Len(pi) = L
    <3>1. L \in Nat
      BY <2>2
    <3>2. QED
      BY <2>2, <3>1, IsASeq
  <2>4. s \in Seq(1..n)
    <3>1. c \in 0..Len(pi)
      BY <2>2, <2>3
    <3>2. QED
      BY <2>2, <2>3, <3>1, Parts
  <2>5. DOMAIN s = 1..Len(s)
    BY <2>4, LenProperties
  <2>6. \A i \in DOMAIN s : s[i] \in 1..n
    BY <2>4, <2>5, ElementOfSeq
  <2>7. ToSet(s) \subseteq 1..n
    BY <2>6 DEF ToSet
  <2>8. QED
    BY <2>7 DEF s
<1>6. QED
  BY <1>3, <1>4, <1>5

-----------------------------------------------------------------------------
(* The stream of a response.                                               *)

\* The texts that a reader finds in events ev, and what they add up to.
EventTexts(ev) == [i \in DOMAIN ev |-> JsonText(ev[i])]
Heard(ev) == FlattenSeq(EventTexts(ev))
\* Events whose texts are valid if what they add up to is.
Sound(ev) ==
  /\ ev \in Seq(Seq(Plain)) /\ EventTexts(ev) \in Seq(Seq(Byte))
  /\ utf8_valid(Heard(ev)) => \A i \in DOMAIN ev : utf8_valid(JsonText(ev[i]))

(* One more event.                                                         *)
LEMMA EventAppend ==
  ASSUME NEW ev, Sound(ev), Whole(Heard(ev)), NEW x \in Seq(Byte)
  PROVE  /\ Sound(Append(ev, json_escape_str(x)))
         /\ Heard(Append(ev, json_escape_str(x))) = Heard(ev) \o x
<1> DEFINE e == json_escape_str(x)
           ev2 == Append(ev, e)
           ts == EventTexts(ev)
<1>1. e \in Seq(Plain) /\ JsonText(e) = x
  BY EscapeType, JsonBack
<1>2. ev \in Seq(Seq(Plain)) /\ ts \in Seq(Seq(Byte)) /\ Heard(ev) = FlattenSeq(ts)
  BY DEF Sound, Heard
<1> HIDE DEF e
<1>3. /\ ev2 \in Seq(Seq(Plain)) /\ Len(ev2) = Len(ev) + 1 /\ ev2[Len(ev) + 1] = e
      /\ \A i \in 1..Len(ev) : ev2[i] = ev[i]
  BY <1>1, <1>2, AppendProperties
<1>4. Len(ev) \in Nat /\ DOMAIN ev = 1..Len(ev) /\ DOMAIN ev2 = 1..(Len(ev) + 1)
  BY <1>2, <1>3, LenProperties
<1> HIDE DEF ev2
<1>5. ts = [i \in 1..Len(ev) |-> JsonText(ev[i])]
  BY <1>4 DEF EventTexts
<1>6. Len(ts) = Len(ev)
  BY <1>2, <1>4, <1>5, LenProperties
<1>7. EventTexts(ev2) = Append(ts, x)
  <2> DEFINE a == EventTexts(ev2)
             b == Append(ts, x)
  <2>1. a = [i \in 1..(Len(ev) + 1) |-> JsonText(ev2[i])]
    BY <1>4 DEF EventTexts
  <2>2. /\ b \in Seq(Seq(Byte)) /\ Len(b) = Len(ts) + 1 /\ b[Len(ts) + 1] = x
        /\ \A i \in 1..Len(ts) : b[i] = ts[i]
    <3> HIDE DEF ts
    <3>1. QED
      BY <1>2, AppendProperties
  <2>3. b = [i \in 1..(Len(ev) + 1) |-> b[i]]
    <3> HIDE DEF b, ts
    <3>1. b \in [1..Len(b) -> Seq(Byte)]
      BY <2>2, LenProperties
    <3>2. QED
      BY <1>6, <2>2, <3>1
  <2> HIDE DEF b, ts
  <2>4. ASSUME NEW i \in 1..(Len(ev) + 1) PROVE JsonText(ev2[i]) = b[i]
    <3>1. CASE i = Len(ev) + 1
      BY <1>1, <1>3, <1>6, <2>2, <3>1
    <3>2. CASE i # Len(ev) + 1
      <4>1. i \in 1..Len(ev)
        BY <1>4, <3>2
      <4>2. ev2[i] = ev[i] /\ b[i] = ts[i] /\ ts[i] = JsonText(ev[i])
        BY <1>3, <1>5, <1>6, <2>2, <4>1
      <4>3. QED
        BY <4>2
    <3>3. QED
      BY <3>1, <3>2
  <2>5. a = b
    BY <2>1, <2>3, <2>4
  <2>6. QED
    BY <2>5 DEF b
<1> HIDE DEF ts
<1>8. Append(ts, x) \in Seq(Seq(Byte))
  BY <1>2, AppendProperties
<1>9. Heard(ev2) = Heard(ev) \o x
  <2>1. FlattenSeq(Append(ts, x)) = FlattenSeq(ts) \o x
    BY <1>2, FlattenAppend
  <2>2. QED
    BY <1>2, <1>7, <2>1 DEF Heard
<1>10. Heard(ev) \in Seq(Byte)
  BY <1>2, FlattenType
<1>11. ASSUME utf8_valid(Heard(ev2)), NEW i \in DOMAIN ev2 PROVE utf8_valid(JsonText(ev2[i]))
  <2>1. utf8_valid(Heard(ev) \o x)
    BY <1>9, <1>11
  <2>2. utf8_valid(Heard(ev)) /\ utf8_valid(x)
    BY <1>10, <2>1, ValidParts
  <2>3. CASE i = Len(ev) + 1
    BY <1>1, <1>3, <2>2, <2>3
  <2>4. CASE i # Len(ev) + 1
    <3>1. i \in 1..Len(ev)
      BY <1>4, <2>4
    <3>2. ev2[i] = ev[i] /\ i \in DOMAIN ev
      BY <1>3, <1>4, <3>1
    <3>3. utf8_valid(JsonText(ev[i]))
      BY <2>2, <3>2 DEF Sound
    <3>4. QED
      BY <3>2, <3>3
  <2>5. QED
    BY <2>3, <2>4
<1>12. Sound(ev2)
  <2>1. EventTexts(ev2) \in Seq(Seq(Byte))
    BY <1>7, <1>8
  <2>2. utf8_valid(Heard(ev2)) => \A i \in DOMAIN ev2 : utf8_valid(JsonText(ev2[i]))
    BY <1>11
  <2>3. QED
    BY <1>3, <2>1, <2>2 DEF Sound
<1>13. QED
  BY <1>9, <1>12 DEF ev2, e

(* The text of an event or of no event is added.                           *)
LEMMA EventsExtend ==
  ASSUME NEW ev, Sound(ev), Whole(Heard(ev)), NEW x \in Seq(Byte), Whole(x),
         NEW none \in BOOLEAN, none => x = <<>>
  PROVE  LET ev2 == ev \o (IF none THEN <<>> ELSE <<json_escape_str(x)>>)
         IN  Sound(ev2) /\ Heard(ev2) = Heard(ev) \o x /\ Whole(Heard(ev2))
<1> DEFINE e == json_escape_str(x)
           ev2 == ev \o (IF none THEN <<>> ELSE <<e>>)
<1>1. ev \in Seq(Seq(Plain)) /\ Heard(ev) \in Seq(Byte)
  BY FlattenType DEF Sound, Heard
<1>2. e \in Seq(Plain)
  BY EscapeType
<1>3. Sound(ev2) /\ Heard(ev2) = Heard(ev) \o x
  <2>1. CASE none
    <3>1. ev2 = ev
      BY <1>1, <2>1, ConcatEmptySeq
    <3>2. Heard(ev) \o x = Heard(ev)
      BY <1>1, <2>1, ConcatEmptySeq
    <3> HIDE DEF ev2
    <3>3. QED
      BY <3>1, <3>2
  <2>2. CASE ~none
    <3>1. ev2 = Append(ev, e)
      <4>1. ev2 = ev \o <<e>>
        BY <2>2
      <4> HIDE DEF e, ev2
      <4>2. QED
        BY <1>1, <1>2, <4>1, AppendIsConcat
    <3> HIDE DEF ev2
    <3>2. QED
      BY <3>1, EventAppend
  <2>3. QED
    BY <2>1, <2>2
<1>4. Whole(Heard(ev) \o x)
  BY <1>1, WholeConcat
<1> HIDE DEF ev2
<1>5. Whole(Heard(ev2))
  BY <1>3, <1>4
<1>6. QED
  BY <1>3, <1>5 DEF ev2

(* ASCII has no character of several bytes.                                *)
LEMMA AsciiWhole ==
  ASSUME NEW x \in Seq(0..127)
  PROVE  x \in Seq(Byte) /\ Whole(x)
<1> DEFINE n == Len(x)
<1>1. n \in Nat /\ DOMAIN x = 1..n /\ \A i \in 1..n : x[i] \in 0..127
  BY LenProperties, ElementOfSeq
<1>2. x \in Seq(Byte)
  <2>1. \A c \in 0..127 : c \in Byte
    BY DEF Byte
  <2>2. QED
    BY <2>1, SeqMonotonic
<1>3. \A c \in 0..127 : utf8_char_len(c) = 1
  <2>1. ASSUME NEW c \in 0..127 PROVE utf8_char_len(c) = 1
    <3>1. c \notin 192..223 /\ c \notin 224..239 /\ c \notin 240..247
      OBVIOUS
    <3>2. QED
      BY <3>1 DEF utf8_char_len
  <2>2. QED
    BY <2>1
<1>4. PICK P : utf8_complete_prefix(x) = P[0] /\ Stopping(x, P)
  BY <1>1, PrefixScan
<1> DEFINE T == {i \in 0..n : P[i] = n}
<1>5. ASSUME NEW i \in 0..n, \A j \in 0..n : j > i => j \in T PROVE i \in T
  <2>1. i \in Nat
    OBVIOUS
  <2>2. P[i] = IF Complete(x, i) THEN P[i + utf8_char_len(x[i + 1])] ELSE i
    BY <1>4, <2>1 DEF Stopping
  <2>3. CASE i = n
    <3>1. ~Complete(x, i)
      BY <1>1, <2>3 DEF Complete
    <3>2. QED
      BY <2>2, <2>3, <3>1
  <2>4. CASE i < n
    <3>1. i + 1 \in 1..n /\ i + 1 \in 0..n /\ i + 1 > i
      BY <1>1, <2>4
    <3>2. utf8_char_len(x[i + 1]) = 1
      BY <1>1, <1>3, <3>1
    <3>3. Complete(x, i)
      BY <1>1, <2>4, <3>1, <3>2 DEF Complete
    <3>4. P[i] = P[i + 1]
      BY <2>2, <3>2, <3>3
    <3>5. i + 1 \in T
      BY <1>5, <3>1
    <3>6. QED
      BY <3>4, <3>5
  <2>5. i = n \/ i < n
    <3> HIDE DEF n
    <3>1. QED
      BY <1>1
  <2>6. QED
    BY <2>3, <2>4, <2>5
<1>6. 0 \in T
  <2>1. \A i \in 0..n : (\A j \in 0..n : j > i => j \in T) => i \in T
    BY <1>5
  <2> HIDE DEF T, n
  <2>2. \A i \in 0..n : i \in T
    BY <1>1, <2>1, DownTo
  <2>3. QED
    BY <1>1, <2>2
<1>7. QED
  BY <1>2, <1>4, <1>6 DEF Whole

(* The opening of the reasoning block is ASCII.                            *)
LEMMA OpeningIs == Opening \in Seq(Byte) /\ Whole(Opening)
<1> DEFINE A == 0..127
<1>1. ThinkStart \in Seq(Byte) /\ ThinkStart \in Seq(A) /\ <<10>> \in Seq(A)
  BY DEF ThinkStart, Byte
<1>2. DecodeBpe(ThinkStart) \in Seq(A)
  BY <1>1, BpeType
<1>3. DecodeBpe(ThinkStart) \o <<10>> \in Seq(A)
  BY <1>1, <1>2, ConcatProperties
<1>4. <<>> \in Seq(A)
  BY EmptySeq
<1>5. Opening \in Seq(A)
  BY <1>3, <1>4 DEF Opening
<1>6. QED
  BY <1>5, AsciiWhole

(* The text of a token is made of bytes.                                   *)
LEMMA DecodeType ==
  ASSUME NEW t \in DOMAIN Piece
  PROVE  Decode(Piece[t]) \in Seq(Byte)
<1>1. Piece[t] \in Seq(Byte)
  <2>1. Piece \in Seq(Seq(Byte))
    BY PieceAssumption
  <2>2. t \in 1..Len(Piece)
    BY <2>1, LenProperties
  <2>3. QED
    BY <2>1, <2>2, ElementOfSeq
<1>2. DecodeSpm(Piece[t]) \in Seq(Byte) /\ DecodeBpe(Piece[t]) \in Seq(Byte)
  BY <1>1, SpmType, BpeType
<1>3. QED
  BY <1>2 DEF Decode

(* A text that is cut at a limit; one that fits stays as it is.            *)
LEMMA CutIs ==
  ASSUME NEW s \in Seq(Byte), NEW n \in Int
  PROVE  Cut(s, n) \in Seq(Byte) /\ (Len(s) <= n => Cut(s, n) = s)
<1> DEFINE l == Len(s)
           k == Min({n, l})
<1>1. l \in Nat /\ \A i \in 1..l : s[i] \in Byte
  BY LenProperties, ElementOfSeq
<1>2. Cut(s, n) = SubSeq(s, 1, k)
  BY DEF Cut
<1> HIDE DEF l
<1>3. k \in Int /\ k <= l /\ (l <= n => k = l)
  <2>1. CASE n <= l
    <3>1. k = n
      BY <1>1, <2>1 DEF Min
    <3> HIDE DEF k
    <3>2. QED
      BY <1>1, <2>1, <3>1
  <2>2. CASE l < n
    <3>1. k = l
      BY <1>1, <2>2 DEF Min
    <3> HIDE DEF k
    <3>2. QED
      BY <1>1, <2>2, <3>1
  <2>3. n <= l \/ l < n
    BY <1>1
  <2> HIDE DEF k
  <2>4. QED
    BY <2>1, <2>2, <2>3
<1> HIDE DEF k
<1>4. SubSeq(s, 1, k) \in Seq(Byte)
  <2>1. 1 \in Int /\ \A i \in 1..k : s[i] \in Byte
    BY <1>1, <1>3
  <2>2. QED
    BY <1>3, <2>1, SubSeqProperties
<1>5. SubSeq(s, 1, l) = s
  BY SubSeqFull DEF l
<1>6. l <= n => Cut(s, n) = s
  BY <1>2, <1>3, <1>5
<1>7. QED
  BY <1>2, <1>4, <1>6 DEF l

(* The greatest element.                                                   *)
LEMMA MaxGe ==
  ASSUME NEW n \in Nat, NEW T, T \subseteq 0..n, n \in T
  PROVE  Max(T) = n
<1>1. \A y \in T : n >= y
  OBVIOUS
<1>2. Max(T) \in T /\ \A y \in T : Max(T) >= y
  BY <1>1 DEF Max
<1>3. Max(T) \in 0..n /\ Max(T) >= n
  BY <1>2
<1>4. QED
  BY <1>3

(* The escaped response is what json_escape_str makes of it if that fits.  *)
LEMMA EscapedIs ==
  ASSUME NEW s \in Seq(Byte)
  PROVE  /\ Escaped(s) \in Seq(Plain)
         /\ Len(json_escape_str(s)) + 6 < ESCAPED_MAX => Escaped(s) = json_escape_str(s)
<1> DEFINE E(t) == json_escape_str(t)
           fits == {n \in 0..Len(s) : \A k \in 1..n : Len(E(SubSeq(s, 1, k - 1))) + 6 < ESCAPED_MAX}
<1>1. Len(s) \in Nat
  BY LenProperties
<1>2. Escaped(s) = E(SubSeq(s, 1, Max(fits)))
  BY DEF Escaped
<1>3. \A t \in Seq(Byte) : E(t) \in Seq(Plain) /\ Len(E(t)) \in Nat
  <2>1. ASSUME NEW t \in Seq(Byte) PROVE E(t) \in Seq(Plain) /\ Len(E(t)) \in Nat
    BY EscapeType, LenProperties
  <2>2. QED
    BY <2>1
<1>4. \A a, b \in Seq(Byte) : E(a \o b) = E(a) \o E(b)
  BY EscapeConcat
<1> HIDE DEF E
<1>5. fits \subseteq 0..Len(s) /\ 0 \in fits
  BY <1>1
<1>6. ASSUME Len(E(s)) + 6 < ESCAPED_MAX PROVE Len(s) \in fits
  <2>1. ASSUME NEW k \in 1..Len(s) PROVE Len(E(SubSeq(s, 1, k - 1))) + 6 < ESCAPED_MAX
    <3> DEFINE j == k - 1
               a == SubSeq(s, 1, j)
               b == SubSeq(s, j + 1, Len(s))
    <3>1. j \in 0..Len(s)
      BY <1>1
    <3> HIDE DEF j
    <3>2. a \in Seq(Byte) /\ b \in Seq(Byte) /\ s = a \o b
      BY <3>1, Parts
    <3> HIDE DEF a, b
    <3>3. E(s) = E(a) \o E(b)
      BY <1>4, <3>2
    <3>4. E(a) \in Seq(Plain) /\ E(b) \in Seq(Plain) /\ Len(E(a)) \in Nat /\ Len(E(b)) \in Nat
      BY <1>3, <3>2
    <3>5. Len(E(s)) = Len(E(a)) + Len(E(b))
      BY <3>3, <3>4, ConcatProperties
    <3>6. Len(E(a)) + 6 < ESCAPED_MAX
      BY <1>6, <3>4, <3>5, LimitsAssumption
    <3>7. QED
      BY <3>6 DEF a, j
  <2>2. Len(s) \in 0..Len(s)
    BY <1>1
  <2>3. QED
    BY <2>1, <2>2
<1> HIDE DEF fits
<1>7. Max(fits) \in 0..Len(s)
  BY <1>1, <1>5, MaxIs
<1>8. SubSeq(s, 1, Max(fits)) \in Seq(Byte)
  BY <1>7, Parts
<1>9. Escaped(s) \in Seq(Plain)
  BY <1>2, <1>3, <1>8
<1>10. ASSUME Len(E(s)) + 6 < ESCAPED_MAX PROVE Escaped(s) = E(s)
  <2>1. Max(fits) = Len(s)
    BY <1>1, <1>5, <1>6, <1>10, MaxGe
  <2>2. SubSeq(s, 1, Len(s)) = s
    BY SubSeqFull
  <2>3. QED
    BY <1>2, <2>1, <2>2
<1>11. QED
  BY <1>9, <1>10 DEF E

(* What is held back completes what was sent, which ends with a character  *)
(* as long as tokens are added; a response that is not streamed is stored  *)
(* up to its limit and sent at the end.                                    *)
StreamInv ==
  /\ n_gen \in 0..MAX_TOKENS
  /\ phase = "emit" => next \in DOMAIN Piece
  /\ decoded \in Seq(Byte) /\ pending \in Seq(Byte) /\ resp \in Seq(Byte)
  /\ n_gen = 0 => decoded = <<>> /\ pending = <<>> /\ resp = <<>>
  /\ phase \in {"emit", "end", "done"} => client.program # "chat"
  /\ phase \notin {"sample", "emit", "end", "done"} \/ client.program = "chat" =>
       n_gen = 0 /\ events = <<>>
  /\ stream => /\ Sound(events) /\ Heard(events) \o pending = decoded /\ Len(pending) <= 3
               /\ IF phase = "done" THEN pending = <<>> ELSE Whole(Heard(events))
  /\ ~stream => /\ Len(decoded) <= RESP_MAX => resp = decoded
                /\ events = IF phase = "done" THEN ResponseBody(Escaped(resp)) ELSE <<>>

(* A step that changes nothing of the generation, between the phases before *)
(* it, keeps StreamInv.                                                    *)
LEMMA StreamKept ==
  ASSUME StreamInv, UNCHANGED genVars, client' = client,
         \/ phase' = phase
         \/ phase \notin {"sample", "emit", "end", "done"}
            /\ phase' \notin {"sample", "emit", "end", "done"}
         \/ phase = "sample" /\ client.program = "chat" /\ phase' = "start"
  PROVE  StreamInv'
<1>1. /\ stream' = stream /\ next' = next /\ n_gen' = n_gen /\ pending' = pending
      /\ resp' = resp /\ events' = events /\ decoded' = decoded
  BY DEF genVars
<1>2. Escaped(resp)' = Escaped(resp)
  BY <1>1 DEF Escaped
<1>3. phase' = "emit" => phase = "emit"
  OBVIOUS
<1>4. phase' = "done" <=> phase = "done"
  OBVIOUS
<1>5. (phase' \notin {"sample", "emit", "end", "done"} \/ client'.program = "chat")
        => (phase \notin {"sample", "emit", "end", "done"} \/ client.program = "chat")
  OBVIOUS
<1>6. phase' \in {"emit", "end", "done"} => phase \in {"emit", "end", "done"}
  OBVIOUS
<1>7. QED
  BY <1>1, <1>2, <1>3, <1>4, <1>5, <1>6, Zenon DEF StreamInv

(* Before the first event.                                                 *)
LEMMA NothingSent == Sound(<<>>) /\ Heard(<<>>) = <<>> /\ Whole(<<>>)
<1>1. EventTexts(<<>>) = <<>>
  BY DEF EventTexts
<1>2. <<>> \in Seq(Seq(Plain)) /\ <<>> \in Seq(Seq(Byte)) /\ <<>> \in Seq(0..127)
  BY EmptySeq
<1>3. Heard(<<>>) = <<>>
  BY <1>1, <1>2, FlattenType DEF Heard
<1>4. Whole(<<>>)
  BY <1>2, AsciiWhole
<1>5. DOMAIN <<>> = {}
  OBVIOUS
<1>6. Sound(<<>>)
  BY <1>1, <1>2, <1>5, Zenon DEF Sound
<1>7. QED
  BY <1>3, <1>4, <1>6

(* Generation begins with nothing.                                         *)
LEMMA StreamBegins ==
  ASSUME StreamInv, EndPrompt
  PROVE  StreamInv'
<1>1. /\ phase = "layout" /\ phase' \in {"sample", "refused"} /\ client' = client
      /\ next' = next /\ n_gen' = n_gen /\ pending' = pending /\ resp' = resp
      /\ events' = events /\ decoded' = decoded
  BY DEF EndPrompt
<1>2. n_gen = 0 /\ events = <<>>
  BY <1>1 DEF StreamInv
<1>3. decoded = <<>> /\ pending = <<>> /\ resp = <<>>
  BY <1>2 DEF StreamInv
<1>4. n_gen' \in 0..MAX_TOKENS /\ decoded' \in Seq(Byte) /\ pending' \in Seq(Byte) /\ resp' \in Seq(Byte)
  BY <1>1 DEF StreamInv
<1>5. phase' \notin {"emit", "end", "done"} /\ phase' # "emit" /\ phase' # "done"
  BY <1>1
<1>6. /\ Sound(events') /\ Whole(Heard(events')) /\ Heard(events') \o pending' = decoded'
      /\ Len(pending') <= 3
  <2>1. events' = <<>> /\ pending' = <<>> /\ decoded' = <<>>
    BY <1>1, <1>2, <1>3
  <2>2. <<>> \o <<>> = <<>> /\ Len(<<>>) <= 3
    BY ConcatEmptySeq, EmptySeq
  <2>3. QED
    BY <2>1, <2>2, NothingSent
<1>7. n_gen' = 0 /\ events' = <<>> /\ resp' = decoded' /\ decoded' = <<>> /\ pending' = <<>>
  BY <1>1, <1>2, <1>3
<1>8. QED
  BY <1>4, <1>5, <1>6, <1>7, Zenon DEF StreamInv

(* A token of the vocabulary is drawn.                                     *)
LEMMA StreamDraws ==
  ASSUME StreamInv, NEW d \in Draws(n_gen), SampleToken(d)
  PROVE  StreamInv'
<1>1. /\ phase = "sample" /\ phase' = "emit" /\ client' = client /\ client.program = "server"
      /\ stream' = stream /\ n_gen' = n_gen /\ pending' = pending /\ resp' = resp
      /\ events' = events /\ decoded' = decoded
      /\ next' \in sample_token(d.logits, d.p, d.history)
  BY DEF SampleToken
<1>2. next' \in DOMAIN Piece
  <2> DEFINE n == Len(Piece)
             p == d.p
             l == d.logits
             h == d.history
  <2>1. n \in Nat \ {0} /\ DOMAIN Piece = 1..n
    BY PieceAssumption, LenProperties, EmptySeq
  <2>2. n_gen \in 0..MAX_TOKENS
    BY DEF StreamInv
  <2>3. /\ l \in [1..n -> Int] /\ h \in Seq(Int)
        /\ p.top_k \in Nat /\ p.min_p \in 0..100 /\ p.top_p \in Nat /\ p.repeat_last_n \in Nat
        /\ p.repeat_penalty \in Nat \ {0}
        /\ p.frequency_penalty \in Int /\ p.presence_penalty \in Int
        /\ Exponential(Penalised(l, p, h), 1..n)
    BY <2>1, <2>2, DrawsAssumption, Zenon
  <2>4. next' \in sample_token(l, p, h)
    BY <1>1
  <2> HIDE DEF n, p, l, h
  <2>5. sample_token(l, p, h) \subseteq 1..n
    BY <2>1, <2>3, SampleType
  <2>6. QED
    BY <2>1, <2>4, <2>5
<1>3. client'.program = client.program /\ client.program # "chat"
  BY <1>1
<1>4. Escaped(resp)' = Escaped(resp)
  BY <1>1 DEF Escaped
<1>5. phase' \in {"sample", "emit", "end", "done"} /\ phase' # "done" /\ phase # "done"
  BY <1>1
<1>6. QED
  BY <1>1, <1>2, <1>3, <1>4, <1>5, Zenon DEF StreamInv

(* What is left is sent.                                                   *)
LEMMA StreamEnds ==
  ASSUME StreamInv, Finish
  PROVE  StreamInv'
<1>1. /\ phase \in {"emit", "end"} /\ phase' = "done" /\ client' = client
      /\ stream' = stream /\ n_gen' = n_gen /\ pending' = <<>> /\ resp' = resp
      /\ decoded' = decoded
      /\ events' = IF ~stream THEN ResponseBody(Escaped(resp))
                   ELSE IF pending = <<>> THEN events
                   ELSE Append(events, json_escape_str(pending))
  BY DEF Finish
<1>2. /\ n_gen \in 0..MAX_TOKENS /\ decoded \in Seq(Byte) /\ pending \in Seq(Byte)
      /\ resp \in Seq(Byte) /\ (n_gen = 0 => decoded = <<>> /\ pending = <<>> /\ resp = <<>>)
  BY DEF StreamInv
<1>3. client.program # "chat"
  BY <1>1 DEF StreamInv
<1>4. ASSUME stream
      PROVE  /\ Sound(events') /\ Heard(events') \o pending' = decoded' /\ Len(pending') <= 3
  <2>1. Sound(events) /\ Heard(events) \o pending = decoded /\ Whole(Heard(events))
    BY <1>1, <1>4 DEF StreamInv
  <2>2. Sound(events') /\ Heard(events') = Heard(events) \o pending
    <3>1. CASE pending = <<>>
      <4>1. Heard(events) \in Seq(Byte)
        BY <2>1, FlattenType DEF Sound, Heard
      <4>2. Heard(events) \o pending = Heard(events)
        BY <3>1, <4>1, ConcatEmptySeq
      <4>3. events' = events
        BY <1>1, <1>4, <3>1
      <4>4. QED
        BY <2>1, <4>2, <4>3
    <3>2. CASE pending # <<>>
      <4>1. events' = Append(events, json_escape_str(pending))
        BY <1>1, <1>4, <3>2
      <4>2. QED
        BY <1>2, <2>1, <4>1, EventAppend
    <3>3. QED
      BY <3>1, <3>2
  <2>3. decoded \o <<>> = decoded
    BY <1>2, ConcatEmptySeq
  <2>4. Len(pending') <= 3
    BY <1>1, EmptySeq
  <2>5. QED
    BY <1>1, <2>1, <2>2, <2>3, <2>4
<1>5. ASSUME ~stream
      PROVE  (Len(decoded') <= RESP_MAX => resp' = decoded') /\ events' = ResponseBody(Escaped(resp))'
  <2>1. ResponseBody(Escaped(resp))' = ResponseBody(Escaped(resp))
    BY <1>1 DEF Escaped, ResponseBody
  <2>2. QED
    BY <1>1, <1>5, <2>1 DEF StreamInv
<1>6. <<>> \in Seq(Byte)
  BY EmptySeq
<1>7. phase' \in {"sample", "emit", "end", "done"} /\ phase' # "emit" /\ client'.program # "chat"
  BY <1>1, <1>3
<1>8. QED
  BY <1>1, <1>2, <1>4, <1>5, <1>6, <1>7, Zenon DEF StreamInv

(* A token that is streamed: whole characters are sent, the rest is held back. *)
LEMMA PieceSent ==
  ASSUME Sound(events), Whole(Heard(events)), Heard(events) \o pending = decoded,
         decoded \in Seq(Byte), pending \in Seq(Byte), n_gen = 0 => pending = <<>>,
         NEW D \in Seq(Byte),
         decoded' = decoded \o Opening \o D,
         events' = events
           \o (IF Opening = <<>> THEN <<>> ELSE <<json_escape_str(Opening)>>)
           \o (IF utf8_complete_prefix(pending \o D) = 0 THEN <<>>
               ELSE <<json_escape_str(SubSeq(pending \o D, 1, utf8_complete_prefix(pending \o D)))>>),
         pending' = Pending(pending \o D)
  PROVE  /\ Sound(events') /\ Whole(Heard(events')) /\ Heard(events') \o pending' = decoded'
         /\ pending' \in Seq(Byte) /\ Len(pending') <= 3
<1> DEFINE m == pending \o D
           e == utf8_complete_prefix(m)
           x == SubSeq(m, 1, e)
           y == SubSeq(m, e + 1, Len(m))
           o == Opening
           H == Heard(events)
           mid == events \o (IF o = <<>> THEN <<>> ELSE <<json_escape_str(o)>>)
           last == mid \o (IF e = 0 THEN <<>> ELSE <<json_escape_str(x)>>)
<1>1. m \in Seq(Byte)
  BY ConcatProperties
<1>2. o \in Seq(Byte) /\ Whole(o) /\ (o # <<>> => pending = <<>>)
  BY OpeningIs DEF Opening
<1>3. events' = last /\ pending' = y
  BY DEF Pending
<1>4. H \in Seq(Byte)
  BY FlattenType DEF Sound, Heard
<1> HIDE DEF m
<1>5. e \in 0..Len(m) /\ Len(m) - e <= 3 /\ Whole(x)
  BY <1>1, PrefixIs
<1> HIDE DEF e
<1>6. x \in Seq(Byte) /\ y \in Seq(Byte) /\ Len(x) = e /\ Len(y) = Len(m) - e /\ m = x \o y
  BY <1>1, <1>5, Parts, ZenonT(60)
<1>7. e = 0 => x = <<>>
  <2>1. x # <<>> => Len(x) \in Nat \ {0}
    BY <1>6, EmptySeq
  <2>2. QED
    BY <1>6, <2>1
<1> HIDE DEF x, y, o
<1>8. Sound(mid) /\ Heard(mid) = H \o o /\ Whole(Heard(mid))
  <2> DEFINE none == o = <<>>
  <2>1. none \in BOOLEAN /\ (none => o = <<>>)
    OBVIOUS
  <2>2. mid = events \o (IF none THEN <<>> ELSE <<json_escape_str(o)>>)
    OBVIOUS
  <2> HIDE DEF none
  <2>3. QED
    BY <1>2, <2>1, <2>2, EventsExtend
<1> HIDE DEF mid, H
<1>9. Sound(last) /\ Heard(last) = Heard(mid) \o x /\ Whole(Heard(last))
  <2> DEFINE none == e = 0
  <2>1. none \in BOOLEAN /\ (none => x = <<>>)
    BY <1>7
  <2>2. last = mid \o (IF none THEN <<>> ELSE <<json_escape_str(x)>>)
    OBVIOUS
  <2> HIDE DEF none
  <2>3. QED
    BY <1>5, <1>6, <1>8, <2>1, <2>2, EventsExtend
<1> HIDE DEF last
<1>10. Heard(last) \o y = decoded'
  <2>1. ((H \o o) \o x) \o y = (H \o o) \o m
    <3> DEFINE h == H \o o
    <3>1. h \in Seq(Byte)
      BY <1>2, <1>4, ConcatProperties
    <3> HIDE DEF h
    <3>2. x \in Seq(Byte) /\ y \in Seq(Byte) /\ m = x \o y
      BY <1>6
    <3>3. (h \o x) \o y = h \o (x \o y)
      <4> HIDE DEF H, m
      <4>1. x \in Seq(Byte) /\ y \in Seq(Byte)
        BY <3>2
      <4>2. QED
        BY <3>1, <4>1, Joins, ZenonT(60)
    <3>4. QED
      BY <3>2, <3>3 DEF h
  <2>2. decoded' = (H \o pending \o o) \o D
    BY DEF H, o
  <2>3. (H \o pending) \o o = (H \o o) \o pending
    <3>1. CASE o = <<>>
      <4>1. (H \o pending) \in Seq(Byte)
        BY <1>4, ConcatProperties
      <4>2. QED
        BY <1>4, <3>1, <4>1, ConcatEmptySeq
    <3>2. CASE pending = <<>>
      <4>1. (H \o o) \in Seq(Byte)
        BY <1>2, <1>4, ConcatProperties
      <4>2. QED
        BY <1>4, <3>2, <4>1, ConcatEmptySeq
    <3>3. QED
      BY <1>2, <3>1, <3>2
  <2>4. ((H \o o) \o pending) \o D = (H \o o) \o (pending \o D)
    <3> DEFINE h == H \o o
    <3>1. h \in Seq(Byte)
      BY <1>2, <1>4, ConcatProperties
    <3> HIDE DEF h
    <3>2. (h \o pending) \o D = h \o (pending \o D)
      BY <3>1, Joins, ZenonT(60)
    <3>3. QED
      BY <3>2 DEF h
  <2>5. QED
    BY <1>8, <1>9, <2>1, <2>2, <2>3, <2>4 DEF m
<1>11. Len(y) <= 3
  BY <1>5, <1>6
<1>12. QED
  BY <1>3, <1>6, <1>9, <1>10, <1>11

(* A token that is stored, up to the limit.                                *)
LEMMA PieceStored ==
  ASSUME decoded \in Seq(Byte), resp \in Seq(Byte), Len(decoded) <= RESP_MAX => resp = decoded,
         NEW D \in Seq(Byte),
         decoded' = decoded \o Opening \o D,
         resp' = resp \o Opening \o Cut(D, RESP_MAX - Len(resp \o Opening))
  PROVE  resp' \in Seq(Byte) /\ (Len(decoded') <= RESP_MAX => resp' = decoded')
<1> DEFINE o == Opening
           r == resp \o o
           k == RESP_MAX - Len(r)
<1>1. o \in Seq(Byte)
  BY OpeningIs
<1>2. r \in Seq(Byte) /\ Len(r) = Len(resp) + Len(o)
  BY <1>1, ConcatProperties
<1>3. /\ Len(r) \in Nat /\ Len(o) \in Nat /\ Len(D) \in Nat /\ Len(decoded) \in Nat
      /\ RESP_MAX \in Nat
  BY <1>1, <1>2, LenProperties, LimitsAssumption
<1>4. resp' = r \o Cut(D, k) /\ decoded' = (decoded \o o) \o D
  OBVIOUS
<1> HIDE DEF o
<1>5. decoded \o o \in Seq(Byte) /\ Len((decoded \o o) \o D) = (Len(decoded) + Len(o)) + Len(D)
  <2>1. decoded \o o \in Seq(Byte) /\ Len(decoded \o o) = Len(decoded) + Len(o)
    BY <1>1, ConcatProperties
  <2>2. Len((decoded \o o) \o D) = Len(decoded \o o) + Len(D)
    BY <2>1, ConcatProperties
  <2>3. QED
    BY <2>1, <2>2
<1>6. k \in Int
  BY <1>3
<1>7. Cut(D, k) \in Seq(Byte) /\ (Len(D) <= k => Cut(D, k) = D)
  BY <1>6, CutIs
<1>8. resp' \in Seq(Byte)
  <2> HIDE DEF r, k
  <2>1. r \o Cut(D, k) \in Seq(Byte)
    BY <1>2, <1>7, ConcatProperties
  <2>2. QED
    BY <1>4, <2>1
<1>9. ASSUME Len(decoded') <= RESP_MAX PROVE resp' = decoded'
  <2>1. (Len(decoded) + Len(o)) + Len(D) <= RESP_MAX
    BY <1>4, <1>5, <1>9
  <2>2. Len(decoded) <= RESP_MAX
    BY <1>3, <2>1
  <2>3. resp = decoded
    BY <2>2
  <2>4. Len(r) = Len(decoded) + Len(o)
    BY <1>2, <2>3
  <2>5. Len(D) <= RESP_MAX - Len(r)
    BY <1>3, <2>1, <2>4
  <2>6. Cut(D, k) = D
    BY <1>7, <2>5
  <2>7. QED
    BY <1>4, <2>3, <2>6
<1>10. QED
  BY <1>8, <1>9

(* A token is sent or stored.                                              *)
LEMMA StreamGrows ==
  ASSUME StreamInv, EmitPiece
  PROVE  StreamInv'
<1> DEFINE D == Decode(Piece[next])
           o == Opening
           m == pending \o D
           e == utf8_complete_prefix(m)
<1>1. /\ phase = "emit" /\ n_gen < MAX_TOKENS /\ n_gen' = n_gen + 1
      /\ decoded' = decoded \o Opening \o D /\ phase' \in {"sample", "end"}
      /\ client' = client /\ stream' = stream
  BY DEF EmitPiece
<1>2. /\ n_gen \in 0..MAX_TOKENS /\ decoded \in Seq(Byte) /\ pending \in Seq(Byte)
      /\ resp \in Seq(Byte) /\ (n_gen = 0 => pending = <<>>) /\ next \in DOMAIN Piece
      /\ client.program # "chat"
  BY <1>1 DEF StreamInv
<1>3. D \in Seq(Byte)
  BY <1>2, DecodeType
<1>4. decoded' \in Seq(Byte)
  <2>1. decoded \o Opening \in Seq(Byte)
    BY <1>2, OpeningIs, ConcatProperties
  <2> HIDE DEF D
  <2>2. (decoded \o Opening) \o D \in Seq(Byte)
    BY <1>3, <2>1, ConcatProperties
  <2>3. QED
    BY <1>1, <2>2
<1>5. n_gen' \in 0..MAX_TOKENS /\ n_gen' # 0
  BY <1>1, <1>2, LimitsAssumption
<1>6. ASSUME stream
      PROVE  /\ Sound(events') /\ Heard(events') \o pending' = decoded' /\ Len(pending') <= 3
             /\ Whole(Heard(events')) /\ pending' \in Seq(Byte) /\ resp' = resp
  <2>1. Sound(events) /\ Heard(events) \o pending = decoded /\ Whole(Heard(events))
    BY <1>1, <1>6 DEF StreamInv
  <2>2. /\ events' = events
             \o (IF Opening = <<>> THEN <<>> ELSE <<json_escape_str(Opening)>>)
             \o (IF e = 0 THEN <<>> ELSE <<json_escape_str(SubSeq(m, 1, e))>>)
        /\ pending' = Pending(m) /\ resp' = resp
    BY <1>6, Zenon DEF EmitPiece
  <2> HIDE DEF D
  <2>3. QED
    BY <1>1, <1>2, <1>3, <2>1, <2>2, PieceSent
<1>7. ASSUME ~stream
      PROVE  /\ Len(decoded') <= RESP_MAX => resp' = decoded'
             /\ resp' \in Seq(Byte) /\ events' = <<>> /\ pending' = pending
  <2>1. (Len(decoded) <= RESP_MAX => resp = decoded) /\ events = <<>>
    BY <1>1, <1>7 DEF StreamInv
  <2>2. /\ resp' = resp \o Opening \o Cut(D, RESP_MAX - Len(resp \o Opening))
        /\ events' = events /\ pending' = pending
    BY <1>7 DEF EmitPiece
  <2> HIDE DEF D
  <2>3. QED
    BY <1>1, <1>2, <1>3, <2>1, <2>2, PieceStored
<1>8. /\ phase' # "emit" /\ phase' # "done" /\ client'.program # "chat"
      /\ phase' \in {"sample", "emit", "end", "done"}
  BY <1>1, <1>2
<1>9. pending' \in Seq(Byte) /\ resp' \in Seq(Byte)
  BY <1>2, <1>6, <1>7
<1>10. QED
  BY <1>1, <1>4, <1>5, <1>6, <1>7, <1>8, <1>9, Zenon DEF StreamInv

(* Nothing is sent at the start.                                           *)
LEMMA StreamInit ==
  ASSUME Init
  PROVE  StreamInv
<1>1. /\ phase = "start" /\ stream = FALSE /\ n_gen = 0
      /\ pending = <<>> /\ resp = <<>> /\ events = <<>> /\ decoded = <<>>
  BY DEF Init
<1>2. 0 \in 0..MAX_TOKENS /\ <<>> \in Seq(Byte)
  BY LimitsAssumption, EmptySeq
<1>3. QED
  BY <1>1, <1>2, Zenon DEF StreamInv

(* StreamInv is inductive.                                                 *)
LEMMA StreamStep ==
  ASSUME StreamInv, [Next]_vars
  PROVE  StreamInv'
<1>1. ASSUME NEW ms \in Conversations, Extract(ms) PROVE StreamInv'
  <2>1. UNCHANGED genVars /\ client' = client /\ phase = "start" /\ phase' \in {"refused", "layout"}
    BY <1>1 DEF Extract
  <2>2. QED
    BY <2>1, StreamKept
<1>2. ASSUME NEW line \in Lines, ReadLine(line) PROVE StreamInv'
  <2>1. /\ UNCHANGED genVars /\ client' = client /\ phase = "start"
        /\ phase' \in {"refused", "layout", "skipped"}
    BY <1>2 DEF ReadLine
  <2>2. QED
    BY <2>1, StreamKept
<1>3. CASE SkipLine
  BY <1>3, StreamKept DEF SkipLine
<1>4. CASE AddTokens
  BY <1>4, StreamKept DEF AddTokens
<1>5. CASE AddText
  <2>1. UNCHANGED genVars /\ client' = client /\ phase = "layout" /\ phase' \in {"layout", "bpe"}
    BY <1>5 DEF AddText
  <2>2. QED
    BY <2>1, StreamKept
<1>6. CASE MatchSpecial \/ Contraction \/ Chunk
  <2>1. UNCHANGED genVars /\ client' = client /\ phase' = phase
    BY <1>6 DEF MatchSpecial, Contraction, Chunk, EncodeChunk, bpeUnchanged
  <2>2. QED
    BY <2>1, StreamKept
<1>7. CASE EndText
  BY <1>7, StreamKept DEF EndText
<1>8. CASE EndPrompt
  BY <1>8, StreamBegins
<1>9. CASE NextTurn
  BY <1>9, StreamKept DEF NextTurn
<1>10. ASSUME NEW d \in Draws(n_gen), SampleToken(d) PROVE StreamInv'
  BY <1>10, StreamDraws
<1>11. CASE EmitPiece
  BY <1>11, StreamGrows
<1>12. CASE Finish
  BY <1>12, StreamEnds
<1>13. CASE UNCHANGED vars
  BY <1>13, StreamKept DEF vars
<1>14. QED
  BY <1>1, <1>2, <1>3, <1>4, <1>5, <1>6, <1>7, <1>8, <1>9, <1>10, <1>11, <1>12, <1>13 DEF Next

(* What the invariant says at the end of a response that is not streamed.  *)
LEMMA StoredExact ==
  ASSUME StreamInv, phase = "done", ~stream, Len(decoded) <= RESP_MAX,
         Len(json_escape_str(decoded)) + 6 < ESCAPED_MAX,
         Len(json_escape_str(decoded)) + WRAPPER <= BODY_MAX
  PROVE  Received = decoded
<1>1. resp = decoded /\ events = ResponseBody(Escaped(resp)) /\ decoded \in Seq(Byte)
  BY DEF StreamInv
<1> DEFINE e == json_escape_str(decoded)
<1>2. events = <<e>>
  BY <1>1, EscapedIs DEF ResponseBody
<1>3. JsonText(e) = decoded
  BY <1>1, JsonBack
<1> HIDE DEF e
<1>4. [i \in DOMAIN events |-> JsonText(events[i])] = <<decoded>>
  BY <1>2, <1>3
<1>5. <<>> \in Seq(Seq(Byte)) /\ Append(<<>>, decoded) = <<decoded>>
  BY EmptySeq
<1>6. FlattenSeq(<<decoded>>) = FlattenSeq(<<>>) \o decoded /\ FlattenSeq(<<>>) = <<>>
  BY <1>1, <1>5, FlattenAppend, FlattenType
<1>7. <<>> \o decoded = decoded
  BY <1>1, ConcatEmptySeq
<1>8. QED
  BY <1>4, <1>6, <1>7 DEF Received

(* Whatever is generated, the client receives exactly the text of the      *)
(* tokens: as events that never split a character of a valid text, or as   *)
(* one response if it fits, and without raw control bytes.  handle_request *)
(* of server.c with utf8_complete_prefix and json_escape_str, for every    *)
(* vocabulary and every draw.                                              *)
THEOREM StreamFaithful == Spec => []StreamExact
<1>1. Init => StreamInv
  BY StreamInit
<1>2. StreamInv /\ [Next]_vars => StreamInv'
  BY StreamStep
<1>3. StreamInv => StreamExact
  <2>1. SUFFICES ASSUME StreamInv PROVE StreamExact
    OBVIOUS
  <2>2. Received = Heard(events)
    BY DEF Received, Heard, EventTexts
  <2>3. stream => Received \o pending = decoded /\ Len(pending) <= 3
    BY <2>1, <2>2 DEF StreamInv
  <2>4. phase = "done" /\ ~stream /\ Len(decoded) <= RESP_MAX
          /\ Len(json_escape_str(decoded)) + 6 < ESCAPED_MAX
          /\ Len(json_escape_str(decoded)) + WRAPPER <= BODY_MAX => Received = decoded
    BY <2>1, StoredExact
  <2>5. events \in Seq(Seq(Plain))
    <3>1. CASE stream
      BY <2>1, <3>1 DEF StreamInv, Sound
    <3>2. CASE ~stream
      <4>1. resp \in Seq(Byte) /\ events \in {<<Escaped(resp)>>, <<>>}
        BY <2>1, <3>2 DEF StreamInv, ResponseBody
      <4>2. Escaped(resp) \in Seq(Plain)
        BY <4>1, EscapedIs
      <4> DEFINE P == Seq(Plain)
      <4> HIDE DEF P
      <4>3. <<Escaped(resp)>> \in Seq(P) /\ <<>> \in Seq(P)
        BY <4>2, EmptySeq DEF P
      <4>4. QED
        BY <4>1, <4>3 DEF P
    <3>3. QED
      BY <3>1, <3>2
  <2>6. \A i \in DOMAIN events : \A k \in DOMAIN events[i] : events[i][k] >= 32
    <3>1. SUFFICES ASSUME NEW i \in DOMAIN events, NEW k \in DOMAIN events[i]
                   PROVE  events[i][k] >= 32
      OBVIOUS
    <3>2. i \in 1..Len(events)
      BY <2>5, LenProperties
    <3>3. events[i] \in Seq(Plain)
      BY <2>5, <3>2, ElementOfSeq
    <3>4. k \in 1..Len(events[i])
      BY <3>3, LenProperties
    <3>5. events[i][k] \in Plain
      BY <3>3, <3>4, ElementOfSeq
    <3>6. QED
      BY <3>5 DEF Plain
  <2>7. phase = "done" /\ stream /\ utf8_valid(decoded) =>
          \A i \in DOMAIN events : utf8_valid(JsonText(events[i]))
    <3>1. SUFFICES ASSUME phase = "done", stream, utf8_valid(decoded)
                   PROVE  \A i \in DOMAIN events : utf8_valid(JsonText(events[i]))
      OBVIOUS
    <3>2. Sound(events) /\ Heard(events) \o pending = decoded /\ pending = <<>>
      BY <2>1, <3>1 DEF StreamInv
    <3>3. Heard(events) \in Seq(Byte)
      BY <3>2, FlattenType DEF Sound, Heard
    <3>4. Heard(events) = decoded
      BY <3>2, <3>3, ConcatEmptySeq
    <3>5. QED
      BY <3>1, <3>2, <3>4 DEF Sound
  <2>8. QED
    BY <2>3, <2>4, <2>6, <2>7 DEF StreamExact
<1>4. QED
  BY <1>1, <1>2, <1>3, PTL DEF Spec

-----------------------------------------------------------------------------
(* The draws.                                                              *)

\* The token that is about to be sent is drawn from inputs of the sampler.
DrawInv ==
  phase = "emit" =>
    \E k \in 0..MAX_TOKENS : draw \in Draws(k) /\ next \in sample_token(draw.logits, draw.p, draw.history)

(* Every token that sample_token of sampler.c draws is one that top-k,     *)
(* min-p and top-p leave of the sorted vocabulary, and every token they    *)
(* leave can be drawn: neither the bounded heap of select_top nor the cap  *)
(* that grows loses one.  Without filters it is a best one.                *)
THEOREM DrawsAllowed == Spec => []SampledAllowed
<1>1. Init => StreamInv /\ DrawInv
  <2>1. SUFFICES ASSUME Init PROVE StreamInv /\ DrawInv
    OBVIOUS
  <2>2. phase = "start"
    BY <2>1 DEF Init
  <2>3. DrawInv
    BY <2>2 DEF DrawInv
  <2>4. QED
    BY <2>1, <2>3, StreamInit
<1>2. StreamInv /\ DrawInv /\ [Next]_vars => StreamInv' /\ DrawInv'
  <2>1. SUFFICES ASSUME StreamInv, DrawInv, [Next]_vars PROVE DrawInv'
    BY StreamStep
  <2>2. ASSUME NEW d \in Draws(n_gen), SampleToken(d) PROVE DrawInv'
    <3>1. n_gen \in 0..MAX_TOKENS
      BY <2>1 DEF StreamInv
    <3>2. draw' = d /\ next' \in sample_token(d.logits, d.p, d.history)
      BY <2>2 DEF SampleToken
    <3>3. draw' \in Draws(n_gen) /\ next' \in sample_token(draw'.logits, draw'.p, draw'.history)
      BY <3>2
    <3>4. QED
      BY <3>1, <3>3, Zenon DEF DrawInv
  <2>3. phase' # "emit" => DrawInv'
    BY DEF DrawInv
  <2>4. phase' = phase /\ draw' = draw /\ next' = next => DrawInv'
    BY <2>1, Zenon DEF DrawInv
  <2>5. ASSUME NEW ms \in Conversations, Extract(ms) PROVE DrawInv'
    BY <2>3, <2>5 DEF Extract
  <2>6. ASSUME NEW line \in Lines, ReadLine(line) PROVE DrawInv'
    BY <2>3, <2>6 DEF ReadLine
  <2>7. CASE SkipLine \/ AddTokens \/ AddText \/ EndText \/ EndPrompt \/ NextTurn
    <3>1. phase' # "emit"
      BY <2>7 DEF SkipLine, AddTokens, AddText, EndText, EndPrompt, NextTurn
    <3>2. QED
      BY <2>3, <3>1
  <2>8. CASE MatchSpecial \/ Contraction \/ Chunk
    <3>1. phase' = phase /\ draw' = draw /\ next' = next
      BY <2>8 DEF MatchSpecial, Contraction, Chunk, EncodeChunk, bpeUnchanged, genVars
    <3>2. QED
      BY <2>4, <3>1
  <2>9. CASE EmitPiece \/ Finish
    <3>1. phase' # "emit"
      BY <2>9 DEF EmitPiece, Finish
    <3>2. QED
      BY <2>3, <3>1
  <2>10. CASE UNCHANGED vars
    <3>1. phase' = phase /\ draw' = draw /\ next' = next
      BY <2>10 DEF vars, genVars
    <3>2. QED
      BY <2>4, <3>1
  <2>11. QED
    BY <2>1, <2>2, <2>5, <2>6, <2>7, <2>8, <2>9, <2>10 DEF Next
<1>3. StreamInv /\ DrawInv => SampledAllowed
  <2>1. SUFFICES ASSUME DrawInv, phase = "emit" PROVE SampledAllowed
    BY DEF SampledAllowed
  <2>2. PICK k \in 0..MAX_TOKENS : draw \in Draws(k) /\ next \in sample_token(draw.logits, draw.p, draw.history)
    BY <2>1 DEF DrawInv
  <2> DEFINE n == Len(Piece)
             p == draw.p
             l == draw.logits
             h == draw.history
  <2>3. n \in Nat \ {0} /\ DOMAIN Piece = 1..n
    BY PieceAssumption, LenProperties, EmptySeq
  <2>4. /\ l \in [1..n -> Int] /\ h \in Seq(Int)
        /\ p.top_k \in Nat /\ p.min_p \in 0..100 /\ p.top_p \in Nat /\ p.repeat_last_n \in Nat
        /\ p.repeat_penalty \in Nat \ {0}
        /\ p.frequency_penalty \in Int /\ p.presence_penalty \in Int
        /\ Exponential(Penalised(l, p, h), 1..n)
    BY <2>2, <2>3, DrawsAssumption, Zenon
  <2>5. next \in sample_token(l, p, h)
    BY <2>2
  <2>6. Allowed(next, l, p, h)
    <3> HIDE DEF n, p, l, h
    <3>1. QED
      BY <2>3, <2>4, <2>5, SampleIs
  <2>7. QED
    BY <2>6 DEF SampledAllowed, Allowed, Ranked, Greedy
<1>4. QED
  BY <1>1, <1>2, <1>3, PTL DEF Spec

=============================================================================
