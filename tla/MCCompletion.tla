---------------------------- MODULE MCCompletion ----------------------------
(* Instance of Completion: a vocabulary with overlapping merges, all short  *)
(* texts of bytes that the pre-tokenizer tells apart, lines at the borders  *)
(* of UTF-8, and a vocabulary of five tokens that split characters.         *)
EXTENDS Completion

\* a b c 1 space newline ' s ! e-acute, a quote, a stray byte and <|e|>
A == <<97>>
B == <<98>>
Atoms == {A, B, <<49>>, <<32>>, <<10>>, <<39>>, <<115>>, <<33>>, <<195, 169>>, <<34>>,
          <<195>>, <<60, 124, 101, 124, 62>>}
Few == {A, B, <<32>>, <<195, 169>>}
Strings(S, n) == {FlattenSeq(s) : s \in [1..n -> S]}
Texts ==
  {<<b>> : b \in 1..255} \cup UNION {Strings(Atoms, n) : n \in 1..2}
  \cup UNION {Strings(Few, n) : n \in 3..4}

mcMerges == << <<A, B>>, <<A, A>>, <<A \o B, A>>, <<ByteKey(32), A>>, <<ByteKey(195), ByteKey(169)>> >>
mcBpeVocab == {ByteKey(b) : b \in Byte} \cup {mcMerges[r][1] \o mcMerges[r][2] : r \in DOMAIN mcMerges}
              \cup {ImStart, ImEnd, EndHeader, Bos, ThinkStart, ThinkEnd}
mcSpmPieces == {A, B, Marker, A \o B, Marker \o A, A \o A, <<195, 169>>, <<195, 169>> \o A, <<117>>}
mcSpmScore == [k \in mcSpmPieces \cup {FallbackKey(b) : b \in Byte} |->
                 CASE k = A \o B -> -1 [] k = Marker \o A -> -2 [] k = A \o A -> -1 [] OTHER -> -3]

mcSystemPrompt == B
Msg(role, content) == [role |-> role, content |-> content]
Long == [i \in 1..45 |-> IF i % 2 = 0 THEN 97 ELSE 49]
\* Contents that a client escaped in another way, or that the limit cuts in an
\* escape, and contents that hold a role's name in quotes.
Escapes == {<<92, 47, 97>>, <<92, 117, 48, 48, 101, 57>>, SubSeq(Long, 1, 11) \o <<92, 110, 97>>,
            SubSeq(Long, 1, 11) \o <<92, 92>>, SubSeq(Long, 1, 10) \o <<92, 110>>}
RoleTexts == {Word("user"), Word("system"), <<97, 92, 34>> \o Word("system"),
              <<92, 34>> \o Word("user") \o <<92, 34>>}
mcConversations ==
  {<<Msg("user", json_escape_str(s))>> : s \in Texts}
  \cup {<<Msg("system", B), Msg("user", A)>>, <<Msg("user", A), Msg("assistant", B)>>,
        <<Msg("system", A), Msg("user", Long), Msg("assistant", B), Msg("user", A)>>,
        <<Msg("user", A), Msg("system", B), Msg("user", B)>>, <<Msg("assistant", A)>>, <<>>,
        <<Msg("user", Long)>>, <<Msg("system", Long), Msg("user", A)>>}
  \cup {<<Msg("system", A), Msg("user", s)>> : s \in Escapes \cup RoleTexts}
  \cup {<<Msg("user", s)>> : s \in RoleTexts}
  \cup {<<Msg("user", A), Msg("assistant", s), Msg("user", B)>> : s \in RoleTexts}


Edge == {65, 127, 128, 159, 160, 191, 193, 194, 223, 224, 237, 240, 244, 245}
mcLines ==
  {<<a>> : a \in Edge} \cup (Edge \X Edge) \cup ({224, 237, 239, 193} \X Edge \X {65, 128, 191})
  \cup ({240, 241, 244, 245} \X {127, 128, 143, 144, 191, 192} \X {128, 191, 192} \X {127, 128, 191})
  \cup {A \o B, <<97, 32, 10>>, <<32>>, <<>>}

mcWeight(l) == 2 ^ (l + 4)
Param(k, tp, mp, rp) ==
  [temperature |-> 1, top_k |-> k, top_p |-> tp, min_p |-> mp, repeat_last_n |-> 2,
   repeat_penalty |-> rp, frequency_penalty |-> rp - 1, presence_penalty |-> 0]
Calls(logits, params, histories) == [logits : logits, p : params, history : histories]
mcDraws(n) ==
  IF n = 0
  THEN Calls([1..5 -> {0, 2}] \cup {<<2, 0, -1, -2, 1>>, <<-2, -1, 0, 1, 2>>, <<1, 0, 2, 0, 1>>},
             {Param(k, tp, mp, rp) : k \in {0, 1, 3, 9}, tp \in {50, 90, 100}, mp \in {0, 30}, rp \in {1, 2}}
               \cup {[Param(3, 50, 0, 1) EXCEPT !.temperature = 0]},
             {<<>>, <<1, 2, 2>>})
  ELSE Calls({<<0, 0, 0, 0, 0>>}, {Param(5, 100, 0, 1)}, {<<>>})

Client(program, kind, think, no_think) ==
  [program |-> program, kind |-> kind, spm |-> kind = "gemma", markers |-> TRUE,
   scores |-> TRUE, think |-> think, no_think |-> no_think]
mcClients ==
  UNION {{Client(program, "llama3", "none", FALSE), Client(program, "gemma", "none", FALSE),
          Client(program, "chatml", "none", FALSE), Client(program, "chatml", "both", FALSE),
          Client(program, "chatml", "both", TRUE), Client(program, "chatml", "start", TRUE),
          Client(program, "llama3", "both", FALSE),
          [Client(program, "gemma", "none", FALSE) EXCEPT !.scores = FALSE],
          [Client(program, "llama3", "none", FALSE) EXCEPT !.markers = FALSE]}
         : program \in {"server", "chat"}}

\* A letter, the two bytes of a character, a control byte with a quote, the end.
mcPiece == <<A, ByteKey(195), ByteKey(169), ByteKey(1) \o <<34>>, ImEnd>>
=============================================================================
