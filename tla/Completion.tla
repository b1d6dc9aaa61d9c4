----------------------------- MODULE Completion -----------------------------
(***************************************************************************)
(* The text of a completion, from the messages of a request or the lines   *)
(* of a chat to the tokens of the prompt, and from sampled tokens to what  *)
(* the client gets.  handle_request of server.c (extraction, prompt,       *)
(* generation, streaming), the prompt of chat.c's turns, the chat          *)
(* templates and the loop of tokenize_bpe.  What the model computes        *)
(* between two tokens is Session; here the logits are any of Draws.        *)
(***************************************************************************)
EXTENDS Tokenizer, Sampler

CONSTANTS
  Conversations,   \* requests: sequences of [role, content], content escaped
  Lines,           \* lines typed in a chat
  USER_MAX, SYS_MAX,  \* bytes taken of a message (4095, 1023)
  SystemPrompt,    \* the chat's --system, or empty
  MAX_PROMPT,      \* tokens of a prompt (4096)
  SYMBOLS_MAX,     \* symbols of one encoded fragment (4096)
  Clients,         \* [program, kind, spm, scores, markers, think, no_think]
  Draws(_),        \* inputs of the n-th sample_token: [logits, p, history]
  Piece,           \* the pieces of the sampled vocabulary
  Eos,             \* its end token
  MAX_TOKENS,      \* tokens generated for a request
  RESP_MAX,        \* bytes of resp_body (65535)
  ESCAPED_MAX,     \* bytes of its escaped form (65279)
  WRAPPER,         \* bytes of the JSON around it (255 to 275)
  BODY_MAX         \* bytes of json_buf (65535)

VARIABLES
  client,      \* the program and the model it serves, one of Clients
  stream,      \* the request asks for events
  phase,       \* "start", "skipped", "layout", "bpe", "sample", "emit",
               \* "end", "done", "refused"
  given,       \* the messages or the line the prompt is made of
  first,       \* the chat's first_turn
  todo,        \* what the template still adds
  text, pos, symbols,   \* the fragment that tokenize_bpe works on
  tokens,      \* the prompt
  draw, next,  \* the last call of sample_token and its result
  n_gen, pending, resp, \* of the generation loop
  events,      \* contents of the events sent, escaped
  decoded      \* history variable: the text of the tokens generated

promptVars == <<todo, text, pos, symbols, tokens>>
genVars == <<stream, draw, next, n_gen, pending, resp, events, decoded>>
vars == <<client, phase, given, first, promptVars, genVars>>

\* A program and its model: the template, the encoder, whether the vocabulary
\* has scores and the template's markers and which reasoning markers it has.
ASSUME ClientsAssumption ==
  \A c \in Clients :
    /\ c.program \in {"server", "chat"} /\ c.kind \in {"chatml", "llama3", "gemma"}
    /\ c.spm <=> c.kind = "gemma"

\* What is typed are bytes.
ASSUME LinesAssumption == Lines \subseteq Seq(Byte)

\* What Weight is on the logits l: positive, and not less where they are not less.
Exponential(l, D) ==
  \A t \in D : Weight(l[t]) \in Nat \ {0} /\ \A u \in D : l[u] <= l[t] => Weight(l[u]) <= Weight(l[t])

\* The pieces are texts, and there is a logit for each.  The options of the
\* sampler are in the ranges that the programs insist on.
ASSUME PieceAssumption == Piece \in Seq(Seq(Byte)) /\ Piece # <<>>
ASSUME LimitsAssumption ==
  MAX_TOKENS \in Nat /\ RESP_MAX \in Nat /\ ESCAPED_MAX \in Nat /\ CAP \in Nat \ {0}
ASSUME DrawsAssumption ==
  \A n \in 0..MAX_TOKENS : \A d \in Draws(n) :
    /\ d.logits \in [DOMAIN Piece -> Int] /\ d.history \in Seq(Int)
    /\ d.p.top_k \in Nat /\ d.p.min_p \in 0..100 /\ d.p.top_p \in Nat
    /\ d.p.repeat_last_n \in Nat
    /\ d.p.repeat_penalty \in Nat \ {0}
    /\ d.p.frequency_penalty \in Int /\ d.p.presence_penalty \in Int
    /\ Exponential(Penalised(d.logits, d.p, d.history), DOMAIN Piece)

(* ---- the messages of a request ------------------------------------------ *)

\* Lengths of "user", "system" and "assistant" with their quotes, and of the rest
\* of a message up to and behind its content.
RoleWidth(m) == CASE m.role = "user" -> 6 [] m.role = "system" -> 8 [] OTHER -> 11
MsgWidth(m) == 8 + RoleWidth(m) + 12 + Len(m.content) + 3

\* Offset of the i-th role string and of the i-th content in the body.
RoleAt(ms, i) ==
  LET S[k \in 0..Len(ms)] == IF k = 0 THEN 0 ELSE S[k - 1] + MsgWidth(ms[k])
  IN S[i - 1] + 8
ContentAt(ms, i) == RoleAt(ms, i) + RoleWidth(ms[i]) + 12

\* The bytes of "user" or "system", and where they stand in s in quotes.
Word(role) ==
  IF role = "user" THEN <<117, 115, 101, 114>> ELSE <<115, 121, 115, 116, 101, 109>>
Quoted(s) == <<34>> \o s \o <<34>>
Offsets(s, word) ==
  {k \in 0..(Len(s) - Len(word)) : SubSeq(s, k + 1, k + Len(word)) = word}

\* strstr from back bytes in front of content i to the end of the body: it finds
\* the role of a message, and a content that ends with the word in quotes.
Finds(ms, i, back, role) ==
  \E j \in DOMAIN ms :
    \/ ms[j].role = role /\ RoleAt(ms, j) >= ContentAt(ms, i) - back
    \/ \E k \in Offsets(Quoted(ms[j].content), Quoted(Word(role))) :
         ContentAt(ms, j) - 1 + k >= ContentAt(ms, i) - back

\* The first content counts as the system's when "system" follows anywhere.
SysMsg(ms) ==
  IF ms # <<>> /\ Finds(ms, 1, 40, "system")
  THEN json_unescape(Cut(ms[1].content, SYS_MAX)) ELSE <<>>

\* The last content with "user" behind it or shortly in front.
UserMsg(ms) ==
  LET found == {i \in DOMAIN ms : Finds(ms, i, 60, "user")} IN
  IF found = {} THEN <<>> ELSE json_unescape(Cut(ms[Max(found)].content, USER_MAX))

(* ---- the chat templates -------------------------------------------------- *)

\* The markers and role names, shortened: <|s|> <|e|> <|h|> <b> <t> </t> and
\* one letter for each role.
ImStart == <<60, 124, 115, 124, 62>>
ImEnd == <<60, 124, 101, 124, 62>>
EndHeader == <<60, 124, 104, 124, 62>>
Bos == <<60, 98, 62>>
ThinkStart == <<60, 116, 62>>
ThinkEnd == <<60, 47, 116, 62>>
UserName == <<117>>
SystemName == <<121>>
AnswerName == <<109>>
Nl == IF client.spm THEN FallbackKey(10) ELSE ByteKey(10)

Add(t) == [op |-> "add", toks |-> <<t>>, txt |-> <<>>, sp |-> FALSE]
Block(ts) == [op |-> "block", toks |-> ts, txt |-> <<>>, sp |-> FALSE]
Txt(s, sp) == [op |-> "text", toks |-> <<>>, txt |-> s, sp |-> sp]

\* chatml_add_reasoning
ThinkBlock ==
  CASE client.think = "none" -> <<>>
    [] ~client.no_think -> <<ThinkStart, Nl>>
    [] client.think = "both" -> <<ThinkStart, Nl, Nl, ThinkEnd, Nl, Nl>>
    [] OTHER -> <<>>
Reasoning == IF ThinkBlock = <<>> THEN <<>> ELSE <<Block(ThinkBlock)>>

ChatmlTurn(role, txt) ==
  <<Add(ImStart), Txt(role, TRUE), Add(Nl), Txt(txt, TRUE), Add(ImEnd), Add(Nl)>>
ChatmlAnswer == <<Add(ImStart), Txt(AnswerName, TRUE), Add(Nl)>> \o Reasoning

Header(role) == <<Add(ImStart), Txt(role, TRUE), Add(EndHeader), Add(Nl), Add(Nl)>>
Llama3Turn(role, txt) ==
  Header(role) \o (IF txt = <<>> THEN <<>> ELSE <<Txt(txt, TRUE)>>) \o <<Add(ImEnd)>>

GemmaTurn(txts) ==
  <<Add(ImStart), Txt(UserName, TRUE), Txt(<<10>>, FALSE)>> \o txts
  \o <<Add(ImEnd), Txt(<<10>>, FALSE),
       Add(ImStart), Txt(AnswerName, TRUE), Txt(<<10>>, FALSE)>>

chatml_prompt(user, sys) ==
  (IF sys = <<>> THEN <<>> ELSE ChatmlTurn(SystemName, sys))
  \o ChatmlTurn(UserName, user) \o ChatmlAnswer
llama3_chat_prompt(user, sys) ==
  <<Add(Bos)>> \o Llama3Turn(SystemName, sys) \o Llama3Turn(UserName, user)
  \o Header(AnswerName)
gemma_chat_prompt(user, sys) ==
  <<Add(Bos)>> \o GemmaTurn(
     (IF sys = <<>> THEN <<>> ELSE <<Txt(sys, FALSE), Txt(<<10, 10>>, FALSE)>>)
     \o <<Txt(user, FALSE)>>)

\* The continuations close the turn of the answer first.
chatml_continuation(user) ==
  <<Add(ImEnd), Add(Nl)>> \o ChatmlTurn(UserName, user) \o ChatmlAnswer
llama3_chat_continuation(user) ==
  <<Add(ImEnd)>> \o Llama3Turn(UserName, user) \o Header(AnswerName)
gemma_chat_continuation(user) ==
  <<Add(ImEnd), Txt(<<10>>, FALSE)>> \o GemmaTurn(<<Txt(user, FALSE)>>)

\* The operations of the architecture.
Prompt(user, sys) ==
  CASE client.kind = "chatml" -> chatml_prompt(user, sys)
    [] client.kind = "llama3" -> llama3_chat_prompt(user, sys)
    [] client.kind = "gemma"  -> gemma_chat_prompt(user, sys)
Continuation(user) ==
  CASE client.kind = "chatml" -> chatml_continuation(user)
    [] client.kind = "llama3" -> llama3_chat_continuation(user)
    [] client.kind = "gemma"  -> gemma_chat_continuation(user)

-----------------------------------------------------------------------------
NoCall == [logits |-> <<>>, p |-> <<>>, history |-> <<>>]

Init ==
  /\ client \in Clients
  /\ phase = "start" /\ given = <<>> /\ first = TRUE
  /\ todo = <<>> /\ text = <<>> /\ pos = 0 /\ symbols = <<>> /\ tokens = <<>>
  /\ stream = FALSE /\ draw = NoCall /\ next = 0 /\ n_gen = 0
  /\ pending = <<>> /\ resp = <<>> /\ events = <<>> /\ decoded = <<>>

\* The server extracts the messages; without a user message the answer is 400.
Extract(ms) ==
  /\ phase = "start" /\ client.program = "server"
  /\ given' = ms
  /\ IF UserMsg(ms) = <<>> \/ ~client.markers
     THEN phase' = "refused" /\ UNCHANGED todo
     ELSE phase' = "layout" /\ todo' = Prompt(UserMsg(ms), SysMsg(ms))
  /\ UNCHANGED <<client, first, text, pos, symbols, tokens, genVars>>

\* strip_trailing
Stripped(s) ==
  SubSeq(s, 1, Max({0} \cup {i \in DOMAIN s : s[i] \notin {9, 10, 13, 32}}))

\* Mutant of AcceptsLine: the line is taken as it is.
AcceptsAny(line) == line # <<>>
AcceptsLine(line) == utf8_valid(line) /\ line # <<>>

\* The chat reads a line: one that is not UTF-8 or empty is skipped; without the
\* markers there are no tokens and the program ends.
ReadLine(line) ==
  /\ phase = "start" /\ client.program = "chat"
  /\ given' = Stripped(line)
  /\ IF AcceptsLine(Stripped(line))
     THEN /\ phase' = IF client.markers THEN "layout" ELSE "refused"
          /\ todo' = IF ~client.markers THEN <<>>
                     ELSE IF first THEN Prompt(Stripped(line), SystemPrompt)
                     ELSE Continuation(Stripped(line))
          /\ first' = FALSE
     ELSE phase' = "skipped" /\ UNCHANGED <<todo, first>>
  /\ UNCHANGED <<client, text, pos, symbols, tokens, genVars>>

SkipLine ==
  /\ phase = "skipped" /\ phase' = "start" /\ given' = <<>>
  /\ UNCHANGED <<client, first, promptVars, genVars>>

\* One ADD or ADD_TEXT of the template; a full prompt takes nothing more.
AddTokens ==
  /\ phase = "layout" /\ todo # <<>> /\ Head(todo).op \in {"add", "block"}
  /\ tokens' = IF Len(tokens) + Len(Head(todo).toks) <= MAX_PROMPT
               THEN tokens \o Head(todo).toks ELSE tokens
  /\ todo' = Tail(todo)
  /\ UNCHANGED <<client, phase, given, first, text, pos, symbols, genVars>>

AddText ==
  /\ phase = "layout" /\ todo # <<>> /\ Head(todo).op = "text"
  /\ todo' = Tail(todo)
  /\ \/ Len(tokens) = MAX_PROMPT /\ UNCHANGED <<phase, text, tokens>>
     \/ /\ Len(tokens) < MAX_PROMPT /\ ~(client.spm /\ client.scores)
        /\ phase' = "bpe" /\ text' = Head(todo).txt
        /\ UNCHANGED tokens
     \/ /\ Len(tokens) < MAX_PROMPT /\ client.spm /\ client.scores
        /\ tokens' = tokens \o tokenize_spm(Head(todo).txt, MAX_PROMPT - Len(tokens),
                                            Head(todo).sp)
        /\ UNCHANGED <<phase, text>>
  /\ UNCHANGED <<client, given, first, pos, symbols, genVars>>

(* ---- tokenize_bpe -------------------------------------------------------- *)

Rest == SubSeq(text, pos + 1, Len(text))
Specials == SpecialLengths(Rest, client.spm)
Encoding == phase = "bpe" /\ pos < Len(text) /\ Len(symbols) < SYMBOLS_MAX
bpeUnchanged == <<client, phase, given, first, todo, text, tokens, genVars>>

MatchSpecial ==
  /\ Encoding /\ Specials # {}
  /\ symbols' = Append(symbols, SubSeq(Rest, 1, Max(Specials)))
  /\ pos' = pos + Max(Specials)
  /\ UNCHANGED bpeUnchanged

\* A chunk of n bytes is encoded behind what is there.
EncodeChunk(n) ==
  /\ symbols' = symbols \o bpe_encode_chunk(SubSeq(Rest, 1, n), SYMBOLS_MAX - Len(symbols),
                                          client.spm)
  /\ pos' = pos + n
  /\ UNCHANGED bpeUnchanged

Contraction ==
  /\ Encoding /\ Specials = {} /\ ContractionLength(Rest) > 0
  /\ EncodeChunk(ContractionLength(Rest))

Chunk ==
  /\ Encoding /\ Specials = {} /\ ContractionLength(Rest) = 0
  /\ EncodeChunk(ChunkLength(Rest))

EndText ==
  /\ phase = "bpe" /\ ~Encoding
  /\ tokens' = tokens \o Cut(symbols, MAX_PROMPT - Len(tokens))
  /\ phase' = "layout" /\ text' = <<>> /\ pos' = 0 /\ symbols' = <<>>
  /\ UNCHANGED <<client, given, first, todo, genVars>>

(* ---- generation ---------------------------------------------------------- *)

\* The prompt is prefilled (or that fails, with 500), and its memory is free.
EndPrompt ==
  /\ phase = "layout" /\ todo = <<>>
  /\ phase' \in {"sample", "refused"}
  /\ stream' \in IF client.program = "server" THEN BOOLEAN ELSE {FALSE}
  /\ tokens' = <<>> /\ given' = <<>>
  /\ UNCHANGED <<client, first, todo, text, pos, symbols, draw, next, n_gen, pending,
                 resp, events, decoded>>

\* The chat's answer and its way back to the prompt are in Session.
NextTurn ==
  /\ phase = "sample" /\ client.program = "chat"
  /\ phase' = "start"
  /\ UNCHANGED <<client, given, first, promptVars, genVars>>

SampleToken(d) ==
  /\ phase = "sample" /\ client.program = "server"
  /\ draw' = d /\ next' \in sample_token(d.logits, d.p, d.history)
  /\ phase' = "emit"
  /\ UNCHANGED <<client, given, first, promptVars, stream, n_gen, pending, resp, events,
                 decoded>>

Decode(raw) == IF client.spm THEN DecodeSpm(raw) ELSE DecodeBpe(raw)

\* The opening of the reasoning block, which is in the prompt, is repeated.
Opening ==
  IF n_gen = 0 /\ client.think # "none" /\ ~client.no_think
  THEN DecodeBpe(ThinkStart) \o <<10>> ELSE <<>>

\* Mutant of Pending: what was held back is forgotten.
PendingLost(merged) == <<>>

\* What is held back of merged.
Pending(merged) == SubSeq(merged, utf8_complete_prefix(merged) + 1, Len(merged))

\* The token is sent or stored; then the next pass runs, fails, or has no room.
EmitPiece ==
  /\ phase = "emit" /\ next # Eos /\ n_gen < MAX_TOKENS
  /\ n_gen' = n_gen + 1
  /\ decoded' = decoded \o Opening \o Decode(Piece[next])
  /\ IF stream
     THEN LET merged == pending \o Decode(Piece[next])
              emit == utf8_complete_prefix(merged)
          IN /\ events' = events
                  \o (IF Opening = <<>> THEN <<>> ELSE <<json_escape_str(Opening)>>)
                  \o (IF emit = 0 THEN <<>> ELSE <<json_escape_str(SubSeq(merged, 1, emit))>>)
             /\ pending' = Pending(merged)
             /\ UNCHANGED resp
     ELSE /\ resp' = resp \o Opening \o Cut(Decode(Piece[next]), RESP_MAX - Len(resp \o Opening))
          /\ UNCHANGED <<events, pending>>
  /\ phase' \in {"sample", "end"}
  /\ draw' = NoCall /\ next' = 0
  /\ UNCHANGED <<client, given, first, promptVars, stream>>

\* json_escape_str stops when six more bytes might not fit.
Escaped(s) ==
  LET fits == {n \in 0..Len(s) : \A k \in 1..n :
                 Len(json_escape_str(SubSeq(s, 1, k - 1))) + 6 < ESCAPED_MAX}
  IN json_escape_str(SubSeq(s, 1, Max(fits)))

\* The content in the body of the response: one that snprintf cuts is no JSON, and
\* who reads it gets nothing.
ResponseBody(s) == IF Len(s) + WRAPPER <= BODY_MAX THEN <<s>> ELSE <<>>

\* The rest of the stream, or the whole response.
Finish ==
  /\ \/ phase = "emit" /\ (next = Eos \/ n_gen = MAX_TOKENS)
     \/ phase = "end"
  /\ events' = IF ~stream THEN ResponseBody(Escaped(resp))
               ELSE IF pending = <<>> THEN events
               ELSE Append(events, json_escape_str(pending))
  /\ phase' = "done"
  /\ draw' = NoCall /\ next' = 0 /\ pending' = <<>>
  /\ UNCHANGED <<client, given, first, promptVars, stream, n_gen, resp, decoded>>

Next ==
  \/ \E ms \in Conversations : Extract(ms)
  \/ \E line \in Lines : ReadLine(line)
  \/ SkipLine
  \/ AddTokens \/ AddText \/ MatchSpecial \/ Contraction \/ Chunk \/ EndText
  \/ EndPrompt \/ NextTurn
  \/ \E d \in Draws(n_gen) : SampleToken(d)
  \/ EmitPiece \/ Finish

Spec == Init /\ [][Next]_vars

-----------------------------------------------------------------------------
(* What the prompt should be, from the comments of the templates.          *)
Name(n) == IF client.spm /\ client.scores THEN <<32>> \o n ELSE n
RefTurn(role, txt) == ImStart \o role \o <<10>> \o txt \o ImEnd \o <<10>>
RefThink ==
  CASE client.think = "none" \/ (client.no_think /\ client.think = "start") -> <<>>
    [] ~client.no_think -> ThinkStart \o <<10>>
    [] OTHER -> ThinkStart \o <<10, 10>> \o ThinkEnd \o <<10, 10>>
RefHeader(role) == ImStart \o role \o EndHeader \o <<10, 10>>
RefRound(user) ==
  CASE client.kind = "chatml" ->
         RefTurn(UserName, user) \o ImStart \o AnswerName \o <<10>> \o RefThink
    [] client.kind = "llama3" ->
         RefHeader(UserName) \o user \o ImEnd \o RefHeader(AnswerName)
    [] client.kind = "gemma" ->
         RefTurn(Name(UserName), user) \o ImStart \o Name(AnswerName) \o <<10>>
RefPrompt(user, sys) ==
  CASE client.kind = "chatml" ->
         (IF sys = <<>> THEN <<>> ELSE RefTurn(SystemName, sys)) \o RefRound(user)
    [] client.kind = "llama3" -> Bos \o RefHeader(SystemName) \o sys \o ImEnd \o RefRound(user)
    [] client.kind = "gemma" ->
         Bos \o RefRound((IF sys = <<>> THEN <<>> ELSE sys \o <<10, 10>>) \o user)

\* A JSON reader's view of a string: the bytes of the character that e[i] starts
\* (code points below 2048 if they are written \uXXXX), and how many it takes in e.
HexValue(c) == IF c < 58 THEN c - 48 ELSE c - 87
JsonChar(e, i) ==
  IF e[i] # 92 THEN <<e[i]>>
  ELSE CASE e[i + 1] = 117 -> Utf8(HexValue(e[i + 3]) * 256 + HexValue(e[i + 4]) * 16
                                   + HexValue(e[i + 5]))
         [] e[i + 1] = 98  -> <<8>>
         [] e[i + 1] = 102 -> <<12>>
         [] e[i + 1] = 110 -> <<10>>
         [] e[i + 1] = 114 -> <<13>>
         [] e[i + 1] = 116 -> <<9>>
         [] OTHER -> <<e[i + 1]>>
JsonWidth(e, i) == IF e[i] # 92 THEN 1 ELSE IF e[i + 1] = 117 THEN 6 ELSE 2
JsonText(e) ==
  LET U[i \in Nat] ==
        IF i > Len(e) THEN <<>> ELSE JsonChar(e, i) \o U[i + JsonWidth(e, i)]
  IN U[1]

\* The text of a message whose first n bytes are taken: of a character that does
\* not fit, at most the backslash.
RefContent(e, n) ==
  LET U[i \in Nat] ==
        IF i > Len(e) \/ i > n THEN <<>>
        ELSE IF i + JsonWidth(e, i) - 1 > n THEN <<92>>
        ELSE JsonChar(e, i) \o U[i + JsonWidth(e, i)]
  IN U[1]

\* The code points that the code does not decode: \uXXXX, \b and \f.
Undecoded(e) ==
  \E i \in 1..(Len(e) - 1) :
    /\ e[i] = 92 /\ e[i + 1] \in {98, 102, 117}
    /\ Cardinality({k \in 1..i : \A j \in k..i : e[j] = 92}) % 2 = 1

\* A request as clients make them: the user's message last and the system's
\* first; no other content that ends with "system" in quotes.
WellOrdered(ms) ==
  /\ ms # <<>> /\ ms[Len(ms)].role = "user"
  /\ \A i \in DOMAIN ms : ms[i].role = "system" => i = 1
  /\ ms[1].role # "system" => ~Finds(ms, 1, 40, "system")
RefSystem(ms) == IF ms[1].role = "system" THEN RefContent(ms[1].content, SYS_MAX) ELSE <<>>

\* What the encoder may keep of a text: everything, unless a run of bytes of one
\* class fills bpe_encode_chunk's buffer or the text the symbols' (then bytes are
\* dropped).  SentencePiece needs whole characters.
ShortRuns(s) ==
  \A i \in 1..(Len(s) - CHUNK_MAX + 1) : \E j \in i..(i + CHUNK_MAX - 1) :
    char_category(s[j]) # char_category(s[i])
Without(s, D) ==
  LET W[i \in 0..Len(s)] ==
        IF i = 0 THEN <<>> ELSE IF i \in D THEN W[i - 1] ELSE Append(W[i - 1], s[i])
  IN W[Len(s)]
KeptText(s) ==
  IF (client.spm /\ client.scores) \/ (ShortRuns(s) /\ Len(s) <= SYMBOLS_MAX)
  THEN {s} ELSE {Without(s, D) : D \in SUBSET DOMAIN s}
Encodable(s) == client.spm /\ client.scores => utf8_valid(s)

(* The tokens of a prompt decode to the text that the comments of the      *)
(* templates lay out, with the last message of the user and the system's   *)
(* message of a well-ordered request, read as JSON, or with the line typed *)
(* in the chat: extraction, template, chunks, merges, fallback bytes and   *)
(* the two alphabets together lose and add nothing.  At the limits only    *)
(* the end is missing, of a message or of the prompt, or bytes in a text   *)
(* that overfills the encoder's buffers, and the template stays whole.     *)
PromptFaithful ==
  phase = "layout" /\ todo = <<>> =>
    LET server == client.program = "server"
        user == IF server THEN RefContent(given[Len(given)].content, USER_MAX) ELSE given
        sys == IF server THEN RefSystem(given) ELSE SystemPrompt
        later(u) == ImEnd \o (IF client.kind = "llama3" THEN <<>> ELSE <<10>>) \o RefRound(u)
        layouts == UNION {{RefPrompt(u, s)} \cup (IF server THEN {} ELSE {later(u)}) :
                            u \in KeptText(user), s \in KeptText(sys)}
        laid == FlattenSeq([i \in DOMAIN tokens |-> Decode(tokens[i])])
        asked == /\ Encodable(user) /\ Encodable(sys)
                 /\ server => /\ WellOrdered(given)
                              /\ \A i \in {1, Len(given)} : ~Undecoded(given[i].content)
    IN asked =>
       IF Len(tokens) + Max({1, Len(ThinkBlock)}) <= MAX_PROMPT THEN laid \in layouts
          ELSE \E whole \in layouts : IsPrefix(laid, whole)

(* server.c's comment "Check if this content belongs to a system-role      *)
(* message" (line 183): only the content of a system-role message is taken *)
(* for the system's.  The search runs to the end of the body, though.      *)
SystemFromItsRole ==
  phase = "layout" /\ client.program = "server" =>
    (SysMsg(given) # <<>> => given[1].role = "system")

(* json_unescape's comment "unescaping JSON escape sequences" (http.c:99), *)
(* \uXXXX aside, for which it says "simplify": the user's message that     *)
(* fits its buffer is what a JSON reader reads.                            *)
EscapesDecoded ==
  phase = "layout" /\ client.program = "server" =>
    \A m \in Range(given) :
      (\A i \in 1..(Len(m.content) - 1) : m.content[i] = 92 => m.content[i + 1] # 117)
        => json_unescape(m.content) = JsonText(m.content)

\* Every merge rule applied to the whole text in turn, from left to right.
RankPass(s, r) ==
  LET P[i \in Nat] ==
        IF i > Len(s) THEN <<>>
        ELSE IF i < Len(s) /\ <<s[i], s[i + 1]>> = Merges[r]
             THEN <<s[i] \o s[i + 1]>> \o P[i + 2] ELSE <<s[i]>> \o P[i + 1]
  IN P[1]
ByRank(s) ==
  LET B[r \in 0..Len(Merges)] == IF r = 0 THEN s ELSE RankPass(B[r - 1], r) IN B[Len(Merges)]

(* bpe_encode_chunk's search for the best pair finds the segmentation that *)
(* defines BPE: each merge rule applied in the order it was learned.       *)
MergesByRank ==
  phase = "bpe" /\ pos = 0 =>
    LET s == [i \in DOMAIN text |-> ByteKey(text[i])] IN MergeAll(s) = ByRank(s)

\* Well-formed UTF-8 by the table of the Unicode standard: how many bytes follow
\* a first byte, and which may come second.
Follow(c) ==
  CASE c \in 194..223 -> 1
    [] c \in 224..239 -> 2
    [] c \in 240..244 -> 3
    [] OTHER          -> 0
Second(c) ==
  CASE c = 224 -> 160..191
    [] c = 237 -> 128..159
    [] c = 240 -> 144..191
    [] c = 244 -> 128..143
    [] OTHER   -> 128..191
CharFormed(s, i) ==
  /\ s[i] < 128 \/ Follow(s[i]) > 0
  /\ i + Follow(s[i]) <= Len(s)
  /\ \A j \in 1..Follow(s[i]) : s[i + j] \in IF j = 1 THEN Second(s[i]) ELSE 128..191
WellFormed(s) ==
  LET W[i \in Nat] ==
        i > Len(s) \/ (CharFormed(s, i) /\ W[i + Follow(s[i]) + 1])
  IN W[1]

(* The chat goes on with a line if and only if it is well-formed UTF-8.    *)
OnlyValidLines ==
  client.program = "chat" /\ given # <<>> => (phase = "skipped" <=> ~WellFormed(given))

Received == FlattenSeq([i \in DOMAIN events |-> JsonText(events[i])])

(* What a client receives, with what is held back, is exactly the text of  *)
(* the tokens generated; at the end nothing is held back.  No event splits *)
(* a character of a valid text and none holds a raw control byte.          *)
StreamExact ==
  /\ stream => Received \o pending = decoded /\ Len(pending) <= 3
  /\ phase = "done" /\ ~stream /\ Len(decoded) <= RESP_MAX
       /\ Len(json_escape_str(decoded)) + 6 < ESCAPED_MAX
       /\ Len(json_escape_str(decoded)) + WRAPPER <= BODY_MAX => Received = decoded
  /\ \A i \in DOMAIN events : \A k \in DOMAIN events[i] : events[i][k] >= 32
  /\ phase = "done" /\ stream /\ utf8_valid(decoded) =>
       \A i \in DOMAIN events : utf8_valid(JsonText(events[i]))

(* server.c's comment "Reserve 256 bytes for the JSON wrapper so the final  *)
(* snprintf can't overflow json_buf" (lines 337-338): the response fits    *)
(* json_buf, so its reader gets a content.                                 *)
ReserveEnough == phase = "done" => stream \/ events # <<>>

\* Of the weights w, how many tokens the filters leave: top-k, min-p, then top-p.
Largest(w, n) == {S \in SUBSET DOMAIN w : /\ Cardinality(S) = n
                                          /\ \A t \in S, u \in DOMAIN w \ S : w[t] >= w[u]}
WeightOf(w, S) ==
  LET W[t \in 0..Len(w)] == IF t = 0 THEN 0 ELSE W[t - 1] + (IF t \in S THEN w[t] ELSE 0)
  IN W[Len(w)]
RefCutoff(p, w) ==
  LET n == Len(w)
      top == Max({w[t] : t \in DOMAIN w})
      topk == IF p.top_k > 0 THEN Min({p.top_k, n}) ELSE n
      minp == Cardinality({t \in DOMAIN w : w[t] * 100 >= p.min_p * top})
      topp == Min({n} \cup {k \in 1..n : \A S \in Largest(w, k) :
                     WeightOf(w, S) * 100 >= p.top_p * WeightOf(w, DOMAIN w)})
  IN Min({topk, minp, topp})

(* The token drawn is one that top-k, min-p and top-p leave when they are  *)
(* applied to the sorted vocabulary, and no token they leave is lost by    *)
(* the bounded heap or the growing cap; without filters it is the best.    *)
SampledAllowed ==
  phase = "emit" =>
    LET l == Penalised(draw.logits, draw.p, draw.history)
        w == [t \in DOMAIN l |-> Weight(l[t])]
        greedy == draw.p.temperature = 0 \/
                  (draw.p.top_k = 0 /\ draw.p.top_p >= 100 /\ draw.p.min_p = 0)
        n == IF greedy THEN 1 ELSE RefCutoff(draw.p, w)
    IN /\ Cardinality({u \in DOMAIN w : w[u] > w[next]}) < n
       /\ Cardinality(sample_token(draw.logits, draw.p, draw.history)) = n
=============================================================================
