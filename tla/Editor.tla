------------------------------- MODULE Editor -------------------------------
(***************************************************************************)
(* The line editor of the chat program (src/src/linenoise.c as chat.c uses *)
(* it: one line, coloured input, no completion, hints or mask).  A line is *)
(* a sequence of code points, of which only the kind matters; positions    *)
(* count code points, capacities bytes.  A pasted text of several lines or *)
(* of some length is kept in the line and shown as a marker, its fold.     *)
(* Lines that were entered are browsed as history, whose last entry is the *)
(* line being edited.                                                      *)
(***************************************************************************)
EXTENDS Integers, Sequences, SequencesExt

CONSTANTS
    Typed,          \* the kinds of code points that keys send
    Pastes,         \* the texts that may be pasted
    MaxLine,        \* LINENOISE_MAX_LINE, in bytes
    MaxFolds,       \* LINENOISE_MAX_FOLDS
    FoldThreshold,  \* PASTE_FOLD_THRESHOLD, in bytes
    FoldContext,    \* PASTE_FOLD_CONTEXT, in characters
    SwapBytes,      \* the size of Ctrl-T's temporary
    MaxHistory,     \* history_max_len
    Marker,         \* width of what is shown for a fold
    PromptWidth, Cols,
    MaxKeys         \* how many keys are pressed

\* utf8ByteLen and utf8CharWidth.  A mark stands for everything that extends the
\* character before it, a flag for a regional indicator, a null for a control
\* character.  Some kinds matter in an escape sequence only: "[", the digits and
\* what else may be a parameter, the space; a char is a letter, which may end it.
ByteLen == [char |-> 1, space |-> 1, digit |-> 1, bracket |-> 1, newline |-> 1, cr |-> 1,
            null |-> 1, esc |-> 1, mark |-> 2, wide |-> 3, zwj |-> 3, flag |-> 4]
CharWidth == [char |-> 1, space |-> 1, digit |-> 1, bracket |-> 1, newline |-> 0, cr |-> 0,
              null |-> 0, esc |-> 0, mark |-> 0, wide |-> 2, zwj |-> 0, flag |-> 2]
Kinds == DOMAIN ByteLen
Extends == {"mark", "zwj"}

ASSUME EditorAssumption ==
    /\ Typed \subseteq Kinds \ {"cr", "esc"} /\ Pastes \subseteq Seq(Kinds)
    /\ {MaxLine, MaxFolds, FoldThreshold, FoldContext, SwapBytes, Marker, MaxKeys} \subseteq Nat \ {0}
    /\ MaxHistory \in Nat \ {0, 1}
    /\ PromptWidth \in Nat /\ Cols \in Nat /\ PromptWidth < Cols

VARIABLES
    pc,             \* "call", "edit", "chat" or "ended"
    mode,           \* what standard input is: a tty, a dumb terminal or a pipe
    buf, pos,       \* l->buf, l->pos
    folds,          \* l->fold_start and l->fold_end, and as a history variable the
                    \* text that was folded
    history, history_index,
    result,         \* what linenoise returns
    keys,           \* how many keys were pressed
    added,          \* history: the lines the chat has added, without repetitions
    edited,         \* history: an older entry was overwritten while browsing
    odd             \* history: a newline was typed, or the line has had a code point
                    \* that joins its neighbours

lineVars == <<buf, pos, folds>>
historyVars == <<history, history_index, added, edited>>
vars == <<pc, mode, lineVars, historyVars, result, keys, odd>>

-----------------------------------------------------------------------------
(* Characters and their widths.                                            *)

Bytes(s) == FoldLeft(LAMBDA n, c : n + ByteLen[c], 0, s)

\* What strdup copies.
CString(s) == IF Contains(s, "null") THEN SubSeq(s, 1, SelectInSeq(s, LAMBDA c : c = "null") - 1)
              ELSE s

\* utf8PrevCharLen: where the cluster begins that has its last base at p.
RECURSIVE ClusterStart(_, _)
ClusterStart(s, p) ==
    IF p = 1 THEN 1
    ELSE IF s[p - 1] = "zwj" THEN (IF p = 2 THEN 1 ELSE ClusterStart(s, p - 2))
    ELSE IF s[p] \in Extends THEN ClusterStart(s, p - 1)
    ELSE IF s[p] = "flag" /\ s[p - 1] = "flag" THEN p - 1
    ELSE p

\* utf8NextCharLen: where the cluster ends that reaches to p.
RECURSIVE ClusterEnd(_, _, _)
ClusterEnd(s, p, unpaired) ==
    IF p = Len(s) THEN p
    ELSE IF s[p + 1] = "zwj" /\ p + 1 < Len(s) THEN ClusterEnd(s, p + 2, unpaired)
    ELSE IF s[p + 1] \in Extends THEN ClusterEnd(s, p + 1, unpaired)
    ELSE IF unpaired /\ s[p + 1] = "flag" THEN ClusterEnd(s, p + 1, FALSE)
    ELSE p

PrevCharLen(s, p) == IF p = 0 THEN 0 ELSE p + 1 - ClusterStart(s, p)
NextCharLen(s, p) == IF p >= Len(s) THEN 0 ELSE ClusterEnd(s, p + 1, s[p + 1] = "flag") - p

\* ansiEscapeLen: where the control sequence ends that begins at i, if one does:
\* ESC, "[", parameters, intermediate bytes and a final one.
EscapeEnds(s, i) ==
    {e \in i + 2 .. Len(s) :
        /\ s[i] = "esc" /\ s[i + 1] = "bracket" /\ s[e] \in {"char", "bracket"}
        /\ \E m \in i + 2 .. e : /\ \A j \in i + 2 .. m - 1 : s[j] = "digit"
                                 /\ \A j \in m .. e - 1 : s[j] = "space"}

RECURSIVE Unescaped(_)
Unescaped(s) ==
    LET i == SelectInSeq(s, LAMBDA c : c = "esc")
        E == EscapeEnds(s, i)
    IN  IF i = 0 THEN s
        ELSE IF E = {} THEN SubSeq(s, 1, i) \o Unescaped(SubSeq(s, i + 1, Len(s)))
        ELSE SubSeq(s, 1, i - 1) \o Unescaped(SubSeq(s, Max(E) + 1, Len(s)))

\* utf8StrWidth: control sequences are skipped, and what follows a joiner, at once
\* or behind such a sequence, has no width.
StrWidth(s) ==
    LET t == Unescaped(s)
    IN  FoldLeft(LAMBDA w, i : w + (IF i > 1 /\ t[i - 1] = "zwj" THEN 0 ELSE CharWidth[t[i]]),
                 0, [i \in DOMAIN t |-> i])

-----------------------------------------------------------------------------
(* Folds.                                                                  *)

ShouldFold(s) == Contains(s, "newline") \/ Bytes(s) >= FoldThreshold

\* linenoiseGetRenderFolds.
RenderFolds == SelectSeq(folds, LAMBDA f : f.start < f.end /\ f.end <= Len(buf))

\* linenoiseEditPrevLen and linenoiseEditNextLen: a fold is one step.
EditPrevLen(p) ==
    LET F == {f \in ToSet(RenderFolds) : f.end = p}
    IN  IF F = {} THEN PrevCharLen(buf, p)
        ELSE LET f == CHOOSE g \in F : TRUE IN f.end - f.start
EditNextLen(p) ==
    LET F == {f \in ToSet(RenderFolds) : f.start = p}
    IN  IF F = {} THEN NextCharLen(buf, p)
        ELSE LET f == CHOOSE g \in F : TRUE IN f.end - f.start

\* linenoiseFoldAdd: sorted by start.
FoldAdd(fs, s, start, end) ==
    IF start >= end \/ Len(fs) = MaxFolds THEN fs
    ELSE LET f == [start |-> start, end |-> end, text |-> SubSeq(s, start + 1, end)]
             k == Cardinality({i \in DOMAIN fs : fs[i].start <= start})
         IN  SubSeq(fs, 1, k) \o <<f>> \o SubSeq(fs, k + 1, Len(fs))

Shift(f, n) == [f EXCEPT !.start = @ + n, !.end = @ + n]

FoldsAfterInsert(p, n) ==
    FlattenSeq([i \in DOMAIN folds |->
        IF p <= folds[i].start THEN <<Shift(folds[i], n)>>
        ELSE IF p < folds[i].end THEN <<>> ELSE <<folds[i]>>])

\* Mutant of FoldsAfterDelete: a fold that ends where the deletion does is kept.
FoldsAfterDeleteAtEnd(p, n) ==
    FlattenSeq([i \in DOMAIN folds |->
        IF p + n <= folds[i].end THEN <<Shift(folds[i], -n)>>
        ELSE IF p >= folds[i].end THEN <<folds[i]>> ELSE <<>>])
FoldsAfterDelete(p, n) ==
    FlattenSeq([i \in DOMAIN folds |->
        IF p + n <= folds[i].start THEN <<Shift(folds[i], -n)>>
        ELSE IF p >= folds[i].end THEN <<folds[i]>> ELSE <<>>])

OverlapsFold(p, n) == \E f \in ToSet(folds) : p + n > f.start /\ p < f.end

\* linenoiseBuildHistoryFold: all but some characters at both ends, unless a line
\* ends among them.  Bounds are the positions passed in k steps from p.
RECURSIVE RightBounds(_, _, _), LeftBounds(_, _, _)
RightBounds(s, p, k) ==
    <<p>> \o (IF k = 0 \/ p = Len(s) THEN <<>> ELSE RightBounds(s, p + NextCharLen(s, p), k - 1))
LeftBounds(s, p, k) ==
    <<p>> \o (IF k = 0 \/ p = 0 THEN <<>> ELSE LeftBounds(s, p - PrevCharLen(s, p), k - 1))

NewlineAt(s, bounds) == \E p \in ToSet(bounds) : s[p + 1] = "newline"
HistoryFold(s) ==
    LET right == RightBounds(s, 0, FoldContext)
        left == LeftBounds(s, Len(s), FoldContext)
        start == IF NewlineAt(s, Front(right)) THEN 0 ELSE Last(right)
        end == IF NewlineAt(s, Tail(left)) THEN Len(s) ELSE Last(left)
    IN  IF s = <<>> \/ ~ShouldFold(s) THEN <<>>
        ELSE IF Bytes(s) <= 2 * FoldContext \/ start >= end THEN FoldAdd(<<>>, s, 0, Len(s))
        ELSE FoldAdd(<<>>, s, start, end)

-----------------------------------------------------------------------------
(* What is on the screen after refreshSingleLine.                          *)

\* linenoiseRenderBuffer.  A marker is "[... 3 pasted lines ...]": behind ESC it
\* begins no control sequence, and behind ESC "[" its first character ends one, as
\* a letter does.
Rendered ==
    LET fs == RenderFolds
        from(i) == IF i = 1 THEN 0 ELSE fs[i - 1].end
    IN  FlattenSeq([i \in DOMAIN fs |->
            SubSeq(buf, from(i) + 1, fs[i].start) \o [k \in 1..Marker |-> "char"]])
        \o SubSeq(buf, from(Len(fs) + 1) + 1, Len(buf))

\* The cursor in it: inside of a fold it is shown behind the marker.
RenderedPos ==
    LET inside == {f \in ToSet(RenderFolds) : f.start < pos /\ pos < f.end}
        p == IF inside = {} THEN pos ELSE (CHOOSE f \in inside : TRUE).end
    IN  FoldLeft(LAMBDA n, f : IF f.end <= p THEN n - (f.end - f.start) + Marker ELSE n,
                 p, RenderFolds)

\* Mutant of TooFar: the cursor may be behind the last column.
TooFarByOne(column) == column < 0 \/ column > Cols
\* The test of the loop that scrolls, with the wrap-around of size_t.
TooFar(column) == column < 0 \/ column >= Cols

Hung == [text |-> <<>>, at |-> -1, col |-> -1, width |-> -1]

\* The two loops trim clusters, from the left until the cursor fits and from the
\* right until the text does.
RECURSIVE ScrollLeft(_), TrimRight(_)
ScrollLeft(w) ==
    LET n == NextCharLen(w.text, 0)
        cw == CharWidth[w.text[1]]
    IN  IF ~TooFar(PromptWidth + w.col) THEN w
        ELSE IF n = 0 THEN Hung
        ELSE ScrollLeft([text |-> SubSeq(w.text, n + 1, Len(w.text)), at |-> w.at - n,
                         col |-> w.col - cw, width |-> w.width - cw])
TrimRight(w) ==
    LET n == PrevCharLen(w.text, Len(w.text))
        cw == CharWidth[w.text[Len(w.text) + 1 - n]]
    IN  IF w = Hung \/ (PromptWidth + w.width \in 0..Cols) THEN w
        ELSE IF n = 0 THEN Hung
        ELSE TrimRight([w EXCEPT !.text = SubSeq(@, 1, Len(@) - n), !.width = @ - cw])

Screen ==
    TrimRight(ScrollLeft([text |-> Rendered, at |-> RenderedPos,
                          col |-> StrWidth(SubSeq(Rendered, 1, RenderedPos)),
                          width |-> StrWidth(Rendered)]))

-----------------------------------------------------------------------------
(* History.                                                                *)

HistoryAdd(h, s) ==
    IF h # <<>> /\ Last(h) = s THEN h
    ELSE Append(IF Len(h) = MaxHistory THEN Tail(h) ELSE h, s)

Init ==
    /\ pc = "call" /\ mode \in {"tty", "dumb", "pipe"}
    /\ buf = <<>> /\ pos = 0 /\ folds = <<>>
    /\ history = <<>> /\ history_index = 0
    /\ result = <<>> /\ keys = 0 /\ added = <<>> /\ edited = FALSE /\ odd = FALSE

\* linenoiseEditStart; the terminal may refuse raw mode, or the prompt.
EditStart ==
    /\ pc = "call" /\ mode = "tty"
    /\ buf' = <<>> /\ pos' = 0 /\ folds' = <<>> /\ odd' = FALSE
    /\ \/ /\ history' = HistoryAdd(history, <<>>) /\ history_index' = 0
          /\ pc' \in {"edit", "ended"}
       \/ pc' = "ended" /\ UNCHANGED <<history, history_index>>
    /\ UNCHANGED <<mode, result, keys, added, edited>>

\* linenoiseNoTTY: lines are read as they are; a dumb terminal's returns are cut.
RECURSIVE CutAtEnd(_, _)
CutAtEnd(s, C) == IF s # <<>> /\ Last(s) \in C THEN CutAtEnd(Front(s), C) ELSE s

ReadPlain ==
    /\ pc = "call" /\ mode # "tty" /\ keys < MaxKeys
    /\ keys' = keys + 1
    /\ \/ pc' = "ended" /\ result' = result
       \/ \E s \in {SelectSeq(p, LAMBDA c : c # "newline") : p \in Pastes} :
            /\ pc' = "chat"
            /\ result' = IF mode = "dumb" THEN CutAtEnd(CString(s), {"cr"}) ELSE CString(s)
    /\ UNCHANGED <<mode, lineVars, historyVars, odd>>

\* The chat's turn: blanks at the end are cut, the line is added, and the next one
\* asked for, unless it was a command to leave.
ChatTurn ==
    /\ pc = "chat"
    /\ LET s == CutAtEnd(result, {"space", "newline", "cr"})
       IN  /\ history' = IF s = <<>> THEN history ELSE HistoryAdd(history, s)
           /\ added' = IF s = <<>> \/ (added # <<>> /\ Last(added) = s) THEN added
                       ELSE Append(added, s)
    /\ pc' \in {"call", "ended"} /\ result' = <<>>
    /\ UNCHANGED <<mode, lineVars, history_index, keys, edited, odd>>

-----------------------------------------------------------------------------
(* linenoiseEditFeed, one action for every key.                            *)

Key == pc = "edit" /\ keys < MaxKeys /\ keys' = keys + 1 /\ UNCHANGED <<mode, added>>

\* A key that only changes the line.
Edits(b, p, fs) ==
    /\ buf' = b /\ pos' = p /\ folds' = fs
    /\ UNCHANGED <<pc, history, history_index, edited, result>>
EditKey == Key /\ UNCHANGED odd
NoEdit == UNCHANGED <<lineVars, pc, history, history_index, edited, result>>

Joining(s) == ToSet(s) \cap (Extends \cup {"flag"}) # {}

\* linenoiseEditInsertNoRefresh, with the room that linenoiseEditGrow finds.
Inserted(s) == SubSeq(buf, 1, pos) \o s \o SubSeq(buf, pos + 1, Len(buf))
Room(s) == Bytes(buf) + Bytes(s) <= MaxLine

Type ==
    /\ Key
    /\ \E c \in Typed :
         IF Room(<<c>>)
         THEN /\ Edits(Inserted(<<c>>), pos + 1, FoldsAfterInsert(pos, 1))
              /\ odd' = (odd \/ c = "newline" \/ Joining(<<c>>))
         ELSE NoEdit /\ UNCHANGED odd

\* Pasted returns become newlines.
Normalised(s) ==
    FlattenSeq([i \in DOMAIN s |->
        IF s[i] = "cr" THEN <<"newline">>
        ELSE IF s[i] = "newline" /\ i > 1 /\ s[i - 1] = "cr" THEN <<>> ELSE <<s[i]>>])

\* linenoiseEditPaste: dropped when it does not fit as it comes, or when there is
\* no fold left for it.
Paste ==
    /\ Key
    /\ \E raw \in Pastes :
         LET s == Normalised(raw)
             fs == FoldsAfterInsert(pos, Len(s))
         IN  IF Room(raw) /\ Len(folds) < MaxFolds
             THEN /\ Edits(Inserted(s), pos + Len(s),
                           IF ShouldFold(s) THEN FoldAdd(fs, Inserted(s), pos, pos + Len(s)) ELSE fs)
                  /\ odd' = (odd \/ Joining(s))
             ELSE NoEdit /\ UNCHANGED odd

Left == EditKey /\ pos > 0 /\ Edits(buf, pos - EditPrevLen(pos), folds)
Right == EditKey /\ pos < Len(buf) /\ Edits(buf, pos + EditNextLen(pos), folds)
Home == EditKey /\ pos > 0 /\ Edits(buf, 0, folds)
End == EditKey /\ pos < Len(buf) /\ Edits(buf, Len(buf), folds)

\* n code points at p are deleted and the cursor is left there.
Removed(p, n) ==
    Edits(SubSeq(buf, 1, p) \o SubSeq(buf, p + n + 1, Len(buf)), p, FoldsAfterDelete(p, n))

Delete == EditKey /\ pos < Len(buf) /\ Removed(pos, EditNextLen(pos))
Backspace == EditKey /\ pos > 0 /\ Removed(pos - EditPrevLen(pos), EditPrevLen(pos))
KillLine == EditKey /\ Edits(<<>>, 0, <<>>)
KillToEnd == EditKey /\ Removed(pos, Len(buf) - pos)

\* linenoiseEditDeletePrevWord: blanks, then the rest of a word.
RECURSIVE SkipBack(_, _)
SkipBack(p, blank) ==
    IF p > 0 /\ (buf[p] = "space") = blank THEN SkipBack(p - EditPrevLen(p), blank) ELSE p

DeletePrevWord ==
    LET p == SkipBack(SkipBack(pos, TRUE), FALSE)
    IN  EditKey /\ Removed(p, pos - p)

\* Ctrl-T: the characters around the cursor are swapped, unless one is hidden.
Swap ==
    LET n == EditPrevLen(pos)
        m == EditNextLen(pos)
        prev == SubSeq(buf, pos - n + 1, pos)
        curr == SubSeq(buf, pos + 1, pos + m)
    IN  /\ EditKey /\ pos > 0 /\ pos < Len(buf)
        /\ IF Bytes(prev) > SwapBytes \/ Bytes(curr) > SwapBytes \/ OverlapsFold(pos - n, n + m)
           THEN NoEdit
           ELSE Edits(SubSeq(buf, 1, pos - n) \o curr \o prev \o SubSeq(buf, pos + m + 1, Len(buf)),
                      pos + m, folds)

\* linenoiseEditHistoryNext: the line is stored where it came from, and the next
\* entry in the direction is shown, if there is one.
Browse(dir) ==
    /\ Key /\ Len(history) > 1
    /\ LET slot == Len(history) - history_index
           saved == [history EXCEPT ![slot] = CString(buf)]
           to == history_index + dir
           s == saved[Len(history) - to]
       IN  /\ history' = saved
           /\ edited' = (edited \/ (history_index > 0 /\ saved # history))
           /\ IF to \in 0..Len(history) - 1
              THEN /\ history_index' = to
                   /\ buf' = s /\ pos' = Len(s) /\ folds' = HistoryFold(s)
                   /\ odd' = Joining(s)
              ELSE UNCHANGED <<history_index, lineVars, odd>>
    /\ UNCHANGED <<pc, result>>

\* The entry of the line being edited is taken off the history.
Popped == Front(history)

\* Mutant of Enter: the line's own entry stays in the history.
EnterKeeps ==
    /\ Key /\ pc' = "chat"
    /\ result' = CString(buf)
    /\ UNCHANGED <<history, lineVars, history_index, edited, odd>>
Enter ==
    /\ Key /\ pc' = "chat"
    /\ history' = Popped /\ result' = CString(buf)
    /\ UNCHANGED <<lineVars, history_index, edited, odd>>

\* Ctrl-D on an empty line.
EndOfFile ==
    /\ Key /\ buf = <<>> /\ pc' = "ended"
    /\ history' = Popped
    /\ UNCHANGED <<lineVars, history_index, edited, result, odd>>

\* Ctrl-C, or nothing more to read.
Abandon ==
    /\ Key /\ pc' = "ended"
    /\ UNCHANGED <<lineVars, history, history_index, edited, result, odd>>

Done == (pc = "ended" \/ keys = MaxKeys) /\ UNCHANGED vars

EditFeed ==
    \/ Type \/ Paste \/ Left \/ Right \/ Home \/ End \/ Delete \/ Backspace \/ KillLine
    \/ KillToEnd \/ DeletePrevWord \/ Swap \/ Browse(1) \/ Browse(-1)
    \/ Enter \/ EndOfFile \/ Abandon

Next == EditStart \/ ReadPlain \/ ChatTurn \/ EditFeed \/ Done

Spec == Init /\ [][Next]_vars

-----------------------------------------------------------------------------
\* "The edited buffer always keeps the real bytes": whatever is typed, pasted,
\* deleted and swapped around them, folds are in order and apart, inside the
\* line, and each still stands for the text it was made for; the line fits its
\* buffer and the cursor the line.
FoldsSound ==
    /\ Bytes(buf) <= MaxLine /\ pos \in 0..Len(buf)
    /\ Len(folds) <= MaxFolds
    /\ \A i \in DOMAIN folds :
         /\ 0 <= folds[i].start /\ folds[i].start < folds[i].end /\ folds[i].end <= Len(buf)
         /\ SubSeq(buf, folds[i].start + 1, folds[i].end) = folds[i].text
         /\ i > 1 => folds[i - 1].end <= folds[i].start

\* refreshSingleLine ends, and the cursor is on the screen at the column of the
\* character it is at, in lines without flags, joiners and escapes, whose clusters
\* are as wide as their first code point (RefreshEnds shows the others); and no
\* newline is printed, in lines that never had a typed one or a code point that
\* joins its neighbours (NewlinesHidden shows these).
CursorShown ==
    pc = "edit" =>
       /\ ToSet(Rendered) \cap {"flag", "zwj", "esc"} = {} =>
            /\ Screen # Hung
            /\ PromptWidth + Screen.col < Cols /\ PromptWidth + StrWidth(Screen.text) <= Cols
            /\ Screen.at <= Len(Screen.text)
            /\ Screen.col = StrWidth(SubSeq(Screen.text, 1, Screen.at))
       /\ ~odd => ~Contains(Rendered, "newline")

\* "We need to trim full UTF-8 characters from the left until the cursor position
\* fits within the terminal width": the refresh ends, whatever is in the line.  It
\* does not: flags are counted one by one and trimmed in pairs, so the text is used
\* up before the cursor fits, and the loop goes on.
RefreshEnds == pc = "edit" => Screen # Hung

\* "so raw pasted newlines are never printed directly", where no newline is typed.
\* They are: a mark behind a fold joins the fold's last character, and what deletes
\* the two, or types between them, takes the fold off the rest of the text.
NewlinesHidden == pc = "edit" => ~Contains(Rendered, "newline")

\* While a line is edited the history has an entry for it, the entry shown exists,
\* and the others are, as long as none was changed, the latest lines that were
\* entered, without gaps: repetitions, empty lines and a full history included.
HistoryFaithful ==
    LET entries == IF pc = "edit" THEN Popped ELSE history
    IN  /\ Len(history) <= MaxHistory
        /\ pc = "edit" => history_index \in 0..Len(history) - 1
        /\ pc # "ended" /\ ~edited =>
             /\ IsSuffix(entries, added)
             /\ Len(entries) >= MaxHistory - 1 \/ entries = added
=============================================================================
