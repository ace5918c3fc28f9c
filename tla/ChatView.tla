------------------------------ MODULE ChatView ------------------------------
(* The transcript as the chat screen draws it: messages laid out as lines, *)
(* wrapped into rows, scrolled, clicked, collapsed; and the task panel.    *)
(*                                                                         *)
(* A message is its kind and the lengths of its lines of text. The event   *)
(* loop draws after every event it handles, so the measurements of the     *)
(* last frame are those of the current state.                              *)
EXTENDS Integers, Sequences, SequencesExt, FiniteSetsExt, Functions

CONSTANTS
    Sizes,              \* the lengths a message's lines may have
    HeaderCols,         \* columns of a card's or a message's header
    WindowWidths,       \* bounds: columns and rows of the transcript
    WindowHeights,
    DOCK_MIN_WIDTH,     \* from here on the task panel is a sidebar
    MaxMessages         \* bound: messages in the transcript

VARIABLES
    messages, developer,    \* the transcript; raw calls are shown
    scroll, follow_bottom,
    window,                 \* the drawn size
    working,                \* the busy hint is drawn as a last line
    has_tasks, show_tasks, tasks_explicit

panelVars == <<has_tasks, show_tasks, tasks_explicit>>
scrollVars == <<scroll, follow_bottom>>
viewVars == <<messages, developer, scrollVars, window, working, panelVars>>

-----------------------------------------------------------------------------
(* Layout. *)

Larger(a, b) == IF a > b THEN a ELSE b

\* What Paragraph with Wrap does to a line, as far as rows are concerned.
RowsOf(len, width) == Larger(1, (len + width - 1) \div width)

\* The three cards a tool call may show; errors and diffs are never folded.
Cards == {"running", "error", "diff", "output"}
RawCall == IF developer THEN <<HeaderCols, HeaderCols>> ELSE <<>>

\* The lengths of the lines of a user's card, framed by a rule above and
\* below; of a thinking block; and of a tool card.
UserCard(text, width) ==
    <<width, Larger(width, HeaderCols)>> \o
    [i \in DOMAIN text |-> Larger(width, text[i] + 2)] \o <<width>>

ThinkingLines(m) == <<HeaderCols>> \o (IF m.expanded THEN m.text ELSE <<>>)

ToolLines(m) ==
    LET folded == m.kind = "output" /\ ~m.expanded
    IN  <<HeaderCols>> \o (IF folded THEN <<>> ELSE RawCall) \o
        (IF folded \/ m.kind = "running" THEN <<>> ELSE m.text)

\* message_block: the lengths of a message's lines, unwrapped.
MessageBlock(m, width) ==
    CASE m.kind = "user" -> UserCard(m.text, width)
      [] m.kind = "thinking" -> ThinkingLines(m)
      [] m.kind \in Cards -> ToolLines(m)
      [] m.kind = "agent" /\ m.text = <<>> -> <<HeaderCols>>
      [] OTHER -> [m.text EXCEPT ![1] = @ + HeaderCols]

IsToggleable(m) == m.kind \in {"thinking", "output"}

\* lines: the blocks in order, with a blank line before each but the first.
LinesDrawn(ms) ==
    FlattenSeq([i \in DOMAIN ms |->
        LET block == MessageBlock(ms[i], window.width)
        IN  (IF i > 1 THEN <<[of |-> i, part |-> 0, len |-> 0]>> ELSE <<>>)
            \o [k \in DOMAIN block |-> [of |-> i, part |-> k, len |-> block[k]]]])

StatusLine == [of |-> 0, part |-> 0, len |-> HeaderCols]
WithStatus(drawn) ==
    IF ~working \/ messages = <<>> THEN drawn
    ELSE drawn \o <<[StatusLine EXCEPT !.len = 0], StatusLine>>

Wrapped(drawn, width) ==
    FlattenSeq([i \in DOMAIN drawn |-> [r \in 1 .. RowsOf(drawn[i].len, width) |-> drawn[i]]])

Rows(ms) == Wrapped(WithStatus(LinesDrawn(ms)), window.width)

\* effective_scroll: the first row of the window over rows drawn.
Top(drawn) ==
    LET max == Larger(0, Len(drawn) - window.height)
    IN  IF follow_bottom \/ scroll > max THEN max ELSE scroll
MaxScroll == Larger(0, Len(Rows(messages)) - window.height)
EffectiveScroll == Top(Rows(messages))

-----------------------------------------------------------------------------
(* wrap_text, which lays out the words of a user's card. A text is a       *)
(* sequence of letters, "sp" and "nl".                                     *)

SplitAt(text, blank) ==
    LET cuts == SelectSeq([i \in 1 .. Len(text) + 2 |-> i - 1],
                          LAMBDA i : i \in {0, Len(text) + 1} \/ text[i] = blank)
    IN  [k \in 1 .. Len(cuts) - 1 |-> SubSeq(text, cuts[k] + 1, cuts[k + 1] - 1)]
WordsOf(line) == SelectSeq(SplitAt(line, "sp"), LAMBDA w : w # <<>>)

Chunks(word, width) ==
    [k \in 1 .. RowsOf(Len(word), width) |->
        SubSeq(word, (k - 1) * width + 1, IF k * width < Len(word) THEN k * width ELSE Len(word))]

\* Fault: the blank before the word is not counted.
PlaceWordTight(filled, w, width) ==
    LET done == IF filled.row = <<>> THEN filled.out ELSE Append(filled.out, filled.row)
    IN  IF Len(w) > width THEN [out |-> done \o Chunks(w, width), row |-> <<>>]
        ELSE IF filled.row # <<>> /\ Len(filled.row) + Len(w) <= width
             THEN [filled EXCEPT !.row = @ \o <<"sp">> \o w]
        ELSE [out |-> done, row |-> w]

\* The next word joins the row being filled, opens another, or, longer than
\* a row, is broken over rows of its own.
PlaceWord(filled, w, width) ==
    LET done == IF filled.row = <<>> THEN filled.out ELSE Append(filled.out, filled.row)
    IN  IF Len(w) > width THEN [out |-> done \o Chunks(w, width), row |-> <<>>]
        ELSE IF filled.row # <<>> /\ Len(filled.row) + 1 + Len(w) <= width
             THEN [filled EXCEPT !.row = @ \o <<"sp">> \o w]
        ELSE [out |-> done, row |-> w]

WrapLine(words, width) ==
    LET filled[k \in 0 .. Len(words)] ==
            IF k = 0 THEN [out |-> <<>>, row |-> <<>>]
            ELSE PlaceWord(filled[k - 1], words[k], width)
        last == filled[Len(words)]
        rows == IF last.row = <<>> THEN last.out ELSE Append(last.out, last.row)
    IN  IF rows = <<>> THEN << <<>> >> ELSE rows

WrapText(text, width) ==
    LET paragraphs == SplitAt(text, "nl")
    IN  FlattenSeq([p \in DOMAIN paragraphs |-> WrapLine(WordsOf(paragraphs[p]), width)])

\* No row is wider than the card; the rows hold the words of the text in
\* order, whole but for the ones longer than a row; no word is brought down
\* to a row that would still fit the one above, but over a line break.
WrapSound(text, width) ==
    LET drawn == WrapText(text, width)
        broken(w) == IF Len(w) > width THEN Chunks(w, width) ELSE <<w>>
        words == WordsOf([i \in DOMAIN text |-> IF text[i] = "nl" THEN "sp" ELSE text[i]])
    IN  /\ \A i \in DOMAIN drawn : Len(drawn[i]) <= width
        /\ FlattenSeq([i \in DOMAIN drawn |-> WordsOf(drawn[i])])
             = FlattenSeq([i \in DOMAIN words |-> broken(words[i])])
        /\ ~Contains(text, "nl") =>
              \A i \in 1 .. Len(drawn) - 1 :
                 \/ Len(drawn[i]) + 1 + Len(WordsOf(drawn[i + 1])[1]) > width
                 \/ \E w \in ToSet(words) : Len(w) > width

-----------------------------------------------------------------------------
(* Clicks are resolved against rows measured block by block. *)

BlockRows(block, width) ==
    LET rows[k \in 0 .. Len(block)] == IF k = 0 THEN 0 ELSE rows[k - 1] + RowsOf(block[k], width)
    IN  rows[Len(block)]

\* Fault: the blank row between two messages is not counted.
StartRowUnspaced(width, i) ==
    LET start[k \in 1 .. i] ==
            IF k = 1 THEN 0 ELSE start[k - 1] + BlockRows(MessageBlock(messages[k - 1], width), width)
    IN  start[i]

\* The content row where message i starts: the rows of the blocks before it
\* and a blank one after each.
StartRow(width, i) ==
    LET start[k \in 1 .. i] ==
            IF k = 1 THEN 0 ELSE start[k - 1] + BlockRows(MessageBlock(messages[k - 1], width), width) + 1
    IN  start[i]

\* click_regions
ClickRegions(width) ==
    LET region(i) == [index |-> i, start |-> StartRow(width, i),
                      end |-> StartRow(width, i) + RowsOf(MessageBlock(messages[i], width)[1], width)]
    IN  {region(i) : i \in {i \in DOMAIN messages : IsToggleable(messages[i])}}

\* handle_transcript_click: the message hit by a click on each row of the
\* window, 0 for none.
Hits(top) ==
    LET regions == ClickRegions(window.width)
        hit(at) == {r.index : r \in {r \in regions : at >= r.start /\ at < r.end}}
    IN  [at \in top .. top + window.height - 1 |-> IF hit(at) = {} THEN 0 ELSE Min(hit(at))]

-----------------------------------------------------------------------------
(* The task panel: a sidebar in a wide terminal, else a popup over the     *)
(* chat that stays away until it has something to show or is asked for.    *)

TasksVisible ==
    show_tasks /\ (window.width >= DOCK_MIN_WIDTH \/ has_tasks \/ tasks_explicit)

\* toggle_tasks
ToggleTasks ==
    /\ show_tasks' = ~TasksVisible
    /\ tasks_explicit' = (tasks_explicit \/ show_tasks')

PressTasks ==
    /\ ToggleTasks
    /\ UNCHANGED <<messages, developer, scrollVars, window, working, has_tasks>>

-----------------------------------------------------------------------------
(* Steps. *)

ViewInit ==
    /\ messages = <<>> /\ developer = FALSE
    /\ scroll = 0 /\ follow_bottom = TRUE
    /\ window \in [width : WindowWidths, height : WindowHeights]
    /\ working = FALSE
    /\ has_tasks = FALSE /\ show_tasks = TRUE /\ tasks_explicit = FALSE

\* A message of the user brings the view back to the bottom.
PushUser ==
    /\ Len(messages) < MaxMessages
    /\ \E n \in Sizes : messages' = Append(messages, [kind |-> "user", text |-> <<n>>, expanded |-> FALSE])
    /\ follow_bottom' = TRUE
    /\ working' = TRUE
    /\ UNCHANGED <<developer, scroll, window, panelVars>>

\* A new message, thinking block or running card.
Opened ==
    /\ Len(messages) < MaxMessages
    /\ \E kind \in {"agent", "thinking", "running"} :
          messages' = Append(messages, [kind |-> kind, text |-> <<>>, expanded |-> FALSE])
    /\ UNCHANGED <<developer, scrollVars, window, working, panelVars>>

\* Text or reasoning streams in; a running card completes with its output.
Grown ==
    /\ \E i \in DOMAIN messages, n \in Sizes :
          LET m == messages[i]
          IN  \/ /\ i = Len(messages) /\ m.kind \in {"agent", "thinking"} /\ m.text = <<>>
                 /\ messages' = [messages EXCEPT ![i].text = <<n>>]
              \/ /\ m.kind = "running"
                 /\ \E kind \in Cards \ {"running"} :
                       messages' = [messages EXCEPT ![i].kind = kind, ![i].text = <<n>>]
    /\ UNCHANGED <<developer, scrollVars, window, working, panelVars>>

TurnEnds ==
    /\ working /\ working' = FALSE
    /\ UNCHANGED <<messages, developer, scrollVars, window, panelVars>>

\* clear_transcript
ClearView ==
    /\ ~working /\ messages # <<>>
    /\ messages' = <<>> /\ scroll' = 0 /\ follow_bottom' = TRUE
    /\ UNCHANGED <<developer, window, working, panelVars>>

ScrollUp ==
    /\ scroll' = Larger(0, EffectiveScroll - 1) /\ follow_bottom' = FALSE
    /\ UNCHANGED <<messages, developer, window, working, panelVars>>

ScrollDown ==
    LET max == MaxScroll
        next == EffectiveScroll + 1
    IN  /\ scroll' = IF next < max THEN next ELSE max
        /\ follow_bottom' = (next >= max)
        /\ UNCHANGED <<messages, developer, window, working, panelVars>>

\* toggle_card_at, from a click; toggle_last_tool_card and
\* toggle_last_thinking, which also flip cards that never fold.
Newest(kinds) ==
    {i \in DOMAIN messages : messages[i].kind \in kinds
        /\ \A j \in DOMAIN messages : messages[j].kind \in kinds => j <= i}

ToggleCard ==
    /\ \E i \in (Range(Hits(EffectiveScroll)) \ {0})
              \union Newest(Cards \ {"running"}) \union Newest({"thinking"}) :
          messages' = [messages EXCEPT ![i].expanded = ~@]
    /\ UNCHANGED <<developer, scrollVars, window, working, panelVars>>

ToggleDeveloper ==
    /\ developer' = ~developer
    /\ UNCHANGED <<messages, scrollVars, window, working, panelVars>>

Resized ==
    /\ window' \in [width : WindowWidths, height : WindowHeights]
    /\ UNCHANGED <<messages, developer, scrollVars, working, panelVars>>

TasksArrive ==
    /\ has_tasks' = ~has_tasks
    /\ UNCHANGED <<messages, developer, scrollVars, window, working, show_tasks, tasks_explicit>>

ViewNext ==
    \/ PushUser \/ Opened \/ Grown \/ TurnEnds \/ ClearView
    \/ ScrollUp \/ ScrollDown
    \/ ToggleCard \/ ToggleDeveloper \/ Resized

\* The panel shares only the window with the transcript.
PanelNext == TasksArrive \/ PressTasks \/ Resized

-----------------------------------------------------------------------------
(* Properties. *)

\* A click toggles the card whose header is drawn where it landed, and
\* nothing anywhere else, whatever is folded, wrapped and scrolled.
ClicksLand(top, drawn) ==
    LET hits == Hits(top)
    IN  \A at \in DOMAIN hits :
            hits[at] = IF /\ at + 1 \in DOMAIN drawn /\ drawn[at + 1].part = 1
                          /\ IsToggleable(messages[drawn[at + 1].of])
                       THEN drawn[at + 1].of ELSE 0

\* The window never shows blank rows below the transcript while there are
\* rows above it, and while the view follows, its last row is the last drawn.
WindowFilled(top, drawn) ==
    LET shown == top + window.height
    IN  (Len(drawn) >= window.height => shown <= Len(drawn)) /\ (follow_bottom => shown >= Len(drawn))

\* Rows added below a view scrolled up from the bottom do not move it. (A
\* view whose offset is past the end, because a card above it was folded or
\* the busy line went, does move until the offset fits again.)
Unmoved ==
    ~follow_bottom /\ messages' # messages /\ UNCHANGED scrollVars =>
        LET drawn == Rows(messages)
            later == Rows(messages')
        IN  IsPrefix(drawn, later) /\ scroll <= MaxScroll => Top(later) = Top(drawn)

\* One press of the tasks key flips what the user sees.
PressFlips == PressTasks => TasksVisible' = ~TasksVisible

\* The chat screen shows what its keys and clicks act on (message_list says
\* of its two layouts "what is drawn and what is hit-tested never drift").
ViewShown ==
    LET top == EffectiveScroll drawn == Rows(messages) IN ClicksLand(top, drawn) /\ WindowFilled(top, drawn)
=============================================================================
