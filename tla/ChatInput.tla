----------------------------- MODULE ChatInput -----------------------------
(* The input line of the chat screen: the buffer with its caret, the       *)
(* command palette over it, the history of what was submitted, and the     *)
(* wrapped rows the box draws. A text is a sequence of Letters; "/" starts *)
(* a command, "nl" is a line break and the only blank.                     *)
EXTENDS Integers, Sequences, SequencesExt

CONSTANTS
    Letters,        \* what the user can type
    COMMANDS,       \* the command names, in the order they are listed
    HISTORY_CAP,    \* inputs kept for recall
    MaxTyped,       \* bound: length of a buffer the user may still type into
    Widths, Heights, \* bounds: columns and rows the box may have for text
    Live            \* the history's cursor while the live draft is edited

ASSUME CommandsAssumption ==
    /\ COMMANDS \in Seq(Seq(Letters \ {"/", "nl"})) /\ IsInjective(COMMANDS)
    /\ \A i, j \in DOMAIN COMMANDS : IsStrictPrefix(COMMANDS[i], COMMANDS[j]) => i < j
ASSUME CapAssumption == HISTORY_CAP \in Nat \ {0}

VARIABLES
    input, caret,           \* the buffer, and characters before the caret
    dismissed, selected,    \* the palette: closed by Esc, highlighted row
    entries, cursor, stash, \* InputHistory
    draft, replaced         \* ghosts: the draft browsing began with; whether
                            \* Tab or Esc changed a recalled entry in place

inputVars == <<input, caret, dismissed, selected, entries, cursor, stash, draft, replaced>>
paletteVars == <<dismissed, selected>>
historyVars == <<entries, cursor, stash>>

-----------------------------------------------------------------------------
(* What the box draws: rows of at most width characters, a window of       *)
(* visible rows over them, and the caret's place in the window.            *)

Lines(text) ==
    FoldLeft(LAMBDA ls, c : IF c = "nl" THEN Append(ls, <<>>)
                            ELSE Append(Front(ls), Append(Last(ls), c)), << <<>> >>, text)

Ceiling(n, width) == (n + width - 1) \div width

LineRows(line, width) ==
    IF line = <<>> THEN << <<>> >>
    ELSE [r \in 1 .. Ceiling(Len(line), width) |->
             SubSeq(line, (r - 1) * width + 1, IF r * width < Len(line) THEN r * width ELSE Len(line))]

WrappedRows(ls, width) == FlattenSeq([i \in DOMAIN ls |-> LineRows(ls[i], width)])

\* The line the caret is on, the characters before that line, and the row of
\* the line an offset falls on: the end of a full row belongs to that row.
CaretLine(ls, at) ==
    LET start == [i \in DOMAIN ls |-> FoldLeft(LAMBDA n, l : n + Len(l) + 1, 0, SubSeq(ls, 1, i - 1))]
        line == CHOOSE i \in DOMAIN ls : at \in start[i] .. start[i] + Len(ls[i])
    IN  [line |-> line, offset |-> at - start[line]]

RowInLine(line, offset, width) ==
    LET last == Len(LineRows(line, width)) - 1
    IN  IF offset \div width < last THEN offset \div width ELSE last

\* cursor_pos: row and column counted from 0.
CursorPos(ls, width, at) ==
    LET on == CaretLine(ls, at)
        above == Len(WrappedRows(SubSeq(ls, 1, on.line - 1), width))
        row == RowInLine(ls[on.line], on.offset, width)
    IN  [row |-> above + row, col |-> on.offset - row * width]

\* render: the first row of the window, which ends with the text unless the
\* caret is above it.
WindowTop(rowCount, visible, caretRow) ==
    LET end == IF rowCount > visible THEN rowCount - visible ELSE 0
    IN  IF end < caretRow THEN end ELSE caretRow

\* The caret is drawn inside the window, right behind the character it
\* follows in the buffer and before the one it precedes; no row is wider than
\* the box and the rows hold the text, line by line.
CaretShown(text, width, at) ==
    LET ls == Lines(text)
        drawn == WrappedRows(ls, width)
        pos == CursorPos(ls, width, at)
        row == drawn[pos.row + 1]
    IN  /\ pos.row \in 0 .. Len(drawn) - 1
        /\ \A visible \in Heights :
              LET top == WindowTop(Len(drawn), visible, pos.row)
              IN  pos.row \in top .. top + visible - 1
        /\ pos.col \in 0 .. Len(row)
        /\ at > 0 /\ text[at] # "nl" /\ pos.col > 0 => row[pos.col] = text[at]
        /\ at < Len(text) /\ text[at + 1] # "nl" /\ pos.col < Len(row) => row[pos.col + 1] = text[at + 1]
        /\ \A i \in DOMAIN drawn : Len(drawn[i]) <= width
        /\ FlattenSeq(drawn) = SelectSeq(text, LAMBDA c : c # "nl")

-----------------------------------------------------------------------------
(* The palette and completion. A blank buffer prefix is trimmed, a command *)
(* name followed by anything blank is no longer completed.                 *)

TrimStart(text) ==
    LET solid == {i \in DOMAIN text : text[i] # "nl"}
    IN  IF solid = {} THEN <<>> ELSE SubSeq(text, CHOOSE i \in solid : \A j \in solid : i <= j, Len(text))
Trim(text) == Reverse(TrimStart(Reverse(TrimStart(text))))

\* palette_matches; also the candidates of complete.
Matches(text) ==
    LET t == TrimStart(text)
    IN  IF t = <<>> \/ Head(t) # "/" \/ Contains(t, "nl") THEN <<>>
        ELSE SelectSeq(COMMANDS, LAMBDA name : IsPrefix(Tail(t), name))

\* palette_open, no overlay being open while keys reach the chat screen.
PaletteOpen == ~dismissed /\ Matches(input) # <<>>

\* palette_selected_name
SelectedName ==
    LET names == Matches(input)
    IN  names[IF selected < Len(names) THEN selected + 1 ELSE Len(names)]

\* What Enter submits: the highlighted command, else the trimmed buffer; and
\* the command parse takes it for, <<>> when it is a message.
Accepted == IF PaletteOpen THEN <<"/">> \o SelectedName ELSE Trim(input)
Parsed(text) ==
    LET words == SelectSeq(Lines(Tail(text)), LAMBDA l : l # <<>>)
    IN  IF Head(text) # "/" \/ words = <<>> THEN <<>> ELSE Head(words)

-----------------------------------------------------------------------------
(* handle_chat, one action per key. Keys that act elsewhere (scrolling,    *)
(* mode, diff, Esc while the agent works) leave the line alone.            *)

InputInit ==
    /\ input = <<>> /\ caret = 0
    /\ dismissed = FALSE /\ selected = 0
    /\ entries = <<>> /\ cursor = Live /\ stash = <<>>
    /\ draft = <<>> /\ replaced = FALSE

\* Fault: an edit leaves the history where it was.
NoteEditBrowsing ==
    /\ UNCHANGED <<cursor, replaced>>
    /\ dismissed' = FALSE /\ selected' = 0
    /\ UNCHANGED <<entries, stash, draft>>

\* note_edit: a recalled entry becomes the live draft, the palette starts over.
NoteEdit ==
    /\ cursor' = Live /\ draft' = <<>> /\ replaced' = FALSE
    /\ dismissed' = FALSE /\ selected' = 0
    /\ UNCHANGED <<entries, stash>>

PushChar(c) ==
    /\ Len(input) < MaxTyped
    /\ input' = InsertAt(input, caret + 1, c) /\ caret' = caret + 1
    /\ NoteEdit

Backspace ==
    /\ caret > 0
    /\ input' = RemoveAt(input, caret) /\ caret' = caret - 1
    /\ NoteEdit

\* Left, Right, Home and End.
MoveCaret ==
    /\ LET ls == Lines(input)
           on == CaretLine(ls, caret)
       IN  caret' \in {IF caret > 0 THEN caret - 1 ELSE 0,
                      IF caret < Len(input) THEN caret + 1 ELSE caret,
                      caret - on.offset,
                      caret - on.offset + Len(ls[on.line])}
    /\ UNCHANGED <<input, paletteVars, historyVars, draft, replaced>>

SetInput(text) == input' = text /\ caret' = Len(text)

\* set_recalled: the palette stays closed over a recalled command.
SetRecalled(text) ==
    /\ SetInput(text)
    /\ dismissed' = TRUE /\ selected' = 0
    /\ replaced' = FALSE

HistoryUp ==
    /\ ~PaletteOpen
    /\ entries # <<>> /\ cursor # 1
    /\ stash' = IF cursor = Live THEN input ELSE stash
    /\ draft' = IF cursor = Live THEN input ELSE draft
    /\ cursor' = IF cursor = Live THEN Len(entries) ELSE cursor - 1
    /\ SetRecalled(entries[cursor'])
    /\ UNCHANGED entries

HistoryDown ==
    /\ ~PaletteOpen
    /\ cursor # Live
    /\ IF cursor < Len(entries)
       THEN /\ cursor' = cursor + 1 /\ SetRecalled(entries[cursor + 1])
            /\ UNCHANGED <<stash, draft>>
       ELSE /\ cursor' = Live /\ SetRecalled(stash)
            /\ stash' = <<>> /\ draft' = <<>>
    /\ UNCHANGED entries

\* palette_move: the highlight wraps at both ends.
PaletteMove ==
    /\ PaletteOpen
    /\ LET count == Len(Matches(input))
           at == IF selected < count THEN selected ELSE count - 1
       IN  selected' \in {(at - 1) % count, (at + 1) % count}
    /\ UNCHANGED <<input, caret, dismissed, historyVars, draft, replaced>>

\* Tab: the highlighted row of the palette, or the only command that matches.
CompleteName ==
    /\ \/ PaletteOpen /\ SetInput(<<"/">> \o SelectedName)
       \/ ~PaletteOpen /\ Len(Matches(input)) = 1 /\ SetInput(<<"/">> \o Matches(input)[1])
    /\ replaced' = (cursor # Live)
    /\ UNCHANGED <<paletteVars, historyVars, draft>>

DismissPalette ==
    /\ PaletteOpen
    /\ dismissed' = TRUE
    /\ UNCHANGED <<input, caret, selected, historyVars, draft, replaced>>

\* Esc with no palette and an idle agent: the line empties, the history stays
\* where it was.
ClearInput ==
    /\ ~PaletteOpen
    /\ input' = <<>> /\ caret' = 0
    /\ dismissed' = FALSE /\ selected' = 0
    /\ replaced' = (cursor # Live)
    /\ UNCHANGED <<historyVars, draft>>

\* InputHistory::push and take_input.
SubmitLine ==
    /\ Accepted # <<>>
    /\ entries' = IF entries # <<>> /\ Last(entries) = Accepted THEN entries
                  ELSE LET longer == Append(entries, Accepted)
                       IN  IF Len(longer) > HISTORY_CAP THEN Tail(longer) ELSE longer
    /\ cursor' = Live /\ stash' = <<>> /\ draft' = <<>>
    /\ input' = <<>> /\ caret' = 0
    /\ dismissed' = FALSE /\ selected' = 0
    /\ replaced' = FALSE

InputNext ==
    \/ \E c \in Letters : PushChar(c)
    \/ Backspace \/ MoveCaret
    \/ HistoryUp \/ HistoryDown
    \/ PaletteMove \/ CompleteName \/ DismissPalette
    \/ ClearInput \/ SubmitLine

-----------------------------------------------------------------------------
(* Properties. *)

\* Whatever is typed, recalled, completed and dismissed: the caret stays in
\* the buffer; a recalled entry shows as it was submitted until it is edited,
\* completed or cleared; the draft browsing began with is still stashed until
\* the walk ends; the history holds no input twice in a row and no more than
\* its cap; and a whole command name runs that command, also when it begins
\* another's, unless the user moved the highlight off the first row. The caret
\* is drawn where the next character will go.
InputKept ==
    /\ caret \in 0 .. Len(input)
    /\ cursor # Live => cursor \in DOMAIN entries /\ stash = draft
    /\ cursor # Live /\ ~replaced => input = entries[cursor]
    /\ Len(entries) <= HISTORY_CAP
    /\ \A i \in 1 .. Len(entries) - 1 : entries[i] # entries[i + 1]
    /\ \A name \in ToSet(COMMANDS) :
          Trim(input) = <<"/">> \o name /\ selected = 0 => Parsed(Accepted) = name
    /\ \A width \in Widths : CaretShown(input, width, caret)
=============================================================================
