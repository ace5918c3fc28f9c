------------------------------- MODULE Diffs --------------------------------
(* The diff of an edit: made by the edit tool (agent/diff.rs), cut out of its *)
(* result and counted by the console (parse_edit_diff, diff_viewer.rs).       *)
(*                                                                            *)
(* A text is a sequence of lines and whether the last of them is ended. A     *)
(* line is a model value or, where its first characters matter, a string of   *)
(* LeadingMarks. A row of a diff has a mark and, unless it is a gap, a line.  *)
EXTENDS Integers, Sequences, SequencesExt, FiniteSets

CONSTANT CONTEXT            \* unchanged lines that are kept around a change

ASSUME DiffsAssumption == CONTEXT \in Nat

LeadingMarks == {"++", "--"}

Row(mark, line) == [mark |-> mark, line |-> line, gap |-> 0]
Gap(n) == [mark |-> "gap", line |-> "", gap |-> n]

\* The length of a longest common subsequence of a[i ..] and b[j ..].
CommonTable(a, b) ==
    LET most(x, y) == IF x >= y THEN x ELSE y
        table[i \in 1 .. Len(a) + 1, j \in 1 .. Len(b) + 1] ==
            IF i > Len(a) \/ j > Len(b) THEN 0
            ELSE IF a[i] = b[j] THEN table[i + 1, j + 1] + 1
            ELSE most(table[i + 1, j], table[i, j + 1])
    IN  table

\* lcs_diff.
LcsDiff(a, b) ==
    LET table == CommonTable(a, b)
        from[i \in 1 .. Len(a) + 1, j \in 1 .. Len(b) + 1] ==
            CASE i > Len(a) -> [k \in 1 .. Len(b) + 1 - j |-> Row("+", b[j + k - 1])]
              [] i <= Len(a) /\ j > Len(b) -> [k \in 1 .. Len(a) + 1 - i |-> Row("-", a[i + k - 1])]
              [] OTHER ->
                    IF a[i] = b[j] THEN <<Row(" ", a[i])>> \o from[i + 1, j + 1]
                    ELSE IF table[i + 1, j] >= table[i, j + 1] THEN <<Row("-", a[i])>> \o from[i + 1, j]
                    ELSE <<Row("+", b[j])>> \o from[i, j + 1]
    IN  from[1, 1]

\* The rows near a change.
Kept(ops) ==
    {i \in DOMAIN ops : \E c \in DOMAIN ops : ops[c].mark # " " /\ c \in i - CONTEXT .. i + CONTEXT}

\* A run of other rows becomes a gap, unless it is a single one.
Collapsed(ops) ==
    LET kept == Kept(ops)
        from[i \in 1 .. Len(ops) + 1] ==
            IF i > Len(ops) THEN <<>>
            ELSE IF i \in kept THEN <<ops[i]>> \o from[i + 1]
            ELSE LET next == CHOOSE k \in i + 1 .. Len(ops) + 1 :
                                 (k > Len(ops) \/ k \in kept) /\ \A j \in i .. k - 1 : j \notin kept
                 IN  <<IF next = i + 1 THEN ops[i] ELSE Gap(next - i)>> \o from[next]
    IN  from[1]

Text(lines, ended) == [lines |-> lines, ended |-> ended /\ lines # <<>>]
Headers == <<Row("header", "---"), Row("header", "+++")>>

\* unified: nothing for texts that are the same to the last byte.
Unified(old, new) == IF old = new THEN <<>> ELSE Headers \o Collapsed(LcsDiff(old.lines, new.lines))

-----------------------------------------------------------------------------
(* What the console makes of it.                                             *)

\* A result of the edit tool: the name of the file, in pieces, and the diff.
EditResult(name, rows) == name \o rows
NoDiff == [label |-> <<>>, rows |-> <<>>]

\* parse_edit_diff: the first "--- " begins the diff.
ParseEditDiff(content) ==
    LET start == SelectInSeq(content, LAMBDA row : row = Headers[1])
    IN  IF start = 0 THEN NoDiff
        ELSE [label |-> SubSeq(content, 1, start - 1), rows |-> SubSeq(content, start, Len(content))]

\* DiffLineKind::classify.  A changed line may begin with the marks of a header.
Classify(row) ==
    CASE row.mark = "header" -> "header"
      [] row.mark = "+" -> IF row.line = "++" THEN "header" ELSE "added"
      [] row.mark = "-" -> IF row.line = "--" THEN "header" ELSE "removed"
      [] row.mark = "gap" -> "gap"
      [] OTHER -> "context"

\* change_counts.
ChangeCounts(rows) ==
    [added |-> Len(SelectSeq(rows, LAMBDA row : Classify(row) = "added")),
     removed |-> Len(SelectSeq(rows, LAMBDA row : Classify(row) = "removed"))]

-----------------------------------------------------------------------------

\* What the rows make of a text: a patch, were it applied.
Applied(rows, lines) ==
    LET step(state, row) ==
            CASE row.mark \in {" ", "gap"} ->
                    LET n == IF row.mark = " " THEN 1 ELSE row.gap
                    IN  [at |-> state.at + n, out |-> state.out \o SubSeq(lines, state.at, state.at + n - 1),
                         ok |-> state.ok /\ (row.mark = " " => state.at \in DOMAIN lines /\ lines[state.at] = row.line)]
              [] row.mark = "-" ->
                    [at |-> state.at + 1, out |-> state.out,
                     ok |-> state.ok /\ state.at \in DOMAIN lines /\ lines[state.at] = row.line]
              [] row.mark = "+" -> [state EXCEPT !.out = Append(@, row.line)]
              [] OTHER -> state
        end == FoldLeft(step, [at |-> 1, out |-> <<>>, ok |-> TRUE], rows)
    IN  IF end.ok /\ end.at = Len(lines) + 1 THEN end.out ELSE <<"nothing">>

\* The most lines that two texts have in common, in order.
MostCommon(a, b) ==
    LET picks(s) == {SelectSeq(s, LAMBDA line : TRUE)} \union
                    {[k \in 1 .. Cardinality(P) |-> s[SetToSortSeq(P, <)[k]]] : P \in SUBSET DOMAIN s}
        common == picks(a) \intersect picks(b)
    IN  Len(CHOOSE c \in common : \A d \in common : Len(d) <= Len(c))

\* A diff is a patch from the old text to the new, as short as can be; it hides
\* only unchanged lines, two or more at a time, and keeps CONTEXT of them on
\* either side of a change; and its counts are what was changed, but for lines
\* that begin like a header.  Texts that differ in nothing but how the last line
\* ends have a diff without a change.
DiffSound(old, new) ==
    LET rows == Unified(old, new)
        marked(mark) == {i \in DOMAIN rows : rows[i].mark = mark}
        like(mark, line) == {i \in marked(mark) : rows[i].line = line}
        common == MostCommon(old.lines, new.lines)
    IN  IF old = new THEN rows = <<>>
        ELSE /\ Applied(rows, old.lines) = new.lines
             /\ Cardinality(marked("-")) = Len(old.lines) - common
             /\ Cardinality(marked("+")) = Len(new.lines) - common
             /\ \A i \in marked("gap") :
                   /\ rows[i].gap >= 2
                   /\ \A k \in DOMAIN rows : rows[k].mark \in {"+", "-"} => k \notin i - CONTEXT .. i + CONTEXT
             /\ ChangeCounts(rows) = [added |-> Cardinality(marked("+") \ like("+", "++")),
                                      removed |-> Cardinality(marked("-") \ like("-", "--"))]
             /\ old.lines = new.lines <=> marked("+") \union marked("-") = {}

\* The console takes apart what the tool put together, whatever the lines are: it
\* shows a diff if and only if there is one, and the name of its file, unless that
\* holds what a diff begins with.
ResultSound(name, old, new) ==
    LET rows == Unified(old, new)
        view == ParseEditDiff(EditResult(name, rows))
    IN  Headers[1] \notin ToSet(name) => view = IF old = new THEN NoDiff ELSE [label |-> name, rows |-> rows]
=============================================================================
