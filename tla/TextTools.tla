------------------------------ MODULE TextTools ------------------------------
(***************************************************************************)
(* The pure algorithms of the file tools, each beside a reference          *)
(* definition: the tolerant replacement of edit, the window of read_lines, *)
(* the fitting of tree, and path patterns.                                 *)
(*                                                                         *)
(* A text is a sequence of tokens: words, blanks "sp" and newlines "nl".   *)
(***************************************************************************)
EXTENDS Integers, Sequences, FiniteSets, SequencesExt

CONSTANTS
    DefaultLines,       \* read_lines' default window (200)
    ReadCap,            \* read_lines' MAX_LINES (400)
    Word,               \* 2^w for the width w of usize
    EntriesPerDir,      \* tree's MAX_ENTRIES_PER_DIR (40)
    TreeLines           \* tree's MAX_LINES (400)

ASSUME TextConstants ==
    /\ {DefaultLines, ReadCap, Word, EntriesPerDir, TreeLines} \subseteq Nat \ {0}
    /\ EntriesPerDir < TreeLines

-----------------------------------------------------------------------------
(* edit: apply_replace.                                                    *)

\* line_offsets: where lines start, and the end of the text.
LineOffsets(s) ==
    SelectSeq([i \in 1 .. (Len(s) + 1) |-> i - 1],
              LAMBDA i : i \in {0, Len(s)} \/ s[i] = "nl")

LineCount(s) == Len(LineOffsets(s)) - 1

\* The lines, without their newlines.
LinesOf(s) ==
    LET at == LineOffsets(s)
    IN [k \in 1 .. (Len(at) - 1) |->
            SelectSeq(SubSeq(s, at[k] + 1, at[k + 1]), LAMBDA t : t # "nl")]

Blank(t) == t \in {"sp", "nl"}

TrimEnd(line) ==
    LET words == {i \in DOMAIN line : ~Blank(line[i])}
    IN IF words = {} THEN <<>> ELSE SubSeq(line, 1, Max(words))

LeadingBlanks(line) ==
    LET words == {i \in DOMAIN line : ~Blank(line[i])}
    IN IF words = {} THEN line ELSE SubSeq(line, 1, Min(words) - 1)

TrimStart(line) == SubSeq(line, Len(LeadingBlanks(line)) + 1, Len(line))

Normal(tier, line) == IF tier = 1 THEN TrimEnd(line) ELSE TrimStart(TrimEnd(line))

OccursAt(s, old, p) == SubSeq(s, p, p + Len(old) - 1) = old

\* Where str::matches finds `old`: from the left, without overlaps.
Matched(s, old) ==
    LET from[p \in 1 .. (Len(s) + 2)] ==
            IF p + Len(old) - 1 > Len(s) THEN {}
            ELSE IF OccursAt(s, old, p)
                 THEN {p} \union from[p + IF old = <<>> THEN 1 ELSE Len(old)]
                 ELSE from[p + 1]
    IN from[1]

\* locate_lines: the runs of whole lines that equal old's, normalised.
Runs(tier, s, old) ==
    LET lines == LinesOf(s)
        wanted == LinesOf(old)
    IN IF wanted = <<>> THEN {}
       ELSE {i \in 1 .. (Len(lines) - Len(wanted) + 1) :
                \A k \in DOMAIN wanted :
                    Normal(tier, lines[i + k - 1]) = Normal(tier, wanted[k])}

\* Fault: the replaced lines' last newline is lost.
SpliceBare(s, from, to, new) == SubSeq(s, 1, from) \o new \o SubSeq(s, to + 1, Len(s))

\* The text with (from, to] replaced; a span that ended in a newline still does.
Splice(s, from, to, new) ==
    LET lacks == to > from /\ s[to] = "nl" /\ new # <<>> /\ Last(new) # "nl"
    IN SubSeq(s, 1, from) \o new \o (IF lacks THEN <<"nl">> ELSE <<>>)
       \o SubSeq(s, to + 1, Len(s))

\* The new text's lines moved from the indentation the model assumed to the
\* file's; empty lines and lines indented less stay as they are.
Reindent(new, assumed, actual) ==
    LET moved(line) ==
            IF line # <<>> /\ IsPrefix(assumed, line)
            THEN actual \o SubSeq(line, Len(assumed) + 1, Len(line)) ELSE line
        lines == LinesOf(new)
        joined == FlattenSeq([k \in DOMAIN lines |->
                    (IF k > 1 THEN <<"nl">> ELSE <<>>) \o moved(lines[k])])
    IN IF assumed = actual \/ new = <<>> THEN new
       ELSE joined \o (IF Last(new) = "nl" THEN <<"nl">> ELSE <<>>)

Refused == [ok |-> FALSE, text |-> <<>>]

\* The outcome in a tier that found lines: only a unique run is replaced.
ReplaceRun(tier, s, old, new) ==
    LET i == Min(Runs(tier, s, old))
        from == LineOffsets(s)[i]
        to == LineOffsets(s)[i + Len(LinesOf(old))]
        fitted == IF tier = 1 THEN new
                  ELSE Reindent(new, LeadingBlanks(LinesOf(old)[1]),
                                LeadingBlanks(LinesOf(s)[i]))
    IN IF Cardinality(Runs(tier, s, old)) = 1
       THEN [ok |-> TRUE, text |-> Splice(s, from, to, fitted)] ELSE Refused

\* Exact, then by lines without trailing blanks, then by lines without blanks.
ApplyReplace(s, old, new) ==
    LET places == Matched(s, old)
        p == Min(places)
    IN IF places # {}
       THEN IF Cardinality(places) = 1
            THEN [ok |-> TRUE,
                  text |-> SubSeq(s, 1, p - 1) \o new \o SubSeq(s, p + Len(old), Len(s))]
            ELSE Refused
       ELSE IF old = <<>> THEN Refused
       ELSE IF Runs(1, s, old) # {} THEN ReplaceRun(1, s, old, new)
       ELSE IF Runs(2, s, old) # {} THEN ReplaceRun(2, s, old, new)
       ELSE Refused

\* Tolerance never guesses.  What an edit changes is one place: an exact
\* occurrence that any other one overlaps, or, when there is none, the only run
\* of lines equal up to blanks; every line outside that run stays as it was, and
\* inside it the new text's lines stand, words and relative indentation intact.
\* And if there is exactly one such place the edit is not refused.
ReplacesOnePlace(s, old, new) ==
    LET r == ApplyReplace(s, old, new)
        exact == {p \in 1 .. (Len(s) - Len(old) + 1) : OccursAt(s, old, p)}
        tier == IF Runs(1, s, old) # {} THEN 1 ELSE 2
        runs == Runs(tier, s, old)
        i == Min(runs)
        before == SubSeq(LinesOf(s), 1, i - 1)
        after == SubSeq(LinesOf(s), i + Len(LinesOf(old)), LineCount(s))
        inside == SubSeq(LinesOf(r.text), i, LineCount(r.text) - Len(after))
        shift == Len(LeadingBlanks(LinesOf(s)[i])) - Len(LeadingBlanks(LinesOf(old)[1]))
    IN IF exact # {}
       THEN /\ r.ok => \A p \in exact : p - Min(exact) < Max({1, Len(old)})
            /\ Cardinality(exact) = 1 => r.ok
            /\ r.ok => Len(r.text) = Len(s) - Len(old) + Len(new)
       ELSE /\ r.ok = (old # <<>> /\ Cardinality(runs) = 1)
            /\ r.ok =>
                 /\ LinesOf(r.text) = before \o inside \o after
                 /\ Len(inside) = LineCount(new)
                 /\ \A k \in DOMAIN inside :
                      LET was == LinesOf(new)[k]
                          is == inside[k]
                      IN /\ TrimStart(is) = TrimStart(was)
                         /\ tier = 1 => is = was
                         /\ (tier = 2 /\ was # <<>>
                               /\ Len(LeadingBlanks(was)) >= Len(LeadingBlanks(LinesOf(old)[1])))
                            => Len(LeadingBlanks(is)) = Len(LeadingBlanks(was)) + shift

-----------------------------------------------------------------------------
(* read_lines: the window.  A missing argument is Unset; sums wrap as a     *)
(* release build's do.                                                     *)

Unset == -1

Window(total, first, last) ==
    LET start == Max({1, IF first = Unset THEN 1 ELSE first})
        asked == IF last = Unset THEN (start + DefaultLines - 1) % Word ELSE Max({last, start})
        end == Min({asked, (start + ReadCap - 1) % Word, total})
    IN IF total = 0 THEN [ok |-> TRUE, lines |-> {}]
       ELSE IF start > total THEN [ok |-> FALSE, lines |-> {}]
       ELSE [ok |-> TRUE, lines |-> start .. end]

\* The window starts where it was asked to, has no more lines than the cap and
\* than were asked for, and has some whenever it starts inside the file.
WindowSound(total, first, last) ==
    LET r == Window(total, first, last)
    IN /\ Cardinality(r.lines) <= ReadCap
       /\ r.lines \subseteq 1 .. total
       /\ r.ok /\ total > 0 => r.lines # {} /\ Max({1, first}) = Min(r.lines)
       /\ last # Unset => \A k \in r.lines : k <= Max({last, first, 1})

-----------------------------------------------------------------------------
(* tree: a directory is a sequence of entries [kind, kids]; "skip" is a     *)
(* build or dependency directory.  A line is [at, kind, more]: the path,    *)
(* whether it is an entry or the mark "(N more)", and a mark of more inside. *)

Visible(entries) == SelectSeq(entries, LAMBDA e : e.kind # "hidden")

RECURSIVE Walk(_, _, _)
\* The lines of a directory, down to `depth` levels below it.
Walk(entries, path, depth) ==
    LET shown == Visible(entries)
        cut == Len(shown) > EntriesPerDir
        at(i) == Append(path, i)
        own(i) == [at |-> at(i), kind |-> "entry",
                   more |-> \/ shown[i].kind = "skip"
                            \/ depth = 1 /\ Visible(shown[i].kids) # <<>>]
        below(i) == IF shown[i].kind = "dir" /\ depth > 1
                    THEN Walk(shown[i].kids, at(i), depth - 1) ELSE <<>>
    IN FlattenSeq([i \in 1 .. Min({Len(shown), EntriesPerDir}) |-> <<own(i)>> \o below(i)])
       \o (IF cut THEN <<[at |-> path, kind |-> "more", more |-> TRUE]>> ELSE <<>>)

\* Fault: an overview that does not fit is cut off.
FitByCutting(entries, depth) ==
    LET all == Walk(entries, <<>>, depth) IN SubSeq(all, 1, Min({Len(all), TreeLines}))

\* The deepest level, at most the one asked for, whose listing fits; level 1 does.
Fit(entries, depth) ==
    LET fits(d) == d = 1 \/ Len(Walk(entries, <<>>, d)) <= TreeLines
    IN Walk(entries, <<>>, Max({d \in 1 .. depth : fits(d)}))

\* A listing fits, names every entry of the top level up to the limit per
\* directory, and marks every directory it lists without opening.
TreeWhole(entries, depth) ==
    LET lines == Fit(entries, depth)
        top == Visible(entries)
        listed == {lines[i].at : i \in {k \in DOMAIN lines : lines[k].kind = "entry"}}
        opened(p) == \E q \in listed : Len(q) = Len(p) + 1 /\ IsPrefix(p, q)
    IN /\ Len(lines) <= TreeLines
       /\ \A i \in 1 .. Min({Len(top), EntriesPerDir}) : <<i>> \in listed
       /\ \A k \in DOMAIN lines :
            (/\ lines[k].kind = "entry" /\ ~lines[k].more /\ Len(lines[k].at) = 1
             /\ Visible(top[lines[k].at[1]].kids) # <<>>) => opened(lines[k].at)

-----------------------------------------------------------------------------
(* Patterns: wildcard_match, and the guard's matches_any for one pattern.   *)

\* One state of the matcher's loop: positions in pattern and text (from 1), the
\* last star and where the text it takes ends.
RECURSIVE MatchFrom(_, _, _)
MatchFrom(pattern, text, st) ==
    LET inside == st.p <= Len(pattern)
    IN IF st.t <= Len(text)
       THEN IF inside /\ pattern[st.p] = text[st.t]
            THEN MatchFrom(pattern, text, [st EXCEPT !.p = @ + 1, !.t = @ + 1])
            ELSE IF inside /\ pattern[st.p] = "*"
            THEN MatchFrom(pattern, text, [p |-> st.p + 1, t |-> st.t,
                                           star |-> st.p, taken |-> st.t])
            ELSE IF st.star # 0
            THEN MatchFrom(pattern, text, [st EXCEPT !.p = st.star + 1,
                                                     !.taken = @ + 1, !.t = st.taken + 1])
            ELSE FALSE
       ELSE \A i \in st.p .. Len(pattern) : pattern[i] = "*"

\* Fault: a star takes at least one character.
MatchGreedy(pattern, text) ==
    MatchFrom(pattern, text, [p |-> 1, t |-> 1, star |-> 0, taken |-> 1])
      /\ Len(text) >= Len(pattern)

WildcardMatch(pattern, text) ==
    MatchFrom(pattern, text, [p |-> 1, t |-> 1, star |-> 0, taken |-> 1])

RECURSIVE Glob(_, _)
\* Reference: a star stands for any sequence, anything else for itself.
Glob(pattern, text) ==
    IF pattern = <<>> THEN text = <<>>
    ELSE IF Head(pattern) = "*"
         THEN \E k \in 0 .. Len(text) : Glob(Tail(pattern), SubSeq(text, k + 1, Len(text)))
         ELSE text # <<>> /\ Head(text) = Head(pattern) /\ Glob(Tail(pattern), Tail(text))

WithoutLeading(s) ==
    LET kept == {i \in DOMAIN s : s[i] # "/"} IN IF kept = {} THEN <<>> ELSE SubSeq(s, Min(kept), Len(s))
WithoutTrailing(s) ==
    LET kept == {i \in DOMAIN s : s[i] # "/"} IN IF kept = {} THEN <<>> ELSE SubSeq(s, 1, Max(kept))
FileName(path) ==
    LET cuts == {i \in DOMAIN path : path[i] = "/"} IN
    IF cuts = {} THEN path ELSE SubSeq(path, Max(cuts) + 1, Len(path))

\* Whether a pattern of the hidden or hardened list covers a path.
Covers(raw, path) ==
    LET pattern == WithoutLeading(raw)
        dir == WithoutTrailing(pattern)
    IN /\ pattern # <<>>
       /\ \/ WildcardMatch(pattern, path)
          \/ WildcardMatch(pattern, FileName(path))
          \/ dir # <<>> /\ (path = dir \/ IsPrefix(Append(dir, "/"), path))

\* The matcher agrees with the reference; and a pattern that names a path in
\* full covers it and all that lies below, with or without slashes around it.
PatternSound(pattern, path) ==
    /\ WildcardMatch(pattern, path) = Glob(pattern, path)
    /\ (path # <<>> /\ path[1] # "/" /\ Last(path) # "/") =>
          \A raw \in {path, Append(path, "/"), <<"/">> \o path} :
              Covers(raw, path) /\ Covers(raw, path \o <<"/", "x">>)
=============================================================================
