------------------------------ MODULE Excerpts ------------------------------
(* What the agent is shown of more than it is shown: the matches of search    *)
(* and their snippets, output cut at its head or tail, and the snapshot of    *)
(* the project.                                                               *)
(*                                                                            *)
(* A directory is a sequence of entries in the order of their names:          *)
(* [kind, hits, kids], where a "file" has as many matching lines as hits, a   *)
(* "dir" has kids, a "built" one is of SKIP_DIRS, "own" is .git or .suis, a   *)
(* "hidden" entry is covered by the project's patterns, a "binary" file does  *)
(* not decode, and a "linked" entry is a link to a directory of its kids.     *)
EXTENDS Integers, Sequences, SequencesExt, FiniteSets

CONSTANTS
    MaxResults,         \* search's MAX_RESULTS (200)
    LineLimit,          \* SNIPPET_LINE_LIMIT (120)
    LineContext,        \* SNIPPET_CONTEXT (25)
    EntriesPerLevel     \* MAX_ENTRIES_PER_LEVEL of the snapshot (40)

ASSUME ExcerptsAssumption ==
    /\ {MaxResults, LineLimit, EntriesPerLevel} \subseteq Nat \ {0}
    /\ LineContext \in Nat

Lesser(m, n) == IF m <= n THEN m ELSE n

-----------------------------------------------------------------------------
(* search.  A match is <<path, line>>.                                       *)

\* search_file: the first matches there is room for; with one the file is
\* recorded as searched.
SearchFile(entry, path, found) ==
    LET room == MaxResults - Len(found.matches)
        taken == Lesser(entry.hits, room)
    IN  [matches |-> found.matches \o [k \in 1 .. taken |-> <<path, k>>],
         searched |-> IF taken > 0 THEN found.searched \union {path} ELSE found.searched]

Skipped(entry) == entry.kind \in {"own", "built", "hidden"}

RECURSIVE SearchDir(_, _, _)
\* walk: a directory that is linked is walked like one that is there.
SearchDir(entries, path, found) ==
    LET into(state, i) ==
            IF Len(state.matches) >= MaxResults \/ Skipped(entries[i]) THEN state
            ELSE CASE entries[i].kind \in {"dir", "linked"} -> SearchDir(entries[i].kids, Append(path, i), state)
                   [] entries[i].kind = "file" -> SearchFile(entries[i], Append(path, i), state)
                   [] OTHER -> state
    IN  FoldLeft(into, found, [i \in DOMAIN entries |-> i])

\* execute, of a whole directory.  Its note that there are more is never given:
\* there are never more matches than MaxResults to cut off.
Search(entries) ==
    LET found == SearchDir(entries, <<>>, [matches |-> <<>>, searched |-> {}])
    IN  [matches |-> SubSeq(found.matches, 1, Lesser(Len(found.matches), MaxResults)),
         noted |-> Len(found.matches) > MaxResults, searched |-> found.searched]

RECURSIVE AllMatches(_, _)
\* Reference: every match in a file that may be seen.
AllMatches(entries, path) ==
    FlattenSeq([i \in DOMAIN entries |->
        IF Skipped(entries[i]) THEN <<>>
        ELSE IF entries[i].kind = "file" THEN [k \in 1 .. entries[i].hits |-> <<Append(path, i), k>>]
        ELSE AllMatches(entries[i].kids, Append(path, i))])

\* A search reports the first matches of all there are, in the order of the
\* listing and none of them twice or from a file that may not be seen; and the
\* files that may be read after it are just those of which it reported one.
SearchSound(entries) ==
    LET found == Search(entries)
        all == AllMatches(entries, <<>>)
    IN  /\ found.matches = SubSeq(all, 1, Lesser(Len(all), MaxResults))
        /\ found.searched = {found.matches[k][1] : k \in DOMAIN found.matches}
        /\ ~found.noted

\* snippet: a long line is cut on either side of its first match, or, if blanks at
\* its end are part of that, after LineLimit characters.  "..." is the mark.
Snippet(whole, pattern) ==
    LET words == {i \in DOMAIN whole : whole[i] # "sp"}
        line == SubSeq(whole, 1, CHOOSE i \in words \union {0} : \A j \in words : j <= i)
        at == {p \in 1 .. Len(line) - Len(pattern) + 1 : SubSeq(line, p, p + Len(pattern) - 1) = pattern}
        start == CHOOSE p \in at : \A q \in at : p <= q
        before == SubSeq(line, 1, start - 1)
        after == SubSeq(line, start + Len(pattern), Len(line))
    IN  IF Len(line) <= LineLimit THEN line
        ELSE IF at = {} THEN SubSeq(line, 1, LineLimit)
        ELSE (IF Len(before) > LineContext
              THEN <<"...">> \o SubSeq(before, Len(before) - LineContext + 1, Len(before)) ELSE before)
             \o pattern
             \o (IF Len(after) > LineContext THEN SubSeq(after, 1, LineContext) \o <<"...">> ELSE after)

\* What is shown of a matching line is a piece of it that holds the match, and no
\* longer than the limits allow; unless the match is its blanks at the end.
SnippetSound(line, pattern) ==
    LET shown == Snippet(line, pattern)
        piece == SelectSeq(shown, LAMBDA c : c # "...")
        within(part, s) == \E p \in 1 .. Len(s) - Len(part) + 1 : SubSeq(s, p, p + Len(part) - 1) = part
    IN  within(pattern, line) =>
            /\ within(piece, line)
            /\ within(pattern, piece) \/ Last(line) = "sp"
            /\ Len(shown) <= LineLimit \/ Len(piece) <= Len(pattern) + 2 * LineContext

-----------------------------------------------------------------------------
(* truncate_head and truncate_tail.  A text is a sequence of bytes: "nl",    *)
(* letters, and the "lead" and "tail" of a character of two.                 *)

Boundary(text, at) == at = Len(text) \/ text[at + 1] # "tail"

\* The text without its first `at` bytes, from the next character on and, if
\* anything is left after the next newline, from there.
TruncateTail(text, max) ==
    LET least == Len(text) - max
        start == CHOOSE i \in least .. Len(text) :
                     Boundary(text, i) /\ \A j \in least .. i - 1 : ~Boundary(text, j)
        ends == {i \in start + 1 .. Len(text) : text[i] = "nl"}
        newline == CHOOSE i \in ends : \A j \in ends : i <= j
    IN  IF Len(text) <= max THEN text
        ELSE SubSeq(text, (IF ends = {} \/ newline = Len(text) THEN start ELSE newline) + 1, Len(text))

TruncateHead(text, max) ==
    LET end == CHOOSE i \in 0 .. max : Boundary(text, i) /\ \A j \in i + 1 .. max : ~Boundary(text, j)
        ends == {i \in 1 .. end : text[i] = "nl"}
        newline == CHOOSE i \in ends : \A j \in ends : j <= i
    IN  IF Len(text) <= max THEN text ELSE SubSeq(text, 1, IF ends = {} THEN end ELSE newline)

\* What is left of a long output are its last bytes, or its first: no more than
\* fit, whole characters, whole lines if a line ends among them, and something
\* unless not one character fits.
TruncationSound(text, max) ==
    LET tail == TruncateTail(text, max)
        head == TruncateHead(text, max)
        least == Len(text) - max
        cut(part, at) == /\ Len(part) <= max
                         /\ Boundary(text, at)
                         /\ part = <<>> => max < 2
    IN  IF Len(text) <= max THEN tail = text /\ head = text
        ELSE /\ IsSuffix(tail, text) /\ cut(tail, Len(text) - Len(tail))
             /\ IsPrefix(head, text) /\ cut(head, Len(head))
             /\ \/ text[Len(text) - Len(tail)] = "nl"
                \/ \A i \in least + 1 .. Len(text) - 1 : text[i] # "nl"
             /\ head # <<>> /\ Last(head) # "nl" => \A i \in 1 .. max : text[i] # "nl"

-----------------------------------------------------------------------------
(* The snapshot that opens a session and an implementation.                  *)

\* list_dir: names, up to the limit, and how many more there are.
ListDir(entries) ==
    LET shown == SelectSeq([i \in DOMAIN entries |-> i], LAMBDA i : entries[i].kind \notin {"own", "hidden"})
    IN  [places |-> SubSeq(shown, 1, Lesser(Len(shown), EntriesPerLevel)),
         more |-> IF Len(shown) > EntriesPerLevel THEN Len(shown) - EntriesPerLevel ELSE 0]

\* A linked directory is no directory here.
Listed(entries, path) ==
    LET dir == ListDir(entries)
        own(i) == [at |-> Append(path, dir.places[i]), dir |-> entries[dir.places[i]].kind \in {"dir", "built"}, more |-> 0]
    IN  [i \in DOMAIN dir.places |-> own(i)]
        \o IF dir.more > 0 THEN <<[at |-> path, dir |-> FALSE, more |-> dir.more]>> ELSE <<>>

TopLevelSnapshot(entries) == Listed(entries, <<>>)

Snapshot(entries) ==
    LET top == Listed(entries, <<>>)
        below(line) == IF line.dir THEN Listed(entries[line.at[1]].kids, line.at) ELSE <<>>
    IN  FlattenSeq([i \in DOMAIN top |-> <<top[i]>> \o below(top[i])])

\* A snapshot has every entry that may be seen on the levels it shows, by its name
\* or in the count of those that did not fit, and no other; it is as small as it
\* is meant to be; and the top level is the same in both.
SnapshotSound(entries) ==
    LET lines == Snapshot(entries)
        top == TopLevelSnapshot(entries)
        seen(dir) == {i \in DOMAIN dir : dir[i].kind \notin {"own", "hidden"}}
        level(path) == SelectSeq(lines, LAMBDA line : IF line.more > 0 THEN line.at = path
                                                      ELSE Front(line.at) = path)
        counted(path) == FoldLeft(LAMBDA n, line : n + (IF line.more > 0 THEN line.more ELSE 1), 0, level(path))
        opened == {i \in seen(entries) : \E k \in DOMAIN top : top[k].at = <<i>> /\ top[k].dir}
    IN  /\ level(<<>>) = top
        /\ counted(<<>>) = Cardinality(seen(entries))
        /\ \A i \in opened : counted(<<i>>) = Cardinality(seen(entries[i].kids))
        /\ \A k \in DOMAIN lines : lines[k].more = 0 =>
              /\ lines[k].at[1] \in seen(entries)
              /\ Len(lines[k].at) = 2 => lines[k].at[2] \in seen(entries[lines[k].at[1]].kids)
        /\ Len(lines) <= (EntriesPerLevel + 1) * (EntriesPerLevel + 1)
=============================================================================
