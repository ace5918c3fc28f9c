----------------------------- MODULE ToolCalls ------------------------------
(* A tool call as the model wrote it: its arguments repaired until they     *)
(* parse, checked against the tool's schema, and its name, if no tool has   *)
(* it, answered with the tool it may have meant.                            *)
(*                                                                          *)
(* A text is a sequence of tokens: braces, commas, double quotes "q",       *)
(* single quotes "s", backslashes "b", fences "f", newlines "nl" and words  *)
(* "w". A member of an object is a string or an object; it stands for a key *)
(* with its value.                                                          *)
EXTENDS Integers, Sequences, SequencesExt, FiniteSets

Object(members) == [kind |-> "object", members |-> members, text |-> <<>>]
Quoted(text) == [kind |-> "string", members |-> <<>>, text |-> text]
Unparsed == [ok |-> FALSE, value |-> Quoted(<<>>), next |-> 0]

-----------------------------------------------------------------------------
(* serde_json, over these texts.                                           *)

Special == {"q", "b", "nl"}
Escaped(text) == FlattenSeq([i \in DOMAIN text |-> IF text[i] \in Special THEN <<"b", text[i]>> ELSE <<text[i]>>])

\* The string that opens at i: its text, and where it is closed.
StringAt(text, i) ==
    LET from[j \in i + 1 .. Len(text) + 2] ==
            IF j > Len(text) \/ text[j] = "nl" THEN [ok |-> FALSE, text |-> <<>>, end |-> 0]
            ELSE IF text[j] = "q" THEN [ok |-> TRUE, text |-> <<>>, end |-> j]
            ELSE IF text[j] # "b" THEN [from[j + 1] EXCEPT !.text = <<text[j]>> \o @]
            ELSE IF j < Len(text) /\ text[j + 1] \in Special
                 THEN [from[j + 2] EXCEPT !.text = <<text[j + 1]>> \o @]
            ELSE [ok |-> FALSE, text |-> <<>>, end |-> 0]
    IN  from[i + 1]

RECURSIVE ValueAt(_, _), MembersAt(_, _, _)
SkipBlank(text, i) == IF i <= Len(text) /\ text[i] = "nl" THEN i + 1 ELSE i
TokenAt(text, i) == IF i <= Len(text) THEN text[i] ELSE "end"

ValueAt(text, start) ==
    LET i == SkipBlank(text, start)
        string == StringAt(text, i)
        inside == SkipBlank(text, i + 1)
    IN  CASE TokenAt(text, i) = "q" ->
                [ok |-> string.ok, value |-> Quoted(string.text), next |-> string.end + 1]
          [] TokenAt(text, i) = "{" ->
                IF TokenAt(text, inside) = "}" THEN [ok |-> TRUE, value |-> Object(<<>>), next |-> inside + 1]
                ELSE MembersAt(text, i + 1, <<>>)
          [] OTHER -> Unparsed

MembersAt(text, i, members) ==
    LET member == ValueAt(text, i)
        all == Append(members, member.value)
        after == SkipBlank(text, member.next)
    IN  IF ~member.ok THEN Unparsed
        ELSE CASE TokenAt(text, after) = "," -> MembersAt(text, after + 1, all)
               [] TokenAt(text, after) = "}" -> [ok |-> TRUE, value |-> Object(all), next |-> after + 1]
               [] OTHER -> Unparsed

Entire(text, value) == IF value.ok /\ SkipBlank(text, value.next) = Len(text) + 1 THEN value ELSE Unparsed
FromStr(text) == Entire(text, ValueAt(text, 1))

-----------------------------------------------------------------------------
(* parse_tool_arguments.                                                   *)

TrimBlank(text) ==
    LET front == IF text # <<>> /\ Head(text) = "nl" THEN Tail(text) ELSE text
    IN  IF front # <<>> /\ Last(front) = "nl" THEN Front(front) ELSE front

StripCodeFence(text) ==
    LET lines == SelectInSeq(text, LAMBDA token : token = "nl")
        rest == TrimBlank(SubSeq(text, (IF lines = 0 THEN 1 ELSE lines) + 1, Len(text)))
    IN  IF text = <<>> \/ Head(text) # "f" THEN text
        ELSE TrimBlank(IF rest # <<>> /\ Last(rest) = "f" THEN Front(rest) ELSE rest)

\* Before each token: whether it is inside a string, whether it is escaped, and
\* how many braces are open.
Scan(text, start) ==
    LET before[i \in start .. Len(text) + 1] ==
            IF i = start THEN [inside |-> FALSE, escaped |-> FALSE, depth |-> 0]
            ELSE LET was == before[i - 1]
                     token == text[i - 1]
                 IN  IF was.inside
                     THEN [was EXCEPT !.escaped = ~@ /\ token = "b", !.inside = was.escaped \/ token # "q"]
                     ELSE [was EXCEPT !.inside = token = "q",
                                      !.depth = CASE token = "{" -> @ + 1 [] token = "}" -> @ - 1 [] OTHER -> @]
    IN  before

\* Fault: the first closing brace ends the object, also one inside a string.
ObjectSpanBlind(text) ==
    LET start == SelectInSeq(text, LAMBDA token : token = "{")
        ends == {i \in start .. Len(text) : text[i] = "}"}
    IN  IF start = 0 \/ ends = {} THEN <<>>
        ELSE SubSeq(text, start, CHOOSE i \in ends : \A j \in ends : i <= j)

\* first_object_span; <<>> where there is none.
ObjectSpan(text) ==
    LET start == SelectInSeq(text, LAMBDA token : token = "{")
        scan == Scan(text, start)
        ends == {i \in start .. Len(text) : scan[i + 1].depth = 0 /\ text[i] = "}" /\ ~scan[i].inside}
    IN  IF start = 0 \/ ends = {} THEN <<>>
        ELSE SubSeq(text, start, CHOOSE i \in ends : \A j \in ends : i <= j)

StripTrailingCommas(text) ==
    LET scan == Scan(text, 1)
        trailing(i) == text[i] = "," /\ ~scan[i].inside /\ TokenAt(text, SkipBlank(text, i + 1)) = "}"
        kept == SelectSeq([i \in DOMAIN text |-> i], LAMBDA i : ~trailing(i))
    IN  [k \in DOMAIN kept |-> text[kept[k]]]

\* repair_single_quotes: only where no double quote is.
Requoted(text) ==
    IF "q" \in ToSet(text) \/ "s" \notin ToSet(text) THEN <<>>
    ELSE [i \in DOMAIN text |-> IF text[i] = "s" THEN "q" ELSE text[i]]

\* The texts that are tried, in this order.
Repairs(span) == <<span, StripTrailingCommas(span), StripTrailingCommas(Requoted(span))>>
Candidates(trimmed) ==
    LET unfenced == StripCodeFence(trimmed)
    IN  <<trimmed, unfenced>> \o Repairs(ObjectSpan(unfenced))
Parses(tried) == SelectSeq([i \in DOMAIN tried |-> FromStr(tried[i])], LAMBDA value : value.ok)

RECURSIVE ParseArguments(_)
\* normalize_arguments: a string that holds arguments is parsed in its turn.
HoldsArguments(text) == text # <<>> /\ Head(text) \in {"{", "f"}
Normalized(value) ==
    IF value.kind = "string" /\ HoldsArguments(TrimBlank(value.text)) THEN ParseArguments(value.text) ELSE value

\* What a tool is given.
FirstOf(raw, parsed) == IF parsed = <<>> THEN Quoted(raw) ELSE Normalized(parsed[1].value)
ParseArguments(raw) ==
    IF TrimBlank(raw) = <<>> THEN Object(<<>>) ELSE FirstOf(raw, Parses(Candidates(TrimBlank(raw))))

RECURSIVE Written(_, _)
\* An object written with a comma after its last members, or not.
Written(value, comma) ==
    IF value.kind = "string" THEN <<"q">> \o Escaped(value.text) \o <<"q">>
    ELSE LET separated(i) == Written(value.members[i], comma)
                             \o (IF i < Len(value.members) \/ comma THEN <<",">> ELSE <<>>)
         IN  <<"{">> \o FlattenSeq([i \in DOMAIN value.members |-> separated(i)]) \o <<"}">>

\* The ways a model is known to disguise it: in a fence, among prose, with
\* trailing commas, or encoded twice.
Disguises(value) ==
    LET written == {Written(value, comma) : comma \in BOOLEAN}
        fenced == {<<"f", "w", "nl">> \o text \o <<"nl", "f">> : text \in written}
    IN  written \union fenced
        \union {<<"w", "nl">> \o text \o <<"w">> : text \in written}
        \union {<<"q">> \o Escaped(text) \o <<"q">> : text \in written \union fenced}

\* A tool gets the arguments the model meant, whatever they hold: none of the
\* repairs touches what is inside a string.
ArgumentsSound(value) == \A text \in Disguises(value) : ParseArguments(text) = value

\* The same for single quotes, as long as no string holds a quote or a brace.
RequotedSound(count) ==
    LET text == <<"{">> \o FlattenSeq([i \in 1 .. count |-> <<"s", "w", "s", ",">>]) \o <<"}">>
    IN  ParseArguments(text) = Object([i \in 1 .. count |-> Quoted(<<"w">>)])

-----------------------------------------------------------------------------
(* validate_args. A schema gives each field its type and whether it is       *)
(* required, in the order of the schema; arguments give a field the kind of  *)
(* value it came with, "absent" or "null".                                   *)

TypeMatches(expected, kind) == kind = expected \/ (expected = "number" /\ kind = "integer")

\* The field that is complained of; 0 when the call may go on.
Validated(schema, args) ==
    LET missing == {i \in DOMAIN schema : schema[i].required /\ args[i] \in {"absent", "null"}}
        wrong == {i \in DOMAIN schema : args[i] \notin {"absent", "null"} /\ ~TypeMatches(schema[i].type, args[i])}
        first(those) == CHOOSE i \in those : \A j \in those : i <= j
    IN  IF missing # {} THEN first(missing) ELSE IF wrong # {} THEN first(wrong) ELSE 0

\* require_str and the other readers of a tool's body: what a field gives them.
ReadArgument(type, kind) == IF TypeMatches(type, kind) THEN kind ELSE "nothing"

\* A call that is let on does not fail in its body for want of an argument, nor
\* is one given that the body takes for none; and no other call is held up.
ValidationSound(schema, args) ==
    LET unread == {i \in DOMAIN schema : ReadArgument(schema[i].type, args[i]) = "nothing"
                                            /\ (schema[i].required \/ args[i] \notin {"absent", "null"})}
    IN  (Validated(schema, args) = 0) = (unread = {}) /\ Validated(schema, args) \in unread \union {0}

-----------------------------------------------------------------------------
(* unknown_tool_message. A name is a sequence of letters.                    *)

\* The rows of the table, one from the other, and the corner of the last.
Levenshtein(a, b) ==
    LET least(x, y) == IF x <= y THEN x ELSE y
        next(previous, letter, i) ==
            LET row[j \in 0 .. Len(b)] ==
                    IF j = 0 THEN i
                    ELSE least(previous[j - 1] + (IF letter = b[j] THEN 0 ELSE 1),
                               least(previous[j] + 1, row[j - 1] + 1))
            IN  row
        rows[i \in 0 .. Len(a)] == IF i = 0 THEN [j \in 0 .. Len(b) |-> j] ELSE next(rows[i - 1], a[i], i)
    IN  rows[Len(a)][Len(b)]

\* The synonym, if that tool is there, or else the nearest name within two
\* edits, the first of equals; <<>> for none.
Suggestion(name, available, synonym) ==
    LET near == SelectSeq(available, LAMBDA tool : Levenshtein(name, tool) <= 2)
        nearest == {i \in DOMAIN near : \A k \in DOMAIN near : Levenshtein(name, near[i]) <= Levenshtein(name, near[k])}
    IN  IF synonym \in ToSet(available) THEN synonym
        ELSE IF near = <<>> THEN <<>>
        ELSE near[CHOOSE i \in nearest : \A k \in nearest : i <= k]

\* What one edit makes of a name.
Edits(name) ==
    {RemoveAt(name, i) : i \in DOMAIN name}
        \union {InsertAt(name, i, letter) : i \in 1 .. Len(name) + 1, letter \in {"x", "y"}}
        \union {[name EXCEPT ![i] = letter] : i \in DOMAIN name, letter \in {"x", "y"}}

\* A suggestion is a tool there is, and one that as few edits make of the name
\* as of any other tool.
SuggestionSound(name, available, synonym) ==
    LET meant == Suggestion(name, available, synonym)
        once == {name} \union Edits(name)
        twice == UNION {Edits(n) : n \in once} \union once
        tools == ToSet(available)
    IN  /\ meant # <<>> => meant \in tools
        /\ synonym \notin tools =>
              /\ meant = <<>> <=> tools \intersect twice = {}
              /\ tools \intersect once # {} => meant \in once
              /\ name \in tools => meant = name
=============================================================================
