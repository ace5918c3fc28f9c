------------------------------ MODULE Streams ------------------------------
(***************************************************************************)
(* How a model's reply is read off the wire: the line splitter, the three  *)
(* transports' streams and the parsing of what weaker models write, in     *)
(* crates/suis-providers/src/transport, and the agent's ThinkSplitter.     *)
(*                                                                         *)
(* Each reader is a function of what arrives; the predicates compare what  *)
(* it delivers with what was sent, over every way the wire may cut it.     *)
(***************************************************************************)
EXTENDS Integers, Sequences, FiniteSets, SequencesExt

CONSTANT Absent

-----------------------------------------------------------------------------
(* lines_from.  A chunk is a sequence of bytes; "lead" and "tail" are the   *)
(* two bytes of one character.                                             *)

CutsCharacter(chunk) ==
    \E i \in DOMAIN chunk :
        \/ chunk[i] = "lead" /\ (i = Len(chunk) \/ chunk[i + 1] # "tail")
        \/ chunk[i] = "tail" /\ (i = 1 \/ chunk[i - 1] # "lead")

NotEnd(t) == t \notin {"nl", "cr"}

\* A line without returns and newlines at its ends.
Trimmed(line) ==
    LET kept == {i \in DOMAIN line : NotEnd(line[i])}
    IN IF kept = {} THEN <<>> ELSE SubSeq(line, Min(kept), Max(kept))

\* The complete lines of a buffer that are not empty, and what is left of it.
Drain(buf) ==
    LET ends == SelectSeq([i \in DOMAIN buf |-> i], LAMBDA i : buf[i] = "nl")
        line(k) == SubSeq(buf, IF k = 1 THEN 1 ELSE ends[k - 1] + 1, ends[k])
    IN [lines |-> SelectSeq([k \in DOMAIN ends |-> Trimmed(line(k))], LAMBDA l : l # <<>>),
        rest |-> IF ends = <<>> THEN buf ELSE SubSeq(buf, Last(ends) + 1, Len(buf))]

\* The lines that come of some chunks, and whether they came to an end: a chunk
\* that is not text by itself is an error.
LinesFrom(chunks) ==
    LET fed(st, chunk) ==
            IF ~st.ok THEN st
            ELSE IF CutsCharacter(chunk) THEN [st EXCEPT !.ok = FALSE]
            ELSE LET d == Drain(st.buf \o chunk)
                 IN [ok |-> TRUE, buf |-> d.rest, lines |-> st.lines \o d.lines]
        all == FoldLeft(fed, [ok |-> TRUE, buf |-> <<>>, lines |-> <<>>], chunks)
        last == Trimmed(all.buf)
    IN [ok |-> all.ok,
        lines |-> all.lines \o (IF all.ok /\ last # <<>> THEN <<last>> ELSE <<>>)]

\* Lines do not depend on how the body arrives, as long as no chunk ends inside
\* a character; they carry every character of the body but the line ends.
LinesSound(bytes, cut1, cut2) ==
    LET pieces == <<SubSeq(bytes, 1, cut1), SubSeq(bytes, cut1 + 1, cut2),
                    SubSeq(bytes, cut2 + 1, Len(bytes))>>
        r == LinesFrom(pieces)
    IN (\A k \in 1 .. 3 : ~CutsCharacter(pieces[k])) =>
          /\ r.ok /\ r = LinesFrom(<<bytes>>)
          /\ SelectSeq(FlattenSeq(r.lines), NotEnd) = SelectSeq(bytes, NotEnd)
          /\ \A k \in DOMAIN r.lines : \E i \in DOMAIN r.lines[k] : NotEnd(r.lines[k][i])

-----------------------------------------------------------------------------
(* The streams.  An event is what one line of a body says:                 *)
(*   text      a piece of the answer                                       *)
(*   thinking  a piece of the reasoning                                    *)
(*   open      call number `index` begins, with its id and name            *)
(*   args      a piece of the arguments of call `index`                    *)
(*   usage     token counts                                                *)
(*   finish    the model has ended its turn (OpenAI's finish_reason)        *)
(*   stop      the end mark: [DONE], message_stop, Ollama's done           *)
(*   other     a line that says nothing to the reader                      *)
(*   bad       a line that does not parse                                  *)
(* A piece is named by its position; the stream ends after the last event.  *)

Chunk(text, calls, done, usage) ==
    [text |-> text, reasoning |-> <<>>, calls |-> calls, done |-> done, usage |-> usage, error |-> FALSE]
Thought(piece) == [Chunk(<<>>, <<>>, FALSE, Absent) EXCEPT !.reasoning = <<piece>>]
Failure == [Chunk(<<>>, <<>>, FALSE, Absent) EXCEPT !.error = TRUE]

\* A call without an id gets one of its number.
Synthesised(n) == <<"call", n>>
IdOr(id, n) == IF id = Absent THEN Synthesised(n) ELSE id

Indices == 0 .. 2
NoSlot == [id |-> Absent, named |-> FALSE, args |-> <<>>]

Reading == [out |-> <<>>, slots |-> [i \in Indices |-> NoSlot], usage |-> Absent,
            finished |-> FALSE, ended |-> FALSE]

Emit(st, chunk) == [st EXCEPT !.out = Append(@, chunk)]

\* The calls begun so far, in the order of their indices.
Assembled(st) ==
    LET used == SelectSeq([k \in 1 .. Cardinality(Indices) |-> k - 1],
                          LAMBDA i : st.slots[i].named)
    IN [k \in DOMAIN used |-> [index |-> used[k], id |-> IdOr(st.slots[used[k]].id, used[k]),
                               args |-> st.slots[used[k]].args]]

Terminal(st) == [Emit(st, Chunk(<<>>, Assembled(st), TRUE, st.usage)) EXCEPT !.ended = TRUE]
Fail(st) == [Emit(st, Failure) EXCEPT !.ended = TRUE]

\* Fault: pieces of arguments go to the call opened last.
AccumulateLatest(st, e) ==
    LET open == {i \in Indices : st.slots[i].named}
        i == IF open = {} THEN 0 ELSE Max(open)
    IN [st EXCEPT !.slots[i].args = Append(@, e.piece)]

\* A piece of the arguments of a call.
AccumulateArgs(st, e) == [st EXCEPT !.slots[e.index].args = Append(@, e.piece)]

\* OpenAI: fragments gather in slots by index; the end mark, which comes after the
\* usage, or else the end of the body sends the calls off.
OpenAiReads(st, e) ==
    CASE st.ended         -> st
      [] e.kind = "text"   -> Emit(st, Chunk(<<e.piece>>, <<>>, FALSE, Absent))
      [] e.kind = "thinking" -> Emit(st, Thought(e.piece))
      [] e.kind = "open"   -> [st EXCEPT !.slots[e.index].named = TRUE,
                                         !.slots[e.index].id = e.id]
      [] e.kind = "args"   -> AccumulateArgs(st, e)
      [] e.kind = "usage"  -> [st EXCEPT !.usage = e.piece]
      [] e.kind = "finish" -> [st EXCEPT !.finished = TRUE]
      [] e.kind = "stop"   -> Terminal(st)
      [] e.kind = "bad"    -> Fail(st)
      [] OTHER             -> st

OpenAiStream(events) ==
    LET st == FoldLeft(OpenAiReads, Reading, events)
    IN IF st.ended \/ (Assembled(st) = <<>> /\ st.usage = Absent /\ ~st.finished) THEN st.out
       ELSE Terminal(st).out

\* Anthropic: a piece counts only once its block has been opened.  A line that
\* does not parse is an error, after which the stream could be read on.
AnthropicReads(st, e) ==
    CASE st.ended         -> st
      [] e.kind = "text"   -> Emit(st, Chunk(<<e.piece>>, <<>>, FALSE, Absent))
      [] e.kind = "thinking" -> Emit(st, Thought(e.piece))
      [] e.kind = "open"   -> [st EXCEPT !.slots[e.index] =
                                   [id |-> e.id, named |-> TRUE, args |-> <<>>]]
      [] e.kind = "args"   -> IF st.slots[e.index].named THEN AccumulateArgs(st, e) ELSE st
      [] e.kind = "usage"  -> IF st.usage = Absent      \* message_start: a preview
                              THEN [Emit(st, Chunk(<<>>, <<>>, FALSE, e.piece))
                                        EXCEPT !.usage = e.piece]
                              ELSE [st EXCEPT !.usage = e.piece]
      [] e.kind = "stop"   -> Terminal(st)
      [] e.kind = "bad"    -> Emit(st, Failure)
      [] OTHER             -> st

AnthropicStream(events) ==
    LET st == FoldLeft(AnthropicReads, Reading, events)
    IN IF st.ended THEN st.out ELSE Terminal(st).out

\* Ollama: every line is a chunk, and a call comes whole in one line.  The calls of
\* a line are numbered anew: those of different lines have the same id.
OllamaReads(st, e) ==
    CASE e.kind = "text"  -> Emit(st, Chunk(<<e.piece>>, <<>>, FALSE, Absent))
      [] e.kind = "thinking" -> Emit(st, Thought(e.piece))
      [] e.kind = "open"  -> Emit(st, Chunk(<<>>, <<[index |-> e.index, id |-> Synthesised(0), args |-> e.args]>>,
                                            FALSE, Absent))
      [] e.kind = "stop"  -> Emit(st, Chunk(<<>>, <<>>, TRUE, e.piece))
      [] e.kind = "bad"   -> Emit(st, Failure)
      [] OTHER            -> Emit(st, Chunk(<<>>, <<>>, FALSE, Absent))

OllamaStream(events) == FoldLeft(OllamaReads, Reading, events).out

Stream(wire, events) ==
    CASE wire = "openai" -> OpenAiStream(events)
      [] wire = "anthropic" -> AnthropicStream(events)
      [] wire = "ollama" -> OllamaStream(events)

\* What the agent makes of the chunks up to an error or the end.
Received(chunks) ==
    LET errors == {k \in DOMAIN chunks : chunks[k].error}
        good == IF errors = {} THEN chunks ELSE SubSeq(chunks, 1, Min(errors) - 1)
        counted == {k \in DOMAIN good : good[k].usage # Absent}
    IN [text |-> FlattenSeq([k \in DOMAIN good |-> good[k].text]),
        reasoning |-> FlattenSeq([k \in DOMAIN good |-> good[k].reasoning]),
        calls |-> FlattenSeq([k \in DOMAIN good |-> good[k].calls]),
        usage |-> IF counted = {} THEN Absent ELSE good[Max(counted)].usage,
        ok |-> errors = {}]

\* A stream a server may send: a call is opened once, before its arguments; one
\* of Ollama's carries them itself; nothing follows the end mark.
WellFormed(wire, events) ==
    \A i \in DOMAIN events :
        /\ events[i].kind = "args" =>
              /\ wire # "ollama"
              /\ \E j \in 1 .. (i - 1) :
                    events[j].kind = "open" /\ events[j].index = events[i].index
        /\ events[i].kind = "open" =>
              ~\E j \in 1 .. (i - 1) : events[j].kind = "open" /\ events[j].index >= events[i].index
        /\ (wire = "ollama" /\ events[i].kind \in {"usage", "finish"}) => FALSE
        /\ events[i].kind = "stop" => i = Len(events)

\* The pieces of one kind that arrive before any line that does not parse.
Sent(events, kind, index) ==
    LET bad == {i \in DOMAIN events : events[i].kind = "bad"}
        heard == IF bad = {} THEN events ELSE SubSeq(events, 1, Min(bad) - 1)
        ofKind == SelectSeq(heard, LAMBDA e : e.kind = kind /\ e.index = index)
    IN [k \in DOMAIN ofKind |-> ofKind[k].piece]

\* Whatever the order in which pieces of several calls, text, reasoning and counts
\* arrive, and wherever the stream is cut off, the agent receives text and reasoning
\* in order and, if no error came, every call that was begun with the arguments sent so far, in
\* their order, and the last counts; at most one chunk is the last, and none
\* comes after it.
StreamSound(wire, events) ==
    LET chunks == Stream(wire, events)
        got == Received(chunks)
        begun == {i \in Indices : Sent(events, "open", i) # <<>>}
    IN WellFormed(wire, events) =>
          /\ got.ok = (\A i \in DOMAIN events : events[i].kind # "bad")
          /\ got.text = Sent(events, "text", 0) /\ got.reasoning = Sent(events, "thinking", 0)
          /\ got.ok =>
               /\ {got.calls[k].index : k \in DOMAIN got.calls} = begun
               /\ Len(got.calls) = Cardinality(begun)
               /\ \A k \in DOMAIN got.calls :
                     /\ got.calls[k].args = Sent(events, "args", got.calls[k].index)
                     /\ k > 1 => got.calls[k - 1].index < got.calls[k].index
               /\ Sent(events, "usage", 0) # <<>> => got.usage = Last(Sent(events, "usage", 0))
          /\ \A k \in DOMAIN chunks : (chunks[k].done /\ got.ok) => k = Len(chunks)

-----------------------------------------------------------------------------
(* A reply read whole (chat, parse_full and parse_line) and as a stream.  A  *)
(* part is [kind, id, pieces]: a "text", a "thinking" or an "other" block, or *)
(* a "call" with the pieces of its arguments.                                *)

PlacesOf(parts, kind) == SelectSeq([i \in DOMAIN parts |-> i], LAMBDA i : parts[i].kind = kind)
PiecesOf(parts, i) == [k \in 1 .. parts[i].pieces |-> <<i, k>>]

\* What a whole reply says, with the calls' ids as they are given.
Whole(reply, reasoning, ids) ==
    LET places == PlacesOf(reply.parts, "call")
    IN  [text |-> PlacesOf(reply.parts, "text"), reasoning |-> reasoning, usage |-> reply.usage, ok |-> TRUE,
         calls |-> [k \in DOMAIN places |->
                       [index |-> k - 1, args |-> PiecesOf(reply.parts, places[k]), id |-> IdOr(ids[places[k]], k - 1)]]]

GivenIds(reply) == [i \in DOMAIN reply.parts |-> reply.parts[i].id]

\* A reply of OpenAI's may come without a choice.
OpenAiFull(reply) == [Whole(reply, <<>>, GivenIds(reply)) EXCEPT !.ok = reply.parts # <<>>]

AnthropicFull(reply) == Whole(reply, <<>>, GivenIds(reply))

\* Ollama alone keeps the reasoning, and it takes no ids.
OllamaFull(reply) ==
    Whole(reply, PlacesOf(reply.parts, "thinking"), [i \in DOMAIN reply.parts |-> Absent])

ParseFull(wire, reply) ==
    CASE wire = "openai" -> OpenAiFull(reply)
      [] wire = "anthropic" -> AnthropicFull(reply)
      [] wire = "ollama" -> OllamaFull(reply)

\* How the server sends the same reply in pieces: OpenAI numbers the calls, Anthropic
\* the blocks, and Ollama has the counts in its last line.
EventsOf(wire, reply) ==
    LET parts == reply.parts
        event(kind, index, piece) == [kind |-> kind, index |-> index, piece |-> piece, id |-> Absent, args |-> <<>>]
        number(i) == IF wire = "anthropic" THEN i - 1
                     ELSE Len(SelectSeq(SubSeq(parts, 1, i - 1), LAMBDA part : part.kind = "call"))
        opened(i) == [event("open", number(i), i) EXCEPT
                         !.id = parts[i].id, !.args = IF wire = "ollama" THEN PiecesOf(parts, i) ELSE <<>>]
        pieces(i) == IF wire = "ollama" THEN <<>>
                     ELSE [k \in 1 .. parts[i].pieces |-> event("args", number(i), <<i, k>>)]
        of(i) == IF parts[i].kind = "call" THEN <<opened(i)>> \o pieces(i)
                 ELSE <<event(parts[i].kind, 0, i)>>
        counts == IF wire = "ollama" \/ reply.usage = Absent THEN <<>> ELSE <<event("usage", 0, reply.usage)>>
    IN  FlattenSeq([i \in DOMAIN parts |-> of(i)]) \o counts
            \o <<event("stop", 0, IF wire = "ollama" THEN reply.usage ELSE Absent)>>

\* A reply says the same read whole and read as a stream, but for the reasoning,
\* which two of the wires keep only of a stream, an OpenAI reply without a choice
\* and ids that are made up; and no two of its calls have the same id, by which
\* their results are told apart, but those that Ollama streams in several lines.
WholeSound(wire, reply) ==
    LET whole == ParseFull(wire, reply)
        got == Received(Stream(wire, EventsOf(wire, reply)))
        calls == PlacesOf(reply.parts, "call")
        told(r) == {r.calls[k].id : k \in DOMAIN r.calls}
        kept(r) == [k \in DOMAIN r.calls |-> r.calls[k].args]
    IN  /\ got.ok /\ (whole.ok \/ (wire = "openai" /\ reply.parts = <<>>))
        /\ whole.text = got.text /\ whole.usage = got.usage /\ kept(whole) = kept(got)
        /\ got.reasoning = PlacesOf(reply.parts, "thinking")
        /\ wire = "ollama" => whole.reasoning = got.reasoning
        /\ \A k \in DOMAIN calls : LET id == reply.parts[calls[k]].id IN
              wire # "ollama" /\ id # Absent => whole.calls[k].id = id /\ got.calls[k].id = id
        /\ Cardinality(told(whole)) = Len(calls)
        /\ Cardinality(told(got)) = IF wire = "ollama" THEN Min({1, Len(calls)}) ELSE Len(calls)

-----------------------------------------------------------------------------
(* ThinkSplitter.  The tags are shortened; like the real ones they share    *)
(* their first character, which neither has anywhere else.                 *)

OpenTag == <<"<", "o">>
CloseTag == <<"<", "c", ">">>

FindTag(buf, tag) ==
    {p \in 1 .. (Len(buf) - Len(tag) + 1) : SubSeq(buf, p, p + Len(tag) - 1) = tag}

\* partial_prefix_len: the longest end of the text that may begin a tag.
PartialPrefix(buf, tag) ==
    Max({0} \union {n \in 1 .. Min({Len(tag) - 1, Len(buf)}) :
                        SubSeq(buf, Len(buf) - n + 1, Len(buf)) = SubSeq(tag, 1, n)})

RECURSIVE SplitBuffer(_, _)
\* The loop of push, over what was held back and the new chunk.
SplitBuffer(st, buf) ==
    LET tag == IF st.inside THEN CloseTag ELSE OpenTag
        found == FindTag(buf, tag)
        upTo == IF found # {} THEN Min(found) - 1 ELSE Len(buf) - PartialPrefix(buf, tag)
        said == SubSeq(buf, 1, upTo)
        after == [st EXCEPT !.answer = IF st.inside THEN @ ELSE @ \o said,
                            !.reasoning = IF st.inside THEN @ \o said ELSE @]
    IN IF found # {}
       THEN SplitBuffer([after EXCEPT !.inside = ~@],
                        SubSeq(buf, upTo + Len(tag) + 1, Len(buf)))
       ELSE [after EXCEPT !.pending = SubSeq(buf, upTo + 1, Len(buf))]

Push(st, chunk) == SplitBuffer([st EXCEPT !.pending = <<>>], st.pending \o chunk)

FlushPending(st) ==
    [st EXCEPT !.pending = <<>>,
               !.answer = IF st.inside THEN @ ELSE @ \o st.pending,
               !.reasoning = IF st.inside THEN @ \o st.pending ELSE @]

SplitThinking(chunks) ==
    FlushPending(FoldLeft(Push, [inside |-> FALSE, pending |-> <<>>, answer |-> <<>>,
                                 reasoning |-> <<>>], chunks))

\* Answer and reasoning do not depend on how the text is cut into chunks, and
\* nothing but tags is lost.
ThinkingSound(text, cut) ==
    LET whole == SplitThinking(<<text>>)
        halves == SplitThinking(<<SubSeq(text, 1, cut), SubSeq(text, cut + 1, Len(text))>>)
        singly == SplitThinking([i \in DOMAIN text |-> <<text[i]>>])
        tags == Cardinality(FindTag(text, OpenTag))
    IN /\ halves = whole /\ singly = whole
       /\ tags = 0 => whole.answer = text
       /\ Len(whole.answer) + Len(whole.reasoning) + Len(OpenTag) * tags
            + Len(CloseTag) * Cardinality(FindTag(text, CloseTag)) >= Len(text)

-----------------------------------------------------------------------------
(* parse_text_tool_calls.  A content is a sequence of tokens: the tags and   *)
(* fences, a call object ("call"), one without arguments ("bare") and prose. *)

\* The blocks from an opening token to the next closing one, left to right.
RECURSIVE BlocksFrom(_, _, _, _)
BlocksFrom(content, open, close, from) ==
    LET starts == {i \in from .. Len(content) : content[i] = open}
        ends == {i \in (Min(starts) + 1) .. Len(content) : content[i] = close}
    IN IF starts = {} THEN {}
       ELSE IF ends = {} THEN {}
       ELSE {<<Min(starts), Min(ends)>>} \union BlocksFrom(content, open, close, Min(ends) + 1)

\* Blocks that hold nothing but a call: a fenced one must have arguments.
CallSpans(content) ==
    LET holds(b, kinds) == b[2] = b[1] + 2 /\ content[b[1] + 1] \in kinds
        tagged == {b \in BlocksFrom(content, "open", "close", 1) : holds(b, {"call", "bare"})}
        fenced == {b \in BlocksFrom(content, "fence", "fence", 1) : holds(b, {"call"})}
    IN IF tagged \union fenced # {} THEN tagged \union fenced
       ELSE IF content = <<"call">> THEN {<<1, 1>>} ELSE {}

\* The spans that no earlier kept one overlaps: no two blocks that hold a call do.
TextCalls(content) ==
    LET spans == SetToSortSeq(CallSpans(content), LAMBDA a, b : a[1] < b[1])
        inSpan(i) == \E k \in DOMAIN spans : spans[k][1] <= i /\ i <= spans[k][2]
    IN [calls |-> [k \in DOMAIN spans |-> (spans[k][1] + spans[k][2]) \div 2],
        cleaned |-> SelectSeq([i \in DOMAIN content |-> i], LAMBDA i : ~inSpan(i))]

\* Each recovered call is one object of the text, in the text's order, gone from
\* the prose; every other word stays; and a call in a block of its own is found
\* wherever the block does not begin inside another one.
TextCallsSound(content) ==
    LET r == TextCalls(content)
        gone == DOMAIN content \ {r.cleaned[k] : k \in DOMAIN r.cleaned}
    IN /\ \A k \in DOMAIN r.calls :
             /\ content[r.calls[k]] \in {"call", "bare"} /\ r.calls[k] \in gone
             /\ k > 1 => r.calls[k - 1] < r.calls[k]
       /\ \A i \in gone : content[i] = "prose" => FALSE
       /\ Cardinality({i \in gone : content[i] \in {"call", "bare"}}) = Len(r.calls)
       /\ \A i \in 2 .. (Len(content) - 1) :
             (/\ content[i - 1] = "open" /\ content[i] = "call" /\ content[i + 1] = "close"
              /\ \A j \in 1 .. (i - 2) : content[j] # "open")
                => \E k \in DOMAIN r.calls : r.calls[k] = i
=============================================================================
