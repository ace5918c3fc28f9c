------------------------------- MODULE Usage --------------------------------
(* The counts of tokens: from the requests of the agent's turns              *)
(* (run_turn_inner) to the gauge of the context, the preview of the request  *)
(* in flight and the session's totals (state.rs, usage_popup.rs), and the    *)
(* footer in which they are drawn.                                           *)
(*                                                                           *)
(* An agent's event is folded in the step that emits it: what the agent does *)
(* meanwhile does not change the counts of the events before.  A request is  *)
(* one of run_turn_inner, with its retries.                                  *)
EXTENDS Integers, Sequences, SequencesExt, FiniteSets

CONSTANTS
    Servers,            \* names of providers
    PromptSizes,        \* estimates and reports of a prompt's size
    ChunkLength,        \* characters of a chunk
    MaxChunksSaid,      \* bound on the chunks of a request
    MaxRequests         \* bound on the requests

ASSUME UsageAssumption ==
    /\ PromptSizes \subseteq Nat \ {0}
    /\ {ChunkLength, MaxChunksSaid, MaxRequests} \subseteq Nat

VARIABLES
    gauge,              \* context: the size that is shown, with the budget
    preview,            \* live_turn
    spent,              \* session_usage
    server,             \* provider_name
    asked,              \* the request in flight, as the agent knows it
    due,                \* what servers have said of the requests that ended
    requests,           \* how many there were
    overlooked          \* what was not settled: a "prompt" by /clear, /model or the next
                        \* request, a "completion" by Esc

usageVars == <<gauge, preview, spent, server, asked, due, requests, overlooked>>

Hidden == [shown |-> FALSE, used |-> 0]
NoPreview == [armed |-> FALSE, prompt |-> 0, chars |-> 0]
NothingSpent == [sent |-> 0, received |-> 0]
NotAsked == [flies |-> FALSE, told |-> 0, usage |-> 0, chars |-> 0]

Plus(usage, sent, received) == [sent |-> usage.sent + sent, received |-> usage.received + received]
AtLeast(m, n) == IF m >= n THEN m ELSE n

UsageInit ==
    /\ gauge = Hidden /\ preview = NoPreview /\ asked = NotAsked
    /\ spent = [s \in Servers |-> NothingSpent] /\ due = spent
    /\ server \in Servers
    /\ requests = 0 /\ overlooked = {}

-----------------------------------------------------------------------------
(* The events of apply_event that count.                                     *)

\* ContextUsage: the size of the request that is about to be sent.
ContextUsage(used) == gauge' = [shown |-> TRUE, used |-> used] /\ preview' = NoPreview

\* PromptTokens.
PromptTokens(n) ==
    /\ preview' = [preview EXCEPT !.armed = TRUE, !.prompt = n]
    /\ gauge' = IF gauge.shown THEN [gauge EXCEPT !.used = AtLeast(n, @)] ELSE gauge

\* StreamChunk.
StreamChunk(length) ==
    preview' = IF preview.armed THEN [preview EXCEPT !.chars = @ + length] ELSE preview

\* TokenUsage.
TokenUsage(prompt, completion) ==
    /\ gauge' = [shown |-> TRUE, used |-> AtLeast(prompt, gauge.used)]
    /\ spent' = [spent EXCEPT ![server] = Plus(@, prompt, completion)]
    /\ preview' = NoPreview

\* settle_live_turn, at Done, Error and Interrupted.
Settle ==
    /\ spent' = IF preview.armed THEN [spent EXCEPT ![server] = Plus(@, preview.prompt, preview.chars \div 4)]
                ELSE spent
    /\ preview' = NoPreview
    /\ UNCHANGED gauge

-----------------------------------------------------------------------------
(* The agent.                                                                *)

Estimate == IF asked.told # 0 THEN asked.chars \div 4 ELSE 0
Overlook(is, part) == overlooked' = IF is THEN overlooked \union {part} ELSE overlooked
Owe(sent, received) == due' = [due EXCEPT ![server] = Plus(@, sent, received)]

\* A turn's next request.
Ask(estimate) ==
    /\ ~asked.flies /\ requests < MaxRequests
    /\ ContextUsage(estimate)
    /\ asked' = [NotAsked EXCEPT !.flies = TRUE] /\ requests' = requests + 1
    /\ Overlook(preview.armed, "prompt")
    /\ UNCHANGED <<spent, server, due>>

\* A server that reports the size of the prompt does so first.
Announce(n) ==
    /\ asked.flies /\ asked.usage = 0 /\ asked.chars = 0
    /\ PromptTokens(n)
    /\ asked' = [asked EXCEPT !.usage = n, !.told = n]
    /\ UNCHANGED <<spent, server, due, requests, overlooked>>

Speak ==
    /\ asked.flies /\ asked.chars < ChunkLength * MaxChunksSaid
    /\ StreamChunk(ChunkLength)
    /\ asked' = [asked EXCEPT !.chars = @ + ChunkLength]
    /\ UNCHANGED <<gauge, spent, server, due, requests, overlooked>>

\* 'retry: an attempt that failed before anything was shown leaves no counts.
RetryRequest ==
    /\ asked.flies /\ asked.chars = 0 /\ asked.usage # 0
    /\ asked' = [asked EXCEPT !.usage = 0]
    /\ UNCHANGED <<gauge, preview, spent, server, due, requests, overlooked>>

\* The stream ends with its counts.
Counted(prompt, completion) ==
    /\ asked.flies /\ asked' = NotAsked
    /\ TokenUsage(prompt, completion) /\ Owe(prompt, completion)
    /\ UNCHANGED <<server, requests, overlooked>>

\* The stream ends without.
Uncounted ==
    /\ asked.flies /\ asked.usage = 0 /\ asked' = NotAsked
    /\ Owe(asked.told, Estimate)
    /\ UNCHANGED <<gauge, preview, spent, server, requests, overlooked>>

\* Esc: the counts of the preview, without what was streamed, are taken for the
\* counts; or Interrupted settles.
InterruptRequest ==
    /\ asked.flies /\ asked' = NotAsked
    /\ IF asked.usage # 0 THEN TokenUsage(asked.usage, 0) ELSE Settle
    /\ Owe(asked.told, Estimate)
    /\ Overlook(asked.usage # 0 /\ Estimate # 0, "completion")
    /\ UNCHANGED <<server, requests>>

\* Error, after which nothing is retried.
Fail ==
    /\ asked.flies /\ asked' = NotAsked
    /\ Settle /\ Owe(asked.told, Estimate)
    /\ UNCHANGED <<server, requests, overlooked>>

Done ==
    /\ ~asked.flies /\ preview.armed
    /\ Settle
    /\ UNCHANGED <<server, asked, due, requests, overlooked>>

-----------------------------------------------------------------------------
(* The user.                                                                 *)

\* clear_transcript, of /clear and of a compaction: the turn goes on.
ClearUsage ==
    /\ gauge.shown
    /\ gauge' = Hidden /\ preview' = NoPreview
    /\ Overlook(preview.armed, "prompt")
    /\ UNCHANGED <<spent, server, asked, due, requests>>

\* /model: the events of the agent that is replaced are not read any more.
SwitchModel ==
    /\ server' \in Servers \ {server}
    /\ gauge' = Hidden /\ preview' = NoPreview /\ asked' = NotAsked
    /\ Overlook(asked.flies \/ preview.armed, "prompt")
    /\ UNCHANGED <<spent, due, requests>>

UsageNext ==
    \/ \E n \in PromptSizes : Ask(n) \/ Announce(n) \/ Counted(n, 1)
    \/ Speak \/ RetryRequest \/ Uncounted \/ InterruptRequest \/ Fail \/ Done
    \/ ClearUsage \/ SwitchModel

-----------------------------------------------------------------------------
(* What is shown.                                                            *)

\* active_session_total, of the footer.
SessionTotal == spent[server].sent + spent[server].received

\* lines of the popup: a row for each provider, and their sum.
PopupRows == {s \in Servers : spent[s] # NothingSpent}
PopupTotal == FoldLeft(LAMBDA n, s : n + spent[s].sent + spent[s].received, 0, SetToSeq(PopupRows))

\* However requests end, what is shown of them is what the servers said, each
\* request's prompt counted once and for its own provider: never more, and nothing
\* less unless a preview was dropped unsettled or, of what was streamed, Esc was
\* pressed; the footer's total is one of those
\* that the popup adds up; and the gauge is never below the prompt in flight.
UsageTrue ==
    LET behind(s) == due[s].sent - spent[s].sent
        ends == ~asked.flies /\ ~preview.armed
    IN  /\ \A s \in Servers : spent[s].sent <= due[s].sent /\ spent[s].received <= due[s].received
        /\ overlooked = {} /\ ends => spent = due
        /\ "prompt" \notin overlooked =>
              \A s \in Servers : behind(s) = 0 \/ (s = server /\ preview.armed)
        /\ PopupTotal >= SessionTotal /\ (SessionTotal > 0 => server \in PopupRows)
        /\ gauge.shown /\ preview.armed => gauge.used >= preview.prompt

-----------------------------------------------------------------------------
(* The footer.  A hint is the widths of its key and its label.               *)

HintWidth(hint) == hint[1] + hint[2] + (IF hint[1] = 0 \/ hint[2] = 0 THEN 0 ELSE 1)

\* The width of a blank and n hints with " · " between them.
HintsWidth(hints, n) ==
    1 + FoldLeft(LAMBDA w, hint : w + HintWidth(hint), 0, SubSeq(hints, 1, n)) + (IF n > 1 THEN 3 * (n - 1) ELSE 0)

\* line: how many hints are drawn.
HintsDrawn(hints, width) ==
    CHOOSE n \in 0 .. Len(hints) :
        /\ \A m \in 1 .. n : HintsWidth(hints, m) <= width
        /\ n < Len(hints) => HintsWidth(hints, n + 1) > width

\* render_with_usage: the columns of the hints, and where the total begins.
FooterColumns(width, column, label, least) ==
    IF label > 0 /\ column >= label + 1 + least
    THEN [hints |-> column - (label + 1), total |-> column - (label + 1)]
    ELSE [hints |-> width, total |-> width]

\* The footer never wraps, drops hints from the right only and none that would
\* fit, and the total stays clear of the hints and inside its column.
FooterSound(hints, width, column, label, least) ==
    LET at == FooterColumns(width, column, label, least)
        n == HintsDrawn(hints, at.hints)
    IN  column <= width =>
          /\ HintsWidth(hints, n) <= AtLeast(at.hints, 1)
          /\ \A m \in n + 1 .. Len(hints) : HintsWidth(hints, m) > at.hints
          /\ at.total < width => at.hints >= least /\ at.total + label < column
=============================================================================
