------------------------------- MODULE Console -------------------------------
(* The terminal side of a session: which popup or screen takes a key, what *)
(* the chat screen draws on top, and how the agent's events are folded     *)
(* into the transcript while the user types, clears, compacts, changes     *)
(* model and answers prompts.                                              *)
(*                                                                         *)
(* One step is one key, one event taken off the channel, or one burst of   *)
(* events the agent emits between two points where it waits. Every text    *)
(* chunk, reasoning chunk and tool call the agent emits has a number of    *)
(* its own (serial), so the transcript can be compared with what was said. *)
EXTENDS Integers, Sequences, SequencesExt

CONSTANTS
    MaxSerial,      \* chunks and calls the agent emits, all sessions together
    MaxLines,       \* messages, notices, clears and popups the user causes
    MaxTogether,    \* the two together
    MaxSelects,     \* models picked
    MaxChunks,      \* chunks of one model response
    MaxBatch,       \* tool calls of one model response
    MaxLag,         \* events waiting in the channel when the agent emits more
    Nil

ASSUME ConsoleBounds == {MaxSerial, MaxLines, MaxTogether, MaxSelects, MaxChunks, MaxBatch, MaxLag} \subseteq Nat

VARIABLES
    onScreen, popups,             \* the screen, and the popups that are open
    busy, interrupting,         \* the UI's view of the turn
    implement, tasks, prompted, \* implementation session, its tasks, prompts offered
    transcript,                 \* the messages of the chat screen
    inbox, events, pressed,     \* the bridge: messages, AgentEvents, the interrupt signal
    agent,                      \* where the agent is in its turn
    serial, lines, selects,     \* bounds
    heard, running, broken      \* ghosts, see Fold, Spoken and ClearTranscript

bridgeVars == <<inbox, events, pressed, agent>>
sessionVars == <<busy, interrupting, implement, tasks, prompted>>
ghosts == <<heard, running, broken>>
consoleVars == <<onScreen, popups, sessionVars, transcript, bridgeVars, serial, lines, selects, ghosts>>

-----------------------------------------------------------------------------
(* Popups. KeyOrder is handle_key's order, DrawnOver the order of the chat *)
(* screen's render, bottom first.                                          *)

\* Fault: the confirmation takes the key before the permission prompt.
KeyOrderLatePrompt ==
    <<"notice", "plan", "confirm", "permission", "verify", "next", "caps", "probing", "usage">>
KeyOrder == <<"notice", "permission", "plan", "confirm", "verify", "next", "caps", "probing", "usage">>

\* Where in an order the popups stand that are open.
OpenOf(order) == {i \in DOMAIN order : order[i] \in popups}
FirstOpen(order) == IF OpenOf(order) = {} THEN "none" ELSE order[Min(OpenOf(order))]

\* handle_key: the popup that takes the next key, "none" when the screen does.
Answering == FirstOpen(KeyOrder)

\* The plan review, the confirmation and the two step prompts are drawn one
\* instead of the other, the rest over them; OnTop is drawn last.
DrawnInstead == <<"plan", "confirm", "verify", "next">>
DrawnOver == <<"permission", "usage", "notice", "caps", "probing">>
OnTop == IF OpenOf(DrawnOver) = {} THEN FirstOpen(DrawnInstead)
         ELSE DrawnOver[Max(OpenOf(DrawnOver))]

-----------------------------------------------------------------------------
(* The transcript. An entry is an agent message, a thinking block, a tool  *)
(* card, or a line of the user's or the UI's own. parts are the numbers of *)
(* what it shows; open means streaming, or a card still running.           *)

Shown(kind, parts, open) == [kind |-> kind, parts |-> parts, open |-> open, result |-> Nil]
Note == Shown("note", <<>>, FALSE)

LastIs(t, kind) == t # <<>> /\ Last(t).kind = kind /\ Last(t).open
WithLast(t, e) == Append(Front(t), e)

FinishThinking(t) ==
    IF LastIs(t, "thinking") THEN WithLast(t, [Last(t) EXCEPT !.open = FALSE]) ELSE t

\* finish_stream: a streamed message that stayed empty is dropped.
FinishStream(t) ==
    LET u == FinishThinking(t)
    IN  IF ~LastIs(u, "agent") THEN u
        ELSE IF Last(u).parts = <<>> THEN Front(u)
        ELSE WithLast(u, [Last(u) EXCEPT !.open = FALSE])

\* Fault: the chunk goes to the newest agent message, wherever it is.
AppendAnywhere(t, n) ==
    LET agents == {i \in 1 .. Len(t) : t[i].kind = "agent"}
        newest == CHOOSE i \in agents : \A j \in agents : j <= i
    IN  IF agents = {} THEN Append(t, Shown("agent", <<n>>, TRUE))
        ELSE [t EXCEPT ![newest].parts = Append(@, n), ![newest].open = TRUE]

AppendStream(t, n) ==
    LET u == FinishThinking(t)
    IN  IF LastIs(u, "agent") THEN WithLast(u, [Last(u) EXCEPT !.parts = Append(@, n)])
        ELSE Append(u, Shown("agent", <<n>>, TRUE))

AppendReasoning(t, n) ==
    IF LastIs(t, "thinking") THEN WithLast(t, [Last(t) EXCEPT !.parts = Append(@, n)])
    ELSE Append(t, Shown("thinking", <<n>>, TRUE))

RunningCards(t) == {i \in 1 .. Len(t) : t[i].kind = "card" /\ t[i].open}

\* ToolCallCompleted: the oldest running card takes the result; without one
\* the output still lands, on a card of its own.
Complete(t, n) ==
    LET cards == RunningCards(t)
        oldest == CHOOSE i \in cards : \A j \in cards : i <= j
    IN  IF cards = {} THEN Append(t, [Shown("card", <<>>, FALSE) EXCEPT !.result = n])
        ELSE [t EXCEPT ![oldest].open = FALSE, ![oldest].result = n]

\* apply_event, the part that touches the messages.
Fold(t, e) ==
    CASE e.kind = "text"       -> AppendStream(t, e.id)
      [] e.kind = "reasoning"  -> AppendReasoning(t, e.id)
      [] e.kind = "started"    -> Append(FinishStream(t), Shown("card", <<e.id>>, TRUE))
      [] e.kind = "completed"  -> Complete(FinishStream(t), e.id)
      [] e.kind = "marker"     -> Append(FinishStream(t), Note)
      [] e.kind = "retrying"   -> Append(t, Shown("note", <<e.id>>, FALSE))
      [] e.kind \in {"error", "interrupted"} -> Append(FinishStream(t), Note)
      [] e.kind = "done"       -> FinishStream(t)
      [] e.kind = "compacted"  -> <<Note>>
      [] OTHER                 -> t

-----------------------------------------------------------------------------
(* The agent. calls are the calls of the current response still to run,    *)
(* started those whose cards are open while a gate asks, outer the parent's*)
(* remaining calls while a sub-agent runs. kind says what is being run.    *)

Event(kind, id) == [kind |-> kind, id |-> id]
Bare(kinds) == [i \in DOMAIN kinds |-> Event(kinds[i], Nil)]

Idle == [at |-> "idle", kind |-> "turn", calls |-> <<>>, started |-> <<>>, outer |-> Nil]

\* The agent emits while at most MaxLag of its events wait to be applied.
Emits(seq) == Len(events) <= MaxLag /\ events' = events \o seq
Numbered(kinds) == [i \in DOMAIN kinds |-> Event(kinds[i], serial + i)]

UpTo(S, n) == UNION {[1 .. k -> S] : k \in 0 .. n}

\* The agent task takes the next message once its turn is over.
TakeMessage ==
    /\ agent.at = "idle"
    /\ inbox # <<>>
    /\ inbox' = Tail(inbox)
    /\ CASE Head(inbox) = "clear"   -> UNCHANGED <<agent, events, pressed>>
         [] Head(inbox) = "compact" ->
                /\ agent' = [Idle EXCEPT !.at = "stream", !.kind = "compact"]
                /\ pressed' = FALSE
                /\ UNCHANGED events
         [] Head(inbox) = "message" ->
                /\ agent' = [Idle EXCEPT !.at = "stream"]
                /\ pressed' = FALSE
                /\ UNCHANGED events
         [] OTHER ->        \* an implementation phase
                /\ agent' = [Idle EXCEPT !.at = "stream", !.kind = "driver"]
                /\ pressed' = FALSE
                /\ Emits(<<Event("tasks", "open")>>)
    /\ UNCHANGED <<onScreen, popups, sessionVars, transcript, serial, lines, selects, ghosts>>

\* The loop goes on with the calls it has left, or asks the model again.
Resume(a) == [a EXCEPT !.at = IF a.calls = <<>> THEN "stream" ELSE "calls"]

\* How a turn ends: a sub-agent's failure is reported on the same channel and
\* its parent goes on with the calls it had left; an interrupt unwinds both.
Ended(kind) ==
    IF agent.outer = Nil \/ kind = "interrupted" THEN Idle
    ELSE Resume([agent EXCEPT !.calls = agent.outer, !.outer = Nil])
EndEvents(kind) ==
    Bare(CASE agent.outer # Nil /\ kind = "done"        -> <<"marker">>
           [] agent.outer # Nil /\ kind = "interrupted" -> <<"interrupted", "interrupted">>
           [] agent.kind = "compact" /\ kind = "done"    -> <<"compacted">>
           [] OTHER -> <<kind>>)

\* What one response can stream: retries come before its first chunk; a
\* compaction streams the text of its summary and is not retried.
Streamed ==
    IF agent.kind = "compact" THEN UpTo({"text"}, MaxChunks)
    ELSE LET chunks(n) == UpTo({"reasoning", "text"}, n)
         IN  chunks(MaxChunks) \union {<<"retrying">> \o c : c \in chunks(MaxChunks - 1)}

Fits(spoken, added) == spoken <= MaxSerial /\ added <= MaxLines /\ spoken + added <= MaxTogether

\* The end of a response without tool calls, and the failure or the press
\* that may cut any response. A driven task that is settled is followed by
\* the next one.
FinishResponse ==
    /\ agent.at = "stream"
    /\ \E kinds \in Streamed, outcome \in {"done", "error", "interrupted"} :
          /\ Fits(serial + Len(kinds), lines)
          /\ serial' = serial + Len(kinds)
          /\ outcome = "interrupted" => pressed
          /\ \/ /\ agent' = Ended(outcome)
                /\ Emits(Numbered(kinds) \o EndEvents(outcome))
             \/ /\ agent.kind = "driver" /\ agent.outer = Nil /\ outcome = "done"
                /\ kinds # <<>>      \* a bound: a task with nothing said is the last
                /\ UNCHANGED agent
                /\ Emits(Numbered(kinds) \o Bare(<<"marker">>))
    /\ UNCHANGED <<onScreen, popups, sessionVars, transcript, inbox, pressed, lines, selects, ghosts>>

\* A task call matters to the UI only in an implementation session, and a
\* sub-agent has none of its own.
Tools == {"search", "run", "plan"} \union (IF agent.kind = "driver" THEN {"task"} ELSE {})
                                  \union (IF agent.outer = Nil THEN {"sub"} ELSE {})

\* The calls at the places of a set, in their order.
CallsAt(calls, places) ==
    [n \in 1 .. Cardinality(places) |->
        calls[CHOOSE i \in places : Cardinality({j \in places : j <= i}) = n]]
Searches(calls) == CallsAt(calls, {i \in DOMAIN calls : calls[i].kind = "search"})
Others(calls) == CallsAt(calls, {i \in DOMAIN calls : calls[i].kind # "search"})

\* A response with tool calls, and the first half of dispatch_tools: every
\* search of the batch gets its card, they are gated in order, run together,
\* and complete in order. A press skips the whole batch.
CallTools ==
    /\ agent.at = "stream" /\ agent.kind # "compact"
    /\ \E kinds \in Streamed, asks \in BOOLEAN,
          tools \in UpTo(Tools, MaxBatch) \ {<<>>} :
          LET first == serial + Len(kinds)
              calls == [i \in DOMAIN tools |-> [kind |-> tools[i], id |-> first + i, asks |-> asks]]
              batch == Searches(calls)
              opened == [i \in DOMAIN batch |-> Event("started", batch[i].id)]
              closed == [i \in DOMAIN batch |-> Event("completed", batch[i].id)]
              later == [agent EXCEPT !.calls = Others(calls)]
          IN  /\ Fits(first + Len(tools), lines)
              /\ serial' = first + Len(tools)
              /\ IF pressed
                 THEN agent' = Idle /\ Emits(Numbered(kinds) \o EndEvents("interrupted"))
                 ELSE IF batch # <<>> /\ asks
                 THEN /\ agent' = [later EXCEPT !.at = "asking", !.started = batch]
                      /\ Emits(Numbered(kinds) \o opened \o <<Event("permission", Nil)>>)
                 ELSE /\ agent' = Resume(later)
                      /\ Emits(Numbered(kinds) \o opened \o closed)
    /\ UNCHANGED <<onScreen, popups, sessionVars, transcript, inbox, pressed, lines, selects, ghosts>>

\* dispatch_tools, second half: the other calls one by one, a press looked at
\* before each. A sub-agent gets a marker instead of a card.
NextCall ==
    /\ agent.at = "calls"
    /\ LET c == Head(agent.calls)
           rest == Tail(agent.calls)
       IN  IF pressed
           THEN agent' = Idle /\ Emits(EndEvents("interrupted"))
           ELSE IF c.kind = "sub"
           THEN /\ agent' = [agent EXCEPT !.at = "stream", !.calls = <<>>, !.outer = rest]
                /\ Emits(Bare(<<"marker">>))
           ELSE IF c.kind = "plan" \/ c.asks
           THEN /\ agent' = [agent EXCEPT !.at = "asking", !.calls = rest, !.started = <<c>>]
                /\ Emits(<<Event("started", c.id),
                           Event(IF c.kind = "plan" THEN "plan" ELSE "permission", Nil)>>)
           ELSE /\ agent' = Resume([agent EXCEPT !.calls = rest])
                /\ \E t \in {"open", "worked", "done"} :
                      Emits(<<Event("started", c.id), Event("completed", c.id)>> \o
                            (IF c.kind = "task" THEN <<Event("tasks", t)>> ELSE <<>>))
    /\ UNCHANGED <<onScreen, popups, sessionVars, transcript, inbox, pressed, serial, lines, selects,
                   ghosts>>

\* The answer reached the gate: what was started completes.
Answered ==
    /\ agent' = Resume([agent EXCEPT !.started = <<>>])
    /\ Emits([i \in DOMAIN agent.started |-> Event("completed", agent.started[i].id)])

-----------------------------------------------------------------------------
(* The UI's own steps on the transcript and the session.                   *)

EndBusy == busy' = FALSE /\ interrupting' = FALSE
BeginBusy == busy' = TRUE /\ UNCHANGED interrupting

\* A line of the UI's own or of the user's. broken records that it cut a
\* stream in two: nothing closes the half above it. Reasoning that follows
\* answer text in one response does the same (Spoken).
Push(entry) ==
    /\ transcript' = Append(transcript, entry)
    /\ broken' = [broken EXCEPT !.stream = @ \/ LastIs(transcript, "agent")
                                             \/ LastIs(transcript, "thinking")]
    /\ UNCHANGED <<heard, running>>

\* clear_transcript. broken records the calls whose card went with it.
ClearTranscript(left) ==
    /\ transcript' = left
    /\ heard' = <<>>
    /\ broken' = [stream |-> FALSE, cards |-> running # {}]

\* Ghosts of one event: what was said since the transcript was last cleared,
\* and which calls have started and not completed.
Spoken(e) ==
    /\ heard' = IF e.kind \in {"text", "reasoning", "started", "retrying"} THEN Append(heard, e.id) ELSE heard
    /\ running' = CASE e.kind = "started"   -> running \union {e.id}
                    [] e.kind = "completed" -> running \ {e.id}
                    [] OTHER                -> running
    /\ broken' = [broken EXCEPT !.stream = @ \/ (e.kind = "reasoning" /\ LastIs(transcript, "agent"))]

\* maybe_prompt_verify and maybe_prompt_next_step; whether the plan has an
\* unfinished next step is read from the plan file.
Offer ==
    IF ~implement THEN UNCHANGED <<popups, prompted>>
    ELSE IF tasks = "worked" /\ "verify" \notin prompted
    THEN popups' = popups \union {"verify"} /\ prompted' = prompted \union {"verify"}
    ELSE IF ("verify" \in prompted \/ tasks = "done") /\ "next" \notin prompted /\ "next" \notin popups
    THEN \/ popups' = popups \union {"next"} /\ prompted' = prompted \union {"next"}
         \/ UNCHANGED <<popups, prompted>>
    ELSE UNCHANGED <<popups, prompted>>

\* The event loop takes one event off the channel: apply_event.
ApplyEvent ==
    /\ events # <<>>
    /\ events' = Tail(events)
    /\ LET e == Head(events)
       IN  /\ IF e.kind = "compacted"
              THEN ClearTranscript(Fold(transcript, e)) /\ UNCHANGED running
              ELSE /\ transcript' = IF e.kind = "tasks" /\ implement /\ tasks # "done" /\ e.id = "done"
                                    THEN Append(transcript, Note) ELSE Fold(transcript, e)
                   /\ Spoken(e)
           /\ tasks' = IF e.kind = "tasks" /\ implement THEN e.id ELSE tasks
           /\ IF e.kind \in {"done", "error", "interrupted", "compacted"} THEN EndBusy
              ELSE UNCHANGED <<busy, interrupting>>
           /\ CASE e.kind = "done" -> Offer
                [] e.kind \in {"permission", "plan"} ->
                       popups' = popups \union {e.kind} /\ UNCHANGED prompted
                [] OTHER -> UNCHANGED <<popups, prompted>>
    /\ UNCHANGED <<onScreen, implement, inbox, pressed, agent, serial, lines, selects>>

-----------------------------------------------------------------------------
(* Keys that a popup takes.                                                *)

Line == Fits(serial, lines + 1) /\ lines' = lines + 1     \* what the user adds
Popup(p) == Answering = p /\ popups' = popups \ {p}
NoSession == UNCHANGED <<onScreen, serial, lines, selects>>

\* Any key dismisses the notice; Esc, Enter or q the usage popup.
Dismiss ==
    /\ Popup("notice") \/ Popup("usage")
    /\ NoSession
    /\ UNCHANGED <<sessionVars, transcript, bridgeVars, ghosts>>

\* answer_permission and answer_plan: the agent that asked goes on.
AnswerPrompt ==
    /\ Popup("permission") \/ Popup("plan")
    /\ IF agent.at = "asking" THEN Answered ELSE UNCHANGED <<agent, events>>
    /\ NoSession
    /\ UNCHANGED <<sessionVars, transcript, inbox, pressed, ghosts>>

\* begin_implement and begin_next_step, after the message has been sent.
BeginStep ==
    /\ inbox' = Append(inbox, "implement")
    /\ ClearTranscript(<<Note>>)
    /\ tasks' = "none" /\ prompted' = {} /\ implement' = TRUE
    /\ BeginBusy
    /\ UNCHANGED running

\* start_implement, start_next_step: refused, with a notice, while a turn runs.
StartStep(p) ==
    /\ Answering = p
    /\ IF busy
       THEN /\ popups' = popups \ {p}
            /\ Push(Note)
            /\ UNCHANGED <<sessionVars, inbox>>
       ELSE /\ popups' = popups \ {p, "verify", "next"}
            /\ BeginStep
    /\ IF p = "next" THEN Line ELSE UNCHANGED lines
    /\ UNCHANGED <<onScreen, events, pressed, agent, serial, selects>>

\* begin_verification, or the same message sent by the user deferring it.
BeginVerification ==
    /\ Popup("verify") /\ Line
    /\ Push(Note)
    /\ \/ BeginBusy /\ inbox' = Append(inbox, "verify")
       \/ UNCHANGED <<busy, interrupting, inbox>>
    /\ UNCHANGED <<onScreen, implement, tasks, prompted, events, pressed, agent, serial, selects>>

DeclineStep ==
    /\ \/ Popup("confirm") /\ UNCHANGED <<transcript, lines, ghosts>>
       \/ Popup("next") /\ Push(Note) /\ Line
    /\ UNCHANGED <<onScreen, sessionVars, bridgeVars, serial, selects>>

\* handle_verify_caps: probe, or decline; nothing while the probe runs.
AnswerCaps ==
    /\ Answering = "caps"
    /\ \E then \in {{}, {"probing"}} : popups' = (popups \ {"caps"}) \union then
    /\ NoSession
    /\ UNCHANGED <<sessionVars, transcript, bridgeVars, ghosts>>

-----------------------------------------------------------------------------
(* Keys of the screens.                                                    *)

Key(s) == Answering = "none" /\ onScreen = s

\* submit: an ordinary message, also while the agent works.
Submit ==
    /\ Key("chat") /\ Line
    /\ Push(Shown("user", <<>>, FALSE))
    /\ BeginBusy
    /\ inbox' = Append(inbox, "message")
    /\ UNCHANGED <<onScreen, popups, implement, tasks, prompted, events, pressed, agent, serial, selects>>

\* Commands that only add a notice, and what is refused while a turn runs
\* (a mode change, /compact, /implement, /profile refresh).
Notice ==
    /\ Key("chat") /\ Line
    /\ Push(Note)
    /\ UNCHANGED <<onScreen, popups, sessionVars, bridgeVars, serial, selects>>

HasConversation == \E i \in DOMAIN transcript : transcript[i].kind # "note"

Compact ==
    /\ Key("chat") /\ Line
    /\ ~busy /\ HasConversation
    /\ Push(Note)
    /\ BeginBusy
    /\ inbox' = Append(inbox, "compact")
    /\ UNCHANGED <<onScreen, popups, implement, tasks, prompted, events, pressed, agent, serial, selects>>

\* /clear: the transcript at once, the agent's history when its turn is over.
Clear ==
    /\ Key("chat") /\ Line
    /\ ClearTranscript(<<>>)
    /\ tasks' = "none" /\ implement' = FALSE /\ prompted' = {}
    /\ popups' = popups \ {"confirm", "verify", "next"}
    /\ inbox' = Append(inbox, "clear")
    /\ UNCHANGED <<onScreen, busy, interrupting, events, pressed, agent, serial, selects, running>>

Usage ==
    /\ Key("chat") /\ Line
    /\ popups' = popups \union {"usage"}
    /\ UNCHANGED <<onScreen, sessionVars, transcript, bridgeVars, serial, selects, ghosts>>

\* Esc while the agent works: one press, the second does nothing.
Interrupt ==
    /\ Key("chat")
    /\ busy /\ ~interrupting
    /\ interrupting' = TRUE /\ pressed' = TRUE
    /\ UNCHANGED <<onScreen, popups, busy, implement, tasks, prompted, transcript, inbox, events, agent,
                   serial, lines, selects, ghosts>>

\* /model, /providers, /implement, Ctrl+D, and their way back. The picker also
\* stands for the screens that only come back (/permissions, provider form).
OpenScreen ==
    /\ \/ /\ Key("chat") /\ Line
          /\ onScreen' \in {"picker", "plans", "diff"}
          /\ onScreen' = "plans" => ~busy
          /\ onScreen' = "diff" => \E i \in DOMAIN transcript : transcript[i].kind = "card"
       \/ /\ Answering = "none" /\ onScreen # "chat"
          /\ onScreen = "picker" => selects > 0
          /\ onScreen' = "chat"
          /\ UNCHANGED lines
    /\ UNCHANGED <<popups, sessionVars, transcript, bridgeVars, serial, selects, ghosts>>

\* handle_diff: a decision leaves a note and the viewer.
LeaveDiff ==
    /\ Key("diff")
    /\ onScreen' = "chat"
    /\ Push(Note)
    /\ UNCHANGED <<popups, sessionVars, bridgeVars, serial, lines, selects>>

\* handle_plan_select: a step is confirmed first when there is a conversation
\* to lose; otherwise start_implement runs at once.
ChooseStep ==
    /\ Key("plans")
    /\ onScreen' = "chat"
    /\ IF HasConversation
       THEN /\ popups' = popups \union {"confirm"}
            /\ UNCHANGED <<sessionVars, transcript, inbox, ghosts>>
       ELSE IF busy
       THEN Push(Note) /\ UNCHANGED <<popups, sessionVars, inbox>>
       ELSE BeginStep /\ popups' = popups \ {"verify", "next"}
    /\ UNCHANGED <<events, pressed, agent, serial, lines, selects>>

\* spawn_session: a new agent and new channels; what the old one had still to
\* say is dropped with the receiver.
SpawnSession ==
    /\ ClearTranscript(<<>>)
    /\ running' = {}
    /\ tasks' = "none" /\ implement' = FALSE /\ prompted' = {}
    /\ EndBusy
    /\ onScreen' = "chat"
    /\ inbox' = <<>> /\ events' = <<>> /\ pressed' = FALSE /\ agent' = Idle

PickModel ==
    /\ Key("picker") /\ selects < MaxSelects
    /\ selects' = selects + 1
    /\ SpawnSession
    /\ \E more \in SUBSET {"notice", "caps"} :
          popups' = (popups \ {"plan", "confirm", "verify", "next"}) \union more
    /\ UNCHANGED <<serial, lines>>

\* apply_caps_result: the session is rebuilt from the verified entry.
CapsLand ==
    /\ "probing" \in popups
    /\ SpawnSession
    /\ popups' = popups \ {"plan", "confirm", "verify", "next", "probing"}
    /\ UNCHANGED <<serial, lines, selects>>

-----------------------------------------------------------------------------
ConsoleInit ==
    /\ onScreen = "picker" /\ popups = {}
    /\ busy = FALSE /\ interrupting = FALSE
    /\ implement = FALSE /\ tasks = "none" /\ prompted = {}
    /\ transcript = <<>>
    /\ inbox = <<>> /\ events = <<>> /\ pressed = FALSE /\ agent = Idle
    /\ serial = 0 /\ lines = 0 /\ selects = 0
    /\ heard = <<>> /\ running = {} /\ broken = [stream |-> FALSE, cards |-> FALSE]

ConsoleNext ==
    \/ TakeMessage \/ FinishResponse \/ CallTools \/ NextCall \/ ApplyEvent
    \/ Dismiss \/ AnswerPrompt \/ StartStep("confirm") \/ StartStep("next")
    \/ BeginVerification \/ DeclineStep \/ AnswerCaps \/ CapsLand
    \/ Submit \/ Notice \/ Compact \/ Clear \/ Usage \/ Interrupt
    \/ OpenScreen \/ LeaveDiff \/ ChooseStep \/ PickModel

ConsoleSpec == ConsoleInit /\ [][ConsoleNext]_consoleVars

-----------------------------------------------------------------------------
Quiet == events = <<>> /\ agent.at = "idle" /\ inbox = <<>>

\* What the agent said and which calls it made since the transcript was last
\* cleared stands in the transcript, each once and in order, whatever the
\* user typed in between; once the turn is over nothing in it still streams;
\* and a tool card shows the result of its own call, none left running when
\* the turn is over, also when searches of a batch run together, a gate asks
\* in the middle, or a press skips the rest. Exempted are two ways to cut a
\* stream in half, whose upper half streams for ever: a line of the UI's own
\* in the middle of it, and reasoning after answer text (append_stream,
\* append_reasoning, finish_stream); and a /clear, a new step or a compaction
\* while a call runs, which takes its card away so that its result lands
\* elsewhere (apply_event ToolCallCompleted, dispatch_tools).
TranscriptTrue ==
    /\ FlattenSeq([i \in DOMAIN transcript |-> transcript[i].parts]) = heard
    /\ Quiet /\ ~broken.stream =>
          \A i \in DOMAIN transcript : transcript[i].kind # "card" => ~transcript[i].open
    /\ ~broken.cards =>
          \A i \in DOMAIN transcript : transcript[i].kind = "card" =>
              IF transcript[i].open THEN ~Quiet ELSE <<transcript[i].result>> = transcript[i].parts

\* On the chat screen the popup that takes the next key is the one the user
\* sees on top, however events and keys opened them. Two pairs are drawn the
\* other way round and exempted: /usage left open over a prompt that arrives
\* later, and the verification popup over the notice of the same new session
\* (handle_key, chat::render and render_verify_caps).
TopPopupAnswers ==
    onScreen = "chat" /\ popups # {} =>
        \/ OnTop = Answering
        \/ OnTop = "usage"
        \/ Answering = "notice" /\ OnTop \in {"caps", "probing"}
=============================================================================
