------------------------------ MODULE AgentTurn ------------------------------
(***************************************************************************)
(* One turn of the agent loop: crates/suis-agent/src/runtime/agent.rs      *)
(* (run_turn, run_turn_inner, dispatch_tools, run_subagent).               *)
(*                                                                         *)
(* Five parties act: the user (submits a turn, presses Esc), the model     *)
(* provider (answers, streams, fails), the tools, the retry timer and the  *)
(* loop itself.  An action is the code between two points where the loop   *)
(* awaits one of the others; a press may land at every such point.         *)
(* Message texts are abstracted to what a later step can tell apart.       *)
(***************************************************************************)
EXTENDS Integers, Sequences, FiniteSets

CONSTANTS
    ToolSets,           \* the tools a model reaches for in a turn, one set per turn
    Pieces,             \* what it streams besides calls: "text", "reasoning", "held"
    UserModes,          \* modes the user starts turns in
    AutoVerify,         \* values of "verify_command set, no /implement session"
    MaxIterations,      \* MAX_ITERATIONS (1000 in the code)
    SubIterations,      \* max_iterations of a sub-agent profile (8, 10, 12)
    MaxRetries,         \* MAX_STREAM_RETRIES (3)
    MaxVerifyRounds,    \* MAX_VERIFY_ROUNDS (3)
    RedundantReadLimit, \* REDUNDANT_READ_LIMIT (2)
    MaxChunks,          \* bound: chunks of one streaming attempt
    MaxTurns,           \* bound: turns of a behaviour
    MaxPresses          \* bound: Esc presses of a behaviour

Modes == {"plan", "agent", "chat"}
SubAgents == {"explore", "find", "delegate"}
Orientation == {"read_lines", "search", "tree"}
AllTools == SubAgents \union Orientation \union {"edit", "bash", "git", "task", "plan"}

ASSUME TurnConstants ==
    /\ ToolSets \subseteq SUBSET AllTools
    /\ Pieces \subseteq {"text", "reasoning", "held"}
    /\ UserModes \subseteq Modes
    /\ AutoVerify \subseteq BOOLEAN
    /\ {MaxIterations, SubIterations, MaxRetries, MaxVerifyRounds,
        RedundantReadLimit, MaxChunks, MaxTurns, MaxPresses} \subseteq Nat

VARIABLES
    pc,         \* what the loop awaits, or the decision it is about to take
    history,    \* session.history of the running frame
    mode,       \* session.mode
    fr,         \* locals of run_turn_inner and dispatch_tools
    parent,     \* what run_subagent set aside: <<>> or one [history, mode, fr]
    unseen,     \* the turn's interrupt receiver has a value it has not seen
    turn        \* the turn as the user sees it: mode, events, what was done

vars == <<pc, history, mode, fr, parent, unseen, turn>>

-----------------------------------------------------------------------------
(* Modes and tools.                                                        *)

AllowsTool(m, tool) ==
    CASE m = "agent" -> tool # "plan"
      [] m = "plan"  -> tool \in Orientation \union {"task", "plan", "explore", "find"}
      [] m = "chat"  -> tool \in Orientation \union {"task", "explore", "find"}

\* Fault: the sub-agent inherits its parent's mode.
SubModeInherited(tool) == mode

SubMode(tool) == IF tool = "delegate" THEN "agent" ELSE "chat"

RunsConcurrently(tool) == tool \in {"search", "tree"}

-----------------------------------------------------------------------------
(* The conversation.                                                       *)

\* A tool message answers the call of that position in its batch.
Message(role, calls, id) == [role |-> role, calls |-> calls, id |-> id]
UserMessage == Message("user", <<>>, 0)
SystemMessage == Message("system", <<>>, 0)
AssistantMessage(calls) == Message("assistant", calls, 0)
ToolMessage(id) == Message("tool", <<>>, id)

ToolsOf(f) == [i \in DOMAIN f.calls |-> f.calls[i].tool]

\* Fault: only the calls that were run are answered.
RecordedIfRun(f) == [i \in 1 .. f.cur |-> ToolMessage(i)]

\* Every call's result in call order, a synthetic one for a call never run.
Recorded(f) == [i \in DOMAIN f.calls |-> ToolMessage(i)]

TurnEdited(h, anchor) ==
    \E i \in (anchor + 1) .. Len(h) : \E k \in DOMAIN h[i].calls : h[i].calls[k] = "edit"

-----------------------------------------------------------------------------
(* Frames.                                                                 *)

\* The locals at the start of run_turn_inner, with `len` messages in history.
NewFrame(limit, len, sub) ==
    [limit |-> limit, sub |-> sub, iter |-> 0,
     anchor |-> len, rounds |-> 0,
     seen |-> {}, redundant |-> 0, noted |-> FALSE,
     retries |-> 0, chunks |-> 0, shown |-> FALSE, emitted |-> FALSE,
     content |-> {}, held |-> {}, calls |-> <<>>, cur |-> 0,
     edited |-> FALSE, subEdited |-> FALSE]

\* Fault: the calls of a failed attempt are not cleared.
StaleSlate(f) == [f EXCEPT !.content = {}, !.held = {}, !.emitted = FALSE, !.chunks = 0]

\* A streaming attempt starts from a clean slate.  Text, a held-back fragment
\* and tool calls carry the number of the attempt that produced them.
CleanSlate(f) ==
    [f EXCEPT !.content = {}, !.held = {}, !.calls = <<>>,
              !.emitted = FALSE, !.chunks = 0]

NotRunning == NewFrame(0, 0, "none")

IsNested == parent # <<>>

Emit(ev) == [turn EXCEPT !.events = Append(@, ev)]
Emit2(ev1, ev2) == [turn EXCEPT !.events = @ \o <<ev1, ev2>>]

\* The events that tell the UI a turn is over.
Terminal == {"done", "error", "interrupted"}

-----------------------------------------------------------------------------
(* How a frame ends: TurnOutcome, as seen by run_turn or by run_subagent.  *)

\* Fault: a sub-agent that settles reports Done like a top-level turn.
CompleteWithDone(h) ==
    /\ history' = h
    /\ pc' = IF IsNested THEN "noteRequest" ELSE "idle"
    /\ turn' = [Emit("done") EXCEPT !.outcome = IF IsNested THEN @ ELSE "completed"]
    /\ UNCHANGED <<mode, parent>>

\* Completed.  A sub-agent's parent then asks for a handoff note.
Complete(h) ==
    /\ history' = h
    /\ IF IsNested
       THEN pc' = "noteRequest" /\ UNCHANGED turn
       ELSE pc' = "idle" /\ turn' = [Emit("done") EXCEPT !.outcome = "completed"]
    /\ UNCHANGED <<mode, parent>>

\* Fault: the mode of the sub-agent stays in force.
ReturnInSubMode(edited) ==
    /\ history' = parent[1].history
    /\ UNCHANGED mode
    /\ fr' = [parent[1].fr EXCEPT !.subEdited = @ \/ edited]
    /\ parent' = <<>>
    /\ pc' = "serial"

\* The parent's history and mode come back and call `cur` is answered.
ReturnToParent(edited) ==
    /\ history' = parent[1].history
    /\ mode' = parent[1].mode
    /\ fr' = [parent[1].fr EXCEPT !.subEdited = @ \/ edited]
    /\ parent' = <<>>
    /\ pc' = "serial"

\* Errored: the frame emits Error; a sub-agent's parent goes on without it.
Fail(f, h) ==
    IF IsNested
    THEN /\ ReturnToParent(f.edited \/ f.subEdited)
         /\ turn' = Emit("error")
    ELSE /\ pc' = "idle"
         /\ turn' = [Emit("error") EXCEPT !.outcome = "errored"]
         /\ history' = h
         /\ fr' = f
         /\ UNCHANGED <<mode, parent>>

\* Interrupted: the frame emits Interrupted and unwinds.  A sub-agent's parent
\* records its own batch, the unfinished calls as skipped, and emits it again.
Abandon(f, h) ==
    /\ pc' = "idle"
    /\ parent' = <<>>
    /\ IF IsNested
       THEN /\ history' = parent[1].history \o Recorded(parent[1].fr)
            /\ mode' = parent[1].mode
            /\ fr' = parent[1].fr
            /\ turn' = [Emit2("interrupted", "interrupted") EXCEPT !.outcome = "interrupted"]
       ELSE /\ history' = h
            /\ fr' = f
            /\ turn' = [Emit("interrupted") EXCEPT !.outcome = "interrupted"]
            /\ UNCHANGED mode

-----------------------------------------------------------------------------
(* The user.                                                               *)

IdleTurn == [n |-> 0, mode |-> "agent", tools |-> {}, autoVerify |-> FALSE, events |-> <<>>,
             outcome |-> "none", presses |-> 0, pressed |-> FALSE,
             swallowed |-> FALSE, wrote |-> {}]

Init ==
    /\ pc = "idle"
    /\ history = <<>>
    /\ mode \in UserModes
    /\ fr = NotRunning
    /\ parent = <<>>
    /\ unseen = FALSE
    /\ turn = IdleTurn

\* Fault: the receiver is not marked unchanged at the start of the turn.
StartTurnUnmarked(m, v, tools) ==
    /\ pc = "idle" /\ turn.n < MaxTurns
    /\ mode' = m
    /\ history' = Append(history, UserMessage)
    /\ fr' = NewFrame(MaxIterations, Len(history) + 1, "none")
    /\ turn' = [IdleTurn EXCEPT !.n = turn.n + 1, !.mode = m, !.autoVerify = v,
                                !.tools = tools, !.presses = turn.presses]
    /\ pc' = "top"
    /\ UNCHANGED <<parent, unseen>>

\* run_turn: the receiver is cloned and marked unchanged, so a press left over
\* from the previous turn is forgotten.  The user's mode is the session's.
StartTurn(m, v, tools) ==
    /\ pc = "idle" /\ turn.n < MaxTurns
    /\ unseen' = FALSE
    /\ mode' = m
    /\ history' = Append(history, UserMessage)
    /\ fr' = NewFrame(MaxIterations, Len(history) + 1, "none")
    /\ turn' = [IdleTurn EXCEPT !.n = turn.n + 1, !.mode = m, !.autoVerify = v,
                                !.tools = tools, !.presses = turn.presses]
    /\ pc' = "top"
    /\ UNCHANGED parent

\* AgentBridge::interrupt, at any moment.
Press ==
    /\ turn.presses < MaxPresses
    /\ unseen' = TRUE
    /\ turn' = [turn EXCEPT !.presses = @ + 1, !.pressed = @ \/ pc # "idle",
                            !.swallowed = FALSE]
    /\ UNCHANGED <<pc, history, mode, fr, parent>>

-----------------------------------------------------------------------------
(* The head of an iteration.                                               *)

Ceiling ==
    /\ pc = "top" /\ fr.iter = fr.limit
    /\ Fail(fr, history)
    /\ UNCHANGED unseen

InterruptAtTop ==
    /\ pc = "top" /\ fr.iter < fr.limit /\ unseen
    /\ Abandon(fr, history)
    /\ UNCHANGED unseen

\* Fault: the head of the loop does not look at the interrupt.
SendRequestUnchecked ==
    /\ pc = "top" /\ fr.iter < fr.limit
    /\ fr' = [CleanSlate(fr) EXCEPT !.iter = @ + 1, !.retries = 0, !.shown = FALSE]
    /\ pc' = "connect"
    /\ UNCHANGED <<history, mode, parent, unseen, turn>>

SendRequest ==
    /\ pc = "top" /\ fr.iter < fr.limit /\ ~unseen
    /\ fr' = [CleanSlate(fr) EXCEPT !.iter = @ + 1, !.retries = 0, !.shown = FALSE]
    /\ pc' = "connect"
    /\ UNCHANGED <<history, mode, parent, unseen, turn>>

-----------------------------------------------------------------------------
(* The provider's answer, and what a failure of it does.                   *)

Connected ==
    /\ pc = "connect"
    /\ pc' = "stream"
    /\ UNCHANGED <<history, mode, fr, parent, unseen, turn>>

\* Fault: one retry too many.
RetryableOffByOne(transient) == transient /\ ~fr.emitted /\ fr.retries <= MaxRetries

\* A transient failure with nothing shown yet is retried after a backoff.
Retryable(transient) == transient /\ ~fr.emitted /\ fr.retries < MaxRetries

\* Fault: retries are not counted.
RetryForEver(transient) ==
    IF Retryable(transient)
    THEN pc' = "backoff" /\ UNCHANGED <<history, mode, fr, parent, unseen, turn>>
    ELSE Fail(fr, history) /\ UNCHANGED unseen

\* backoff_retry selects between the interrupt and the timer: a press that is
\* there already ends the frame, and is marked seen, before the timer can fire.
RetryOrFail(transient) ==
    \/ /\ ~Retryable(transient)
       /\ Fail(fr, history)
       /\ UNCHANGED unseen
    \/ /\ Retryable(transient) /\ ~unseen
       /\ fr' = [fr EXCEPT !.retries = @ + 1]
       /\ pc' = "backoff"
       /\ UNCHANGED <<history, mode, parent, unseen, turn>>
    \/ /\ Retryable(transient) /\ unseen
       /\ unseen' = FALSE
       /\ Abandon(fr, history)

ProviderFails(transient) == pc \in {"connect", "stream"} /\ RetryOrFail(transient)

\* The timer may fire together with a press, and win.
BackoffOver ==
    /\ pc = "backoff"
    /\ fr' = CleanSlate(fr)
    /\ pc' = "connect"
    /\ UNCHANGED <<history, mode, parent, unseen, turn>>

\* changed() marks the value seen.
InterruptInBackoff ==
    /\ pc = "backoff" /\ unseen
    /\ unseen' = FALSE
    /\ Abandon(fr, history)

Chunk ==
    /\ pc = "stream" /\ fr.chunks < MaxChunks
    /\ UNCHANGED <<pc, history, mode, parent, unseen, turn>>

\* Answer text is shown at once and kept for the history; reasoning is shown and
\* never kept; a fragment that may open a think tag is held back by the splitter.
PieceChunk(piece) ==
    /\ Chunk
    /\ fr' = [fr EXCEPT !.chunks = @ + 1,
                        !.shown = @ \/ piece # "held",
                        !.emitted = @ \/ piece # "held",
                        !.content = IF piece = "text" THEN @ \union fr.held \union {fr.retries}
                                    ELSE @,
                        !.held = CASE piece = "text" -> {}
                                   [] piece = "held" -> @ \union {fr.retries}
                                   [] OTHER -> @]

CallChunk(tool) ==
    /\ Chunk
    /\ fr' = [fr EXCEPT !.chunks = @ + 1,
                        !.calls = Append(@, [tool |-> tool, try |-> fr.retries])]

-----------------------------------------------------------------------------
(* The end of a stream.                                                    *)

\* ThinkSplitter::flush: what was held back is shown as answer text.
Flushed == fr.content \union fr.held

Flush(f) == [f EXCEPT !.content = Flushed, !.held = {}, !.shown = @ \/ f.held # {}]

\* Esc in the stream: what was said is kept, the calls are dropped.
InterruptInStream ==
    /\ pc = "stream" /\ unseen
    /\ unseen' = FALSE
    /\ Abandon([Flush(fr) EXCEPT !.calls = <<>>],
               IF Flushed = {} THEN history
               ELSE Append(history, AssistantMessage(<<>>)))

\* Fault: the round about to start is counted already.
ShouldVerifyOffByOne(h) ==
    /\ mode = "agent" /\ turn.autoVerify
    /\ fr.rounds + 1 < MaxVerifyRounds
    /\ TurnEdited(h, fr.anchor)

ShouldVerify(h) ==
    /\ mode = "agent" /\ turn.autoVerify
    /\ fr.rounds < MaxVerifyRounds
    /\ TurnEdited(h, fr.anchor)

\* No tool calls: the turn settles, after a verification if one is due.
StreamEndsSettled ==
    /\ pc = "stream" /\ fr.calls = <<>>
    /\ LET h == Append(history, AssistantMessage(<<>>))
       IN IF ShouldVerify(h)
          THEN /\ history' = h
               /\ fr' = [Flush(fr) EXCEPT !.rounds = @ + 1, !.edited = FALSE,
                                          !.subEdited = FALSE]
               /\ pc' = "verify"
               /\ UNCHANGED <<mode, parent, turn>>
          ELSE Complete(h) /\ fr' = Flush(fr)
    /\ UNCHANGED unseen

\* The calls, structured or recovered from the text, are recorded; then the
\* batch starts, or is skipped whole if the user has pressed Esc.
Dispatch(calls) ==
    LET f == [Flush(fr) EXCEPT !.calls = calls, !.cur = 0]
        h == Append(history, AssistantMessage(ToolsOf(f)))
    IN IF unseen
       THEN Abandon(f, h \o Recorded(f))
       ELSE /\ history' = h
            /\ fr' = f
            /\ pc' = IF \E i \in DOMAIN calls : RunsConcurrently(calls[i].tool)
                     THEN "scan" ELSE "serial"
            /\ UNCHANGED <<mode, parent, turn>>

StreamEndsWithCalls ==
    /\ pc = "stream" /\ fr.calls # <<>>
    /\ Dispatch(fr.calls)
    /\ UNCHANGED unseen

\* parse_text_tool_calls: a call the model printed as text is run like any other.
StreamEndsWithTextCall(tool) ==
    /\ pc = "stream" /\ fr.calls = <<>> /\ Flushed # {}
    /\ Dispatch(<<[tool |-> tool, try |-> fr.retries]>>)
    /\ UNCHANGED unseen

\* run_verification: a pass settles the turn, a failure is fed back.
VerifyPasses ==
    /\ pc = "verify"
    /\ Complete(history)
    /\ UNCHANGED <<fr, unseen>>

VerifyFails ==
    /\ pc = "verify"
    /\ history' = Append(history, SystemMessage)
    /\ fr' = [fr EXCEPT !.anchor = Len(history) + 1]
    /\ pc' = "top"
    /\ UNCHANGED <<mode, parent, unseen, turn>>

-----------------------------------------------------------------------------
(* dispatch_tools.                                                         *)

\* The search and tree calls of the batch, gated in order and run together.
RunScans ==
    /\ pc = "scan"
    /\ pc' = "serial"
    /\ UNCHANGED <<history, mode, fr, parent, unseen, turn>>

\* The calls still to run one after another.
Remaining(f) == {i \in DOMAIN f.calls : i > f.cur /\ ~RunsConcurrently(f.calls[i].tool)}

NextCall(f) == CHOOSE i \in Remaining(f) : \A k \in Remaining(f) : i <= k

InterruptInBatch ==
    /\ pc = "serial" /\ Remaining(fr) # {} /\ unseen
    /\ Abandon(fr, history \o Recorded(fr))
    /\ UNCHANGED unseen

StartTool ==
    /\ pc = "serial" /\ Remaining(fr) # {} /\ ~unseen
    /\ fr.calls[NextCall(fr)].tool \notin SubAgents
    /\ fr' = [fr EXCEPT !.cur = NextCall(fr)]
    /\ pc' = "tool"
    /\ UNCHANGED <<history, mode, parent, unseen, turn>>

\* A running tool always finishes.  gate_call refuses one outside the mode, and
\* may refuse any other; only a call that ran can leave something behind.
FinishTool(ran) ==
    /\ pc = "tool"
    /\ LET tool == fr.calls[fr.cur].tool
       IN /\ ran => AllowsTool(mode, tool)
          /\ fr' = [fr EXCEPT !.edited = @ \/ (ran /\ tool = "edit")]
          /\ turn' = [turn EXCEPT !.wrote =
                         IF ran /\ tool \in {"edit", "bash"} THEN @ \union {fr.sub} ELSE @]
    /\ pc' = "serial"
    /\ UNCHANGED <<history, mode, parent, unseen>>

\* run_subagent is reached before the executor, hence before its mode check.
\* A sub-agent may not start another; an empty objective is refused as well.
RefuseSubAgent ==
    /\ pc = "serial" /\ Remaining(fr) # {} /\ ~unseen
    /\ fr.calls[NextCall(fr)].tool \in SubAgents
    /\ fr' = [fr EXCEPT !.cur = NextCall(fr)]
    /\ UNCHANGED <<pc, history, mode, parent, unseen, turn>>

StartSubAgent ==
    /\ pc = "serial" /\ Remaining(fr) # {} /\ ~unseen /\ ~IsNested
    /\ LET tool == fr.calls[NextCall(fr)].tool
           seed == IF tool = "delegate" THEN <<>> ELSE <<SystemMessage>>
       IN /\ tool \in SubAgents
          /\ parent' = <<[history |-> history, mode |-> mode,
                          fr |-> [fr EXCEPT !.cur = NextCall(fr)]]>>
          /\ mode' = SubMode(tool)
          /\ history' = Append(seed, UserMessage)
          /\ fr' = NewFrame(SubIterations, Len(seed) + 1, tool)
    /\ pc' = "top"
    /\ UNCHANGED <<unseen, turn>>

\* subagent_summary: a request for the handoff note, then its stream.  Failing
\* or interrupted, it yields a stock note; the press it consumed is gone.
NoteConnected ==
    /\ pc = "noteRequest"
    /\ pc' = "note"
    /\ UNCHANGED <<history, mode, fr, parent, unseen, turn>>

NoteEnds ==
    /\ pc \in {"noteRequest", "note"}
    /\ ReturnToParent(fr.edited \/ fr.subEdited)
    /\ UNCHANGED <<unseen, turn>>

InterruptInNote ==
    /\ pc = "note" /\ unseen
    /\ unseen' = FALSE
    /\ ReturnToParent(fr.edited \/ fr.subEdited)
    /\ turn' = [turn EXCEPT !.swallowed = TRUE]

\* The batch is done: every result is recorded in call order, and a model that
\* keeps repeating an orientation call is told so, once.
Repeats(f) ==
    LET reads == {i \in DOMAIN f.calls : f.calls[i].tool \in Orientation}
        first == {i \in reads : /\ f.calls[i].tool \notin f.seen
                                /\ \A k \in reads : k < i => f.calls[k].tool # f.calls[i].tool}
    IN Cardinality(reads \ first)

FinishBatch ==
    /\ pc = "serial" /\ Remaining(fr) = {}
    /\ LET redundant == fr.redundant + Repeats(fr)
           note == ~fr.noted /\ redundant >= RedundantReadLimit
       IN /\ history' = history \o Recorded(fr)
                        \o (IF note THEN <<SystemMessage>> ELSE <<>>)
          /\ fr' = [fr EXCEPT !.calls = <<>>, !.cur = 0,
                              !.redundant = redundant, !.noted = @ \/ note,
                              !.seen = @ \union ({fr.calls[i].tool : i \in DOMAIN fr.calls}
                                                 \intersect Orientation)]
    /\ pc' = "top"
    /\ UNCHANGED <<mode, parent, unseen, turn>>

-----------------------------------------------------------------------------
User == \/ Press
        \/ \E m \in UserModes, v \in AutoVerify, ts \in ToolSets : StartTurn(m, v, ts)

\* Steps the loop takes by itself, whatever the provider and the tools do.
Loop ==
    \/ Ceiling \/ InterruptAtTop \/ SendRequest
    \/ BackoffOver \/ InterruptInBackoff \/ InterruptInStream \/ InterruptInNote
    \/ InterruptInBatch \/ StartTool \/ RefuseSubAgent \/ StartSubAgent
    \/ FinishBatch

Provider ==
    \/ Connected \/ NoteConnected \/ NoteEnds
    \/ \E piece \in Pieces : PieceChunk(piece)
    \/ \E t \in turn.tools : CallChunk(t) \/ StreamEndsWithTextCall(t)
    \/ StreamEndsSettled \/ StreamEndsWithCalls
    \/ \E transient \in BOOLEAN : ProviderFails(transient)

Toolbox == RunScans \/ VerifyPasses \/ VerifyFails
           \/ \E ran \in BOOLEAN : FinishTool(ran)

\* Between turns with nothing left to ask the program only waits for its user.
Rest == pc = "idle" /\ turn.n = MaxTurns /\ UNCHANGED vars

Next == User \/ Loop \/ Provider \/ Toolbox \/ Rest

Spec == Init /\ [][Next]_vars

\* gate_call: a call outside the mode is refused, and `task` runs, without a
\* prompt and without a process.  Any other call may wait: for the user, whose
\* prompt has no time limit, or for what keeps a command's pipes open
\* (ProcessRun).
Immediate(tool) == tool = "task" \/ ~AllowsTool(mode, tool)

FinishImmediate ==
    pc = "tool" /\ Immediate(fr.calls[fr.cur].tool) /\ \E ran \in BOOLEAN : FinishTool(ran)

\* The runtime polls the task, timers fire, and the events the loop sends are
\* taken: that the UI may itself wait for the agent, and then takes none, is
\* EventLoop's.  Nothing is assumed of the provider, of the user, whom a prompt
\* waits for, or of a command.
FairSpec == Spec /\ WF_vars(Loop) /\ WF_vars(FinishImmediate)

-----------------------------------------------------------------------------
(* Properties.                                                             *)

FrameOK(f) ==
    /\ f.sub \in SubAgents \union {"none"}
    /\ {f.limit, f.iter, f.anchor, f.rounds, f.redundant, f.retries,
        f.chunks, f.cur} \subseteq Nat
    /\ {f.noted, f.shown, f.emitted, f.edited, f.subEdited} \subseteq BOOLEAN
    /\ f.iter <= f.limit
    /\ f.rounds <= MaxVerifyRounds /\ f.retries <= MaxRetries

\* Types, and the limits the constants of agent.rs set.
TypeOK ==
    /\ pc \in {"idle", "top", "connect", "stream", "backoff", "verify",
               "scan", "serial", "tool", "noteRequest", "note"}
    /\ mode \in Modes
    /\ FrameOK(fr)
    /\ unseen \in BOOLEAN
    /\ turn.mode \in Modes
    /\ turn.outcome \in {"none", "completed", "errored", "interrupted"}
    /\ \A i \in DOMAIN turn.events : turn.events[i] \in Terminal

\* Every tool call of an assistant message is answered, in call order, by the
\* messages right after it, and no answer stands anywhere else.
Paired(h) ==
    LET Answers(j) == \E i \in 1 .. (j - 1) :
                          j - i \in DOMAIN h[i].calls /\ h[j].id = j - i
    IN /\ \A i \in DOMAIN h : \A k \in DOMAIN h[i].calls :
              i + k \in DOMAIN h /\ h[i + k].role = "tool" /\ h[i + k].id = k
       /\ \A j \in DOMAIN h : h[j].role = "tool" => Answers(j)

\* Whatever path a turn takes (retry, interrupt, sub-agent, verification), the
\* conversation is valid whenever a request is built from it or a turn is over:
\* agent.rs, "every call id is answered".  A batch in progress, the parent's
\* included, is the only conversation with a tail still to be answered.
EveryCallAnswered ==
    /\ pc \notin {"scan", "serial", "tool"} => Paired(history)
    /\ IsNested => Paired(parent[1].history \o Recorded(parent[1].fr))

\* run_turn's promise to the UI: a finished turn's last event is the one of its
\* outcome, Done comes only there, and whatever ended before it was a sub-agent.
EndingMatchesOutcome ==
    LET n == Len(turn.events)
        event == [completed |-> "done", errored |-> "error", interrupted |-> "interrupted"]
    IN /\ pc = "idle" /\ turn.n > 0 => /\ turn.outcome # "none"
                                       /\ n > 0
                                       /\ turn.events[n] = event[turn.outcome]
       /\ \A i \in 1 .. n : turn.events[i] = "done" => i = n /\ pc = "idle"
       /\ pc # "idle" => turn.outcome = "none"

\* A sub-agent's mode governs its own turn and nothing else: run_subagent,
\* "Restore the parent context and mode", on every way out of the sub-turn.
\* Sub-agents are one deep.
ModeReturns ==
    /\ Len(parent) <= 1
    /\ turn.n > 0 /\ ~IsNested => mode = turn.mode /\ fr.sub = "none"
    /\ IsNested => parent[1].mode = turn.mode /\ mode = SubMode(fr.sub)

\* The recon sub-agents never edit or run a command, in any mode; outside Agent
\* mode nothing else does unless a delegate was started.
ReconNeverWrites ==
    /\ turn.wrote \subseteq {"none", "delegate"}
    /\ turn.mode # "agent" => turn.wrote \subseteq {"delegate"}

\* A retry starts clean: nothing the user has already been shown is streamed
\* again, and no text, held fragment or call of a failed attempt survives it.
CleanRetry ==
    /\ pc = "connect" => ~fr.shown
    /\ pc = "stream" => /\ fr.content \union fr.held \subseteq {fr.retries}
                        /\ \A i \in DOMAIN fr.calls : fr.calls[i].try = fr.retries

\* An Agent-mode frame that edited files does not settle with edits made after
\* the last verification, unless it has used up its verification rounds.
VerifiedOrCapped ==
    (pc = "noteRequest" \/ (pc = "idle" /\ turn.outcome = "completed"))
    /\ mode = "agent" /\ turn.autoVerify /\ fr.edited
        => fr.rounds = MaxVerifyRounds

\* The loop goes on: it spends a request on the next iteration, or starts a
\* batch, a tool or a sub-agent.
GoesOn ==
    \/ pc = "top" /\ pc' = "connect"
    \/ pc = "stream" /\ pc' \in {"scan", "serial"} /\ parent' = parent
    \/ pc = "serial" /\ pc' = "tool"
    \/ parent = <<>> /\ parent' # <<>>

\* What completes the answer under way: the attempt a backoff waited for, the
\* verification of the answer, the request for a sub-agent's handoff note.
Completes ==
    \/ pc = "backoff" /\ pc' = "connect"
    \/ pc # "verify" /\ pc' = "verify"
    \/ pc # "noteRequest" /\ pc' = "noteRequest"

\* How far the answer under way is from being done with.
Stage ==
    CASE pc = "backoff" -> 0
      [] pc \in {"connect", "stream"} -> 1
      [] pc = "verify" -> 2
      [] pc \in {"noteRequest", "note"} -> 3
      [] OTHER -> 4

\* A press made during a turn is not lost by the checks, waits and nested turns
\* that read the same receiver.  From then on, unless the stream of a sub-agent's
\* handoff note consumed it, the turn only winds down: the loop does not go on,
\* and what it may still start is the end of the answer under way, in that order
\* and each at most once, for no stage is gone back to.
PressKept ==
    [][turn.pressed /\ ~turn.swallowed =>
          ~GoesOn /\ Stage' >= Stage /\ (Completes => Stage' > Stage)]_vars

\* A turn answers only presses made after it started: run_turn_step, "a press
\* that raced the end of the previous turn is not carried over".
NoStalePress == turn.outcome = "interrupted" => turn.pressed

\* Whatever the provider does, a turn ends, for retries, iterations, verification
\* rounds and nested turns are all bounded and Esc reaches a stalled stream.  What
\* may keep it for ever is one wait: a stream the user lets stall, a response that
\* never begins, or a tool that waits for the user or for its command.
TurnEnds ==
    \/ []<>(pc = "idle")
    \/ <>[](pc \in {"stream", "note"} /\ ~unseen)
    \/ <>[](pc \in {"connect", "noteRequest"})
    \/ <>[](pc \in {"scan", "verify"})
    \/ <>[](pc = "tool" /\ ~Immediate(fr.calls[fr.cur].tool))

-----------------------------------------------------------------------------
(* A statement of the repository that the code does not keep.             *)

\* mode.rs: "Plan and Chat mode therefore cannot edit files or run commands even
\* if the model hallucinates the call."
ReadOnlyModesNeverWrite == turn.mode # "agent" => turn.wrote = {}
=============================================================================
