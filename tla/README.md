# Suis-CLI, verified

Suis-CLI is a terminal coding agent in Rust: a terminal UI, an agent task behind
a bridge of channels, an agent loop that streams from a model provider and runs
tools, a permission system, stored implementation plans, and a provider registry.
This directory holds TLA+ models of it, the TLC runs that check them and the
proofs that TLAPS checks. Every definition that stands for code is listed with its
file and lines in `PROJECT.json` under `map`.

    tlc -workers 2 -config turn_batches.cfg AgentTurn      # any run of PROJECT.json
    tlapm PermissionsProofs.tla                            # any module named ...Proofs, and CommonLemmas

## 1. The system and its parts

| component | state | operations | modelled by |
|---|---|---|---|
| Agent turn loop (`suis-agent/runtime/agent.rs`) | history, mode, retry, iteration and verify counters, the pending batch, the interrupt receiver | `run_turn`, `run_turn_inner`, `dispatch_tools`, `run_verification` | `AgentTurn` |
| Sub-agents (`agent.rs`, `tools/subagent.rs`) | the parent's history and mode, set aside | `run_subagent`, `subagent_summary` | `AgentTurn` |
| Runtime modes (`runtime/mode.rs`) | the session's mode | `allows_tool` | `AgentTurn` |
| Permission store, evaluator (`suis-core/permissions`) | rules in memory, two JSON files | `load`, `save`, `save_split`, `check_command` | `Permissions`, `ShellCommands`, `UserPolicy` |
| Command gate (`tools/executor.rs`) | session denies, the open prompt | `gate_bash`, `record_command_decision` | `Permissions` |
| Path, funnel, git and plan gates (`executor.rs`, `access.rs`) | access log, plan file | `gate_call`, `gate_path`, `gate_plan`, `gate_git` | `FileAccess` |
| Tools (`suis-agent/tools`) | files, processes | read, search, tree, edit, bash, plan; arguments and their repair | `TextTools`, `Excerpts`, `Diffs`, `ProcessRun`, `ToolCalls`, `PlanDrafts` |
| Context and budget (`suis-agent/context`) | the request | prune, pin, estimate, snapshot, work package | `Requests`, `Excerpts`, `TaskTool` |
| Conversation and diff (`conversation`, `diff.rs`) | history | append, replace; unified diff | `Requests`, `AgentTurn`, `Diffs` |
| Stored plans (`projects/plans.rs`) | `.suis/plans.json` | parse, insert, revise, settle | `PlanProgress`, `PlanDrafts`, `TaskTool` |
| Task tool (`tools/task.rs`, `tasks`) | a session's list, the plan file | create, update, list; the fence | `TaskTool`, `ImplementSession` |
| Implementation driver (`agent.rs`) | phase, task in play, ledger | one turn per task, a note in between | `ImplementSession` |
| UI implementation session (`app/state.rs`, `input.rs`, `event_loop.rs`) | busy, interrupting, prompts, task mirror | keys and agent events | `ImplementSession`, `Console` |
| Agent bridge (`app/agent_bridge.rs`) | two bounded channels, an interrupt signal | the message loop, `interrupt`, drop | `EventLoop`, `ImplementSession`, `AgentTurn` |
| Event loop, transcript, popups, line, widgets (`suis-cli/app`, `widgets`, `screens/chat.rs`) | messages, prompts, input, history, scroll, usage | fold events, route keys, draw | `EventLoop`, `Console`, `ChatInput`, `ChatView`, `Dialogs`, `Usage` |
| Transports (`suis-providers/transport`) | one stream | lower requests, assemble replies | `Streams`, `Requests`, `ToolCalls`, `Discovery` |
| Provider registry, discovery (`suis-providers`, `app/discovery.rs`) | statuses, capability cache | plan, probe, merge, detect | `Discovery`, `Capabilities`, `Providers` |
| Model and provider screens (`suis-cli/screens`) | cursor, filter, staged edits, a form | choose, retry, add, edit, remove, test | `Providers`, `Choosers`, `Dialogs` |
| Permissions screen (`screens/permissions.rs`) | its copy of both files | open, revoke, add a deny | `Permissions`, `Choosers` |
| Project initialisation (`screens/project_init.rs`, `event_loop.rs`) | answers, project files | the wizard, imports, what it writes | `Setup`, `Dialogs` |
| Configuration (`suis-core/config`, `projects/config.rs`) | settings | load, save | `Setup`, `Discovery`, `Providers` |
| Workspace, filesystem (`suis-core/workspace`, `filesystem`) | files, trash | write, create, delete, restore; patterns | `FileOps`, `TextTools` |

### How they interact

    keys --> UI task --(inbox: UiToAgent)--> agent task --> agent loop --> provider
              ^   \--(watch: interrupt)------^   |             |   ^--- stream, failure
              |                                  |             v
              +------(events: AgentEvent)--------+           tools --> executor gates
              ^                                                |  ^        | prompt
              +--(tests, discovery, caps) probes    files, plans.json <+  +-- answer

The UI and the agent are two asynchronous tasks. The UI sends commands on one
bounded FIFO channel and gets events on another; an interrupt is a third,
out-of-band signal, a watch channel every turn clones and marks as seen when it
starts. Choosing another model makes a new agent with new channels; the old one
finishes what it was told. Probes and detections of providers report to the UI on
channels of their own. All share files: the agent writes the project,
`plans.json` and `permissions.json`, and the UI's screens read and write
permissions, providers and project settings. Several programs may run in one
project, and share the cache of capabilities.

### What is hard

- *Interrupts.* Esc may land between any two awaits of a turn, of a turn nested in
  it, between two turns of a drive, or just after a turn ended. Each frame has its
  own receiver, so who consumes a press decides whether anything stops.
- *Unwinding.* Every way out of a turn (settled, failed, out of iterations,
  interrupted, inside a sub-agent, half way through a batch) must leave a history in
  which every tool call has its result, the mode as the user set it, and exactly one
  ending the UI understands.
- *Retries.* A stream that failed half way is re-sent only if nothing was shown, and
  with nothing of the failed attempt left.
- *Copies.* A session holds the rules it loaded, a permissions screen the files it
  read, an approval the plans it loaded, a probe the entry it was made for, a
  detection the cache it loaded; each writes a whole file, or a whole row, from it.
- *A driver that runs a model.* The model settles tasks when it likes, in the wrong
  turn, or never; the program may be killed between any two steps; the UI has moved
  on while its commands are still queued.
- *One stream of events, many surfaces.* Text, reasoning, tool cards, notices and
  prompts arrive while the user types, scrolls, clears and opens popups; a full
  channel stops its sender.
- *Text.* What models and servers write is cut anywhere, in four dialects, with
  several calls interleaved, and repaired when it does not parse; what tools return
  is cut, stubbed and pruned again.
- *First start and partial files.* A wizard writes several files, and each may be
  the last one written.

`PROJECT.json` lists the hazards line by line, with the properties about each.

## 2. The models

### AgentTurn

One turn of the loop with five parties: user, provider, tools, timer, loop. `pc`
names what the loop awaits; an action is the code between two awaits. `fr` holds the
locals of `run_turn_inner` and `dispatch_tools`; `parent` is what `run_subagent` set
aside (at most one frame: sub-agents may not start sub-agents). `unseen` is the
turn's watch receiver: `changed()` in a `select!` clears it (`InterruptInStream`,
`InterruptInBackoff`, `InterruptInNote`), `has_changed()` at a check does not.

| code | action |
|---|---|
| `run_turn`, `run_turn_step` | `StartTurn` |
| loop head: ceiling, interrupt, request | `Ceiling`, `InterruptAtTop`, `SendRequest` |
| answer or failure, retry and backoff | `Connected`, `ProviderFails`, `BackoffOver`, `InterruptInBackoff` |
| stream | `PieceChunk`, `CallChunk`, `InterruptInStream` |
| end of stream | `StreamEndsSettled`, `StreamEndsWithCalls`, `StreamEndsWithTextCall` |
| `run_verification` | `VerifyPasses`, `VerifyFails` |
| `dispatch_tools` | `RunScans`, `StartTool`, `FinishTool`, `InterruptInBatch`, `FinishBatch` |
| `run_subagent`, `subagent_summary` | `RefuseSubAgent`, `StartSubAgent`, `NoteConnected`, `NoteEnds`, `InterruptInNote` |

Message texts are left out; a message is its role, its calls, and for a result the
position of the call it answers. Streamed text carries the number of the attempt
that produced it, which is what a clean retry is about. Tools either run or are
refused (`FinishTool`); what their gates ask is the subject of `Permissions` and
`FileAccess`.

### ShellCommands, UserPolicy, Permissions

`ShellCommands` has the commands and the matcher: a command is its first word and
the rest. `UserPolicy` is the abstract specification: grants the user gave, denies
the user gave, and what may run unasked, with no files or caches. `Permissions` is
the code: sessions with the rules they loaded, the two files, prompts and answers,
screens with their copies, failed writes, files broken by hand, restarts. It
implements `UserPolicy` with the home project of each session as refinement mapping
(`PolicyHolds`). `granted`, `denied`, `given`, `kept`, `revoked` and `ran` are history
variables: no action reads them to decide anything.

| code | action |
|---|---|
| `PermissionStore::load`, `Session::new` | `Start` |
| `gate_bash` | `RunAllowed`, `Ask` |
| `record_command_decision` | `AllowOnce`, `AllowFor`, `DenyOnce`, `DenySession`, `DenyProject` |
| `save_to`, `save_split` | `Save`, `WriteFiles` |
| screen | `OpenScreen`, `RevokeGlobal`, `RevokeProject`, `AddDeny` |
| a hand edit gone wrong | `Break` |

### PlanProgress, ImplementSession

`PlanProgress` is the abstract specification of a plan's life: tasks are taken up
phase by phase and settled strictly in order. `ImplementSession` is the UI, the
agent task, the two channels, the driver, the task tool's fence and the plan file;
it implements `PlanProgress` (`PlanHolds`, with the plan file itself as mapping).
A turn is abstracted to the task calls it makes, the events it ends with and the
interrupt it may see; `AgentTurn` is the detail of that abstraction.

| code | action |
|---|---|
| `AgentBridge::spawn` loop | `ReceiveMessage`, `ReceiveClear`, `ReceiveCompact`, `ReceiveImplement`, `ReceiveStartVerify` |
| `run_implement_phase` | `DriverStops`, `TakeTask`, `StartTurn`, `CompleteTurn`, `Summarized` |
| turns and compaction | `TurnFails`, `TurnInterrupted`, `CompleteChat`, `EndCompact`, `SubAgentFails` |
| `execute_plan_backed` | `SettleTask`, `ReportTasks` |
| keys | `Submit`, `Compact`, `Clear`, `Press`, `StartImplement`, `ApproveVerify`, `DeclineVerify`, `ApproveNext`, `DeclineNext` |
| `apply_event` | `ApplyEvent`, with `MaybePromptVerify` and `MaybePromptNextStep` |
| exit, crash | `Restart` |

### The agent's tools and wire (composed in `MCTools`)

State machines:

- `FileAccess`: sessions over one workspace, each with its access log, its one call
  in progress (gate, prompt, body), its copy of the plan store, and an old session
  that runs on beside its successor; users and commands change files at any time. A
  file's content is what the tools tell apart; a name may resolve to another
  name's file, or to none of the workspace. It composes `ProcessRun`, a child
  process with its group, its two pipes, their reader threads, the poll against a
  deadline and background processes that outlive the child.
- `Requests`: the history as turns, compaction, `/clear` and the driver write it,
  and the request of each state as a pure function: assembler, pruning, stubs, then
  the lowering for each of the three wires. `of` in a result records which call it
  really answers, which the code does not know.
- `Capabilities`: two programs that resolve the models of one provider: load,
  probe several at a time, write the cache file back, not atomically; a death
  between any two steps; a time to live.
- `TaskTool`: the session's own list; the fenced update of a plan's current task;
  the work package that names it; a plan that is revised or taken away meanwhile.
- `FileOps`: write, create, delete to the trash and restore, where a move is a
  rename or else a copy and a removal, with a crash between any two steps, and
  timestamps that may repeat. The program itself calls only `ops::read` of these.

Algorithms, as operators beside reference definitions, each applied to every input
of a bounded set:

| module | code | compared with |
|---|---|---|
| `TextTools` | `apply_replace`, `locate_lines`, `reindent`; `ReadLinesTool`; `TreeTool`, `walk`; `wildcard_match`, `matches_any` | the one place a replacement may touch; the window asked for; the entries there are; matching by definition |
| `Excerpts` | `search`, `search_snippet`, `truncate_*`, `snapshot` | all matches in order; a piece that holds the match; whole characters and lines; all entries |
| `Diffs` | `unified`, `common_table`, `parse_edit_diff`, counts | a shortest patch from old to new |
| `Streams` | `lines_from`, the three `chat_stream`s and `chat`s, `assemble`, `ThinkSplitter`, `parse_text_tool_calls` | what was sent, however it was cut |
| `ToolCalls` | JSON repair, `validate_args`, unknown-tool suggestion | the arguments as meant; edit distance |
| `PlanDrafts` | `parse_draft`, `slugify`, `insert`, `plan_step_tasks`, `current_task` | faults in order; ids that name one thing |
| `Discovery` | `Provider::to_entry`, `plan_probes`, `probe_target`, `merge_entries`, error classes | what a test of the entry would reach; the verdict of the row against that of a chat |

`RECURSIVE` operators are only in `TextTools`, `Excerpts`, `Streams`, `ToolCalls`
and `PlanDrafts`, hence reached by `TaskTool`; the other modules can be proved about.

### The screens (composed in `MCScreens`)

- `Providers`: `providers.json`, the registry's plan, the probes in flight, the
  discovery state, the picker's rows, the form, the verification popup and the
  running session. Every probe reports at a time of its own; a restart reads what
  the file holds.
- `Console`: the transcript as the agent's events are folded into it, with popups,
  screens, commands and the end of turns. The agent's part is the events it may emit
  in order.
- `EventLoop`: the two channels of a bridge with their capacities, the reader thread
  of the terminal, the loop's `select!`, and an old bridge beside the new one.
- `ChatInput`, `ChatView`: the line with its caret, history, palette and
  completion; the wrapped transcript with scroll, fold and clicks.
- `Choosers`: cursor, filter, expansion and scroll of the model picker, the plan
  picker and the permissions screen, and tests whose result arrives later.
- `Dialogs`: the provider form, the permission menu, the plan review.
- `Setup`: the wizard's answers, what it imports, what a start reads and writes,
  with failures of writes and crashes between them, over several starts. What
  `.gitignore` held at first is remembered (`held`), to compare with later.
- `Usage`: exact and estimated token counts from the agent's events to the footer,
  the popup and the gauge.

Definitions whose comment begins with "Fault:" are not part of any specification:
each is a plausible bug in the definition after it, used to see that a property
notices it.

## 3. The runs

| run | question | distinct states |
|---|---|---|
| `turn_batches` | batches, sub-agents and presses: valid history, modes restored, endings that match | 705 thousand |
| `turn_stream` | streaming, retries, verification: clean retries, edits verified or the cap reached, no stale press, after a press the turn only winds down, every turn ends unless one wait lasts for ever | 1345 thousand |
| `permissions` | two sessions, two projects, screens, failed writes, broken files: `UserPolicy` is implemented, denies are kept and stay home | 164 thousand |
| `implement` | a two-step plan with exits, presses, `/clear`, `/compact`: order, ledger, agreement, progress, and the UI stays busy only with a turn, note or compaction that never ends | 412 thousand |
| `tools` | the agent's tools and what it sends and receives | 474 thousand |
| `screens` | the UI: what it stores, shows, and does with a key | 917 thousand |

Six more runs end in a counterexample to a sentence of the repository; section 6.

`tools` and `screens` each hold many parts that share no state that matters to their
properties. `sample` (in `MCTools`) and `part` (in `MCScreens`) choose in the initial
state which one runs; the others rest in an initial state. A sample of a pure
algorithm is an initial state without successors, on which the property compares the
algorithm with its reference. Each property of these runs conjoins what is asked of
the parts it names:

| property | what it asks |
|---|---|
| `FunnelTrue` | an edit changes a file that existed only after lines of it were read, and lines are read only after a search came up with it, in this session since `/clear`, under whatever names; and what was read may be edited, whatever others do |
| `GuardsTrue` | hidden files are never edited, hardened ones only with consent in the same call; plan ids are unique, every stored plan was approved and none is lost |
| `CommandReturns` | a command that was started returns, unless its child exited and left a background process on its pipes |
| `WireTrue` | each request is one its server takes: calls and results paired, roles alternating, names on Ollama's wire |
| `PruneTrue` | pruning leaves what it may not touch and goes on until the request fits; a stub points to a later result of the same call |
| `StreamsWhole` | lines, replies, reasoning and text calls do not depend on how the body is cut; a whole reply says what the streamed one does |
| `CallsSound` | arguments survive their repair; validation lets through what the body takes; plan drafts are refused for their first fault and can be implemented; ids are unique; the package and the fence agree; a `task` call settles at most one task, the plan's current one, and says "complete" exactly with the last |
| `TextsSound` | edits replace one place; listings, searches, snapshots and cuts show what they should; diffs are patches; nothing of the workspace is lost but by a write to its place |
| `DiscoveredSound` | an entry keeps its meaning; each provider is probed at one place; each that answered is listed where it did, with the key it was asked with unless its wire has none; a chat succeeds only where the row says online, and the row says so of a list only where a chat would succeed |
| `Detected` | what is recorded was found out about that model; fresh records are not probed; a save takes no record away |
| `ProvidersTrue` | picker, discovery and file agree; a session's capabilities were found out; saving one provider leaves the others |
| `TranscriptTrue` | the transcript is what the agent said and did since it was cleared, in order and once; a card shows the result of its own call; nothing streams or runs once the turn is over |
| `TasksAgree` | between the tasks nothing is lost, doubled or reordered, whoever was spawned meanwhile; an agent that waits for an answer waits for a prompt that is shown or on its way; the loop is kept from its keys only by a full inbox |
| `TopPopupAnswers` | on the chat screen the popup that takes the key is the one on top |
| `ViewTrue` | what is drawn is what is clicked; new rows do not move a view scrolled up; wrapping loses nothing; the line keeps caret, draft, history and completion together; counts are what servers said; the footer fits |
| `ChoicesTrue` | what a list highlights is what its keys act on, also when a provider's answer adds rows and moves the cursor to the preferred one; an edit takes away the row asked about |
| `SetupTrue` | a session uses what the user last agreed to, whatever crashed; nothing is protected that no line asks for; `.gitignore` keeps its lines; the verify command stays |
| `DialogsTrue` | a dialog returns what is shown in it; an error is of the draft it is shown with, and so is the result of a test that this form started; a dangerous command is never granted for good |

Where the code does break a rule in a narrow case, the property names the case and
exempts it (by a history variable such as `outrun`, `overtaken`, `orphaned`, `torn`, `wheeled`),
and section 6 lists it.

### Bounds, and why they are enough

- `turn_batches`: at most two chunks, hence batches of up to two calls, from
  {edit, delegate}, {edit, explore} or {search, read_lines}; two iterations in each
  frame, so that a batch, a sub-agent with a batch of its own, and both ceilings
  occur; one press, at any of the awaits. A press is idempotent (`unseen` is a flag),
  so a second one shows only what consumes the first (`turn_stream` has two); the loop
  has no state that counts beyond its limits, and all of them are reached. No retries
  here, they are the subject of the next run.
- `turn_stream`: no batches of several tools; instead text, reasoning and held-back
  fragments, one retry, one verification round, four iterations (edit, verify fails,
  edit, settle at the cap), and two presses, so that one may be consumed by a handoff
  note and another come after it.
- One turn per behaviour: a turn's frame is built afresh, what it inherits is the
  history (any valid one serves), the mode, and `unseen`, and `Press` may come before
  the turn. The iteration limit is 1000 in the code, 8 to 12 for sub-agents; the
  model takes it as a constant.
- `permissions`: two sessions may share a project or not; one command that is
  harmless, one dangerous, one that names a hidden path; one deny written by hand.
  Three events (prompts, restarts, screen edits, broken files, failed writes) suffice
  for a stale save over another session's; runs and looks at a screen are free. The
  proofs have no such bound. Sessions and projects are symmetric. The view leaves
  out `ran`, which no action reads; it is checked on every step as part of
  `PolicyHolds`.
- `implement`: a step with two work tasks and a verify task, then one with one work
  task: the smallest plan with a successor task, a phase change and a next step. Three
  user acts, exits or failed sub-agents; answers to prompts are free. At most two
  events wait when a turn volunteers one more (`MaxBacklog`); the ends of turns are
  never held back.
- `tools`, sessions: two sessions, alike, so one is attached first; a file that is
  plain, hidden, hardened or new, an alias and a name outside; three calls (search,
  read, edit is the funnel) and one event. The second session's project is fixed, the
  first's hides one file or two; the proofs of `FileAccessProofs` have no such bound.
- `tools`, conversation: messages cost 1, results 3, the budget is 6, so that two
  results never fit; two protected and one recent turn; seven messages, which is a
  work package, two rounds and a compaction. Ids are given by the server; those made
  up for text calls repeat (section 6).
- `tools`, detection: two processes, alike, so one of them begins; three models that
  answer, fail or were told, two probes at a time, one tick of the clock, which only
  goes forward.
- `tools`, tasks: a plan of one step with two work tasks and a verify task, or of two
  steps; four calls settle all of them, and one revision.
- `tools`, files: two paths, one hidden; one write, a clock of two timestamps that
  need not pass between two deletes.
- `tools`, samples: edits of texts up to four tokens by up to three; windows of files
  up to 6 lines in words of 16, which overflow; directories up to three entries of
  depth three; patterns and paths up to four; diffs of four lines against three;
  streams of four events and whole replies of three parts on three wires, bodies of
  four bytes cut twice, reasoning of four tokens of tags, or of two between whole tags,
  cut once, five pieces of text calls; arguments of two members nested once over nine
  strings; drafts of up to two steps; provider lists of up to two or three entries
  over one built-in, of each wire with and without a key; answers that are refused, late
  or broken, or of six statuses with a body as expected, an object of another kind,
  unreadable or cut.
- `screens`: two providers with three connections, of which two differ only in the
  key; three initial files, missing, broken and with both providers; two works in
  flight. Console: one prompt per search batch, two chunks or calls of the agent, two
  things the user adds (messages, notices, popups). Event loop: channels of 2 and 1
  (64 and 256 in the code) and a terminal channel of 1, two bridges, five keys: what
  matters is that each is full. Line: two letters and a newline, commands of which one
  begins the other, a history of two, rows of two characters. View: two messages of
  four rows in windows of two widths. Lists: two providers, three models, filters of
  one letter once or twice, a preferred provider that is one of the two or none,
  viewports of one and three rows. Setup: three `.gitignore` files, two starts, one
  fault. Dialogs: two forms, the second opened when the first was closed or saved,
  over lists with one id; two keys, a capital or a space, one test, which may outlive
  its form. Usage: two servers, of which one reports, two requests, prompts of 2 and
  3, two chunks.
- `tools`, `screens` and `ImplementSession` do not check deadlock: samples have no
  successor, and with the bounds exhausted the program waits for its user.

### Fairness

- `AgentTurn!FairSpec`: weak fairness of the loop's own steps (`Loop`) and of the calls
  that wait for nobody (`FinishImmediate`: those refused for the mode, and `task`).
  The runtime polls the agent task and timers fire. Nothing is assumed of the
  provider, of the user, for whom a permission prompt waits without a time limit
  (`executor.rs:502-513`, and `gate_plan`), or of a command, whose background
  processes may hold its pipes (`ProcessRun`). `TurnEnds` therefore names the waits
  that may last for ever: a stream or a note that stalls with no press to be seen; a
  response whose headers never come, which the code does not race with the interrupt;
  searches, a verification or a tool that do not come back. What it says is that
  there is no other way: no cycle of retries, iterations, verification rounds,
  refused calls and nested turns goes on for ever, and a press reaches a stalled stream.
- `ImplementSession!FairSpec`: weak fairness of the agent's steps between two waits
  (`Loop`) and of the UI's event handler. A turn, a note and a compaction need not end,
  and neither the model (which tasks it settles, if any) nor the user is obliged to
  do anything. `BusyEnds` exempts just these waits: otherwise no command or event is
  lost between the two sides, and no drive goes on without end.
- Both take it that the UI takes the agent's events. With more than 64 messages
  behind a running turn the two may wait for each other (section 6); the channels and
  their capacities are `EventLoop`'s.
- `FileAccess!SessionFairness`: the poll loop of `run_process` sleeps 20 ms at a time,
  the clock runs, and a result that is there is taken; that `try_wait` itself fails
  (`PollFails`) may happen and need not. Nothing is assumed of the command: it may
  never exit, and leave processes behind.
- `AgentTurn` checks deadlock (`Rest` is the idle program). In `Permissions` the bound
  on user acts runs out, as above.

## 4. What is proved

For all values of the constants that meet the named assumptions: `PlanShape` (a plan
has a step, each step a work task; what `parse_draft` guarantees, see `DraftSound`),
`Bounds`, `PermissionsConstants` (the global file, projects and sessions have
different names; hand-written denies are patterns), `FileConstants` (the workspace of
`FileAccess`: names resolve to files or outside; projects and contents have their types),
`EventLoopAssumption` (capacities are positive, bridges are numbered from 1),
`ConsoleBounds` (the bounds of `Console` are numbers),
`CapabilitiesAssumption` (models, offers and records have their types),
`ProviderConstants` (defaults are usable at home, and an initial `providers.json` lists no
id twice, as the program writes it: of a default listed twice by hand a removal would
disable the first entry and leave the second),
`SetupConstants` (a `.gitignore` is a sequence of lines, the import window has a row),
`ListedAssumption` (the picker lists a provider once and its models are sequences, the
plan screen opens on a plan at least, as `open_implement` demands, a viewport has a row),
`DialogConstants` (presets are drafts, the form has a language, sizes are numbers),
`TurnConstants` (the sets of tools, pieces and modes `AgentTurn` is given are subsets of the
program's, its ceilings are numbers).

`AgentTurnProofs`, for any tools, any ceilings and any number of turns and presses:

- `Inductive`: the invariant `AInv`. `Types` has the frame set aside as well as the
  running one, because a sub-agent's end puts it back; its ceilings (`iter <= limit`,
  `retries`, `rounds`) hold of both. `Nesting` says who runs: with a frame set aside, it
  is the user's and the running one a sub-agent's, in the mode of its profile; a nested
  frame never is at `idle`. `Events` says that `Done` is not among the events of a turn
  that runs; without it "only at the end" would not survive the next event. `Presses`
  ties `unseen` to `pressed` and `swallowed`: a press of this turn is unseen until a
  wait consumed it, and nothing else is unseen in a turn, since its start marks
  earlier presses as seen.
- `TypeCorrect`, `ModesReturn`, `ReconReadsOnly`, `EndingsMatch` and `NoPressIsStale` follow.
- `PressIsKept`, in every step: after a press that no handoff note consumed the turn
  only winds down. The loop does not go on (`GoesOn`), because that takes a look at the
  receiver just before; what a press does not stop is the end of the answer under way
  (`Completes`: the attempt a backoff waited for, its verification, the request for a
  handoff note), and `Stage` never falls, so each of these comes at most once and in this
  order. That a nested turn's end sets nothing off is a lemma over the places a
  frame's end may lead to.

- `KeptInductive`: the invariant `Kept`. `At` says what holds of a conversation and its
  frame at each place of the loop, `Waiting` what holds of one that waits for the rest
  of its batch, the running one or the one set aside: its last message holds the calls,
  and with the answers recorded so far it is paired. `EveryCallAnswered` alone is lost
  at the first call of a batch; `Waiting` is what a batch keeps whichever call runs, is
  refused, nested or cut off by an interrupt. The lemmas `PairedAppend` and
  `PairedBatch` say that a pairing survives a plain message and a batch with its answers.
- `CallsAnswered`, `EditsVerified`, `RetriesClean`. The second needs that an edit of a
  frame is in the conversation after the frame's anchor (`TurnEdited`), which is where
  the code looks to decide whether to verify; the third that all that is shown, held or
  collected carries the number of the current attempt.

`CommonLemmas` has what several proofs need of numbers and sequences: a least element
exists (`Least`, by the well-founded order of the library), and each rank is taken
(`EveryRank`, by a least counterexample, since induction over an operator is out of the
provers' reach); and `FlattenSeq` of a sequence with one more element at its end
(`FlattenAppend`), from the way its definition cuts it; that what holds of the empty
sequence and survives an element at the end holds of every sequence (`ByAppending`);
and that a finite set listed as a sequence is listed once (`SetToSeqIs`).

`PermissionsProofs`:

- `TypeCorrect`, and with it that session grants never reach a file, `Always` grants
  are only in the global file and project grants only in a project's.
- `Inductive`, `PolicyImplemented`. "Nothing runs unasked without a grant" is not
  inductive: the run is decided by a session's memory, and memory comes from files
  and screens. `IInv` therefore says of each copy (files, memory, screens) that its
  granting rules go back to grants the user gave that still hold where the copy has
  effect, and of each session that it still knows what it denied and has no prompt
  open about it. Each step of `Permissions` then maps to a step of `UserPolicy` or to
  its quiet step.
- `HandDeniesPersist`, `DeniesNotCopied`, by the invariant `HInv`: until a file is
  broken by hand every copy holds every hand-written deny that was not revoked, and
  each deny in a copy has one of two origins. The two must be proved together: a save
  decides by the file whether a deny is global, so a copy that had lost one would
  move it into the project file.

`PermissionsProofs`, about `Capabilities`, for any number of processes, models and probes at a time:

- `RunsSound`: the invariant `DetectionInv`. The file is torn or as it was last written whole
  (`whole`), and every copy of it holds only what was found out or told (`FileSound`).
  Of a resolution each place waits, is probed or was known (`ProbingSound`); without
  that the answers could not be shown to be of the models in their places, because
  they come in the order in which the probes land. A copy that was not outrun has
  every record of the file (`Keeps`), which says that saving it takes none away.
- `DetectionIsSound`: the file, and hence `whole`, changes only when one process stops
  writing, so what the save replaces is the file its copy is compared with.

`ImplementProofs`:

- `TypeCorrect`; `PlanImplemented`: a step of UI, agent, model or crash is a step of
  `PlanProgress` or leaves the plan alone.
- `SettlesInOrder`, `SettledForGood`: first of `PlanProgress`, then of the session
  through the refinement.
- `DriverMovesOn`: by `Behind`, which says that everything of the phase before the
  task in play is settled and was known to be when it was taken up. Without the
  second half a turn could settle an earlier task and count as progress.

- `LedgerIsTrue`, by `LInv`: entries are distinct tasks of the target, settled as they
  say, and, while a task is in play, those of its phase are in `settledBefore`. The last
  part is what makes the entries of the next turn new: `Newly` takes the tasks settled
  since. That an entry stays true is `SettledForGood`.
- `SidesDoAgree`, by `Stepped` and `Accounted`: the UI's step is the one the last session
  command on its way names, or the agent's when none is; and a busy UI has an agent at
  work, work on its way to it, or an ending on its way back. Both speak of what is in
  the channels, and the property is the case in which nothing is.

`FileAccessProofs`:

- `CallsSound`: the inductive invariant `FInv` of `FileAccess`. The log is exactly what
  results told the session (`Shape`), and a call past a gate has what the gate asked for
  and keeps it to its end (`CallSound`): a gated read is of a file that was searched, a
  gated or half-done edit is of a new file or one that was read, has the user's consent
  if the file is hardened, and at its write the file is not hidden. The properties speak
  of the write alone; the invariant is needed because the gate is passed several steps
  earlier, with prompts, other sessions, `/clear` and changes of the project between.
  What keeps it is that `/clear`, `/profile` and a new model touch only sessions
  without a call past a gate (`IdleSound`, `SelectModelSound`).
- `FunnelTheorem`: the formula `FunnelTrue` of the run `tools`, from `FInv` alone.
- `ProposalsSound`: the invariant `PInv` of the plan store. `PlansKept` says that an
  approval, which writes a whole copy of the store, loses no plan. So `PInv` says what a
  copy under review still is: as the store in everything but which tasks are settled
  (`Alike`), since tasks settle while the user thinks. No second approval can come in
  between, because proposals belong to the attached session and a new model drops the
  open review. An id is new because among one number more than there are plans one is
  free (`FreshIdIsNew`, by the pigeonhole principle) and so there is a first.
- `GuardsTheorem`: the formula `GuardsTrue`, from `FInv` and `PInv` together. Nothing
  follows about which tasks are settled: an approval undoes what was settled meanwhile
  (section 6).

`RequestsProofs`, for any arguments, costs, budget and bounds (`RequestConstants` only
asks that costs are positive and the recent turns fewer than the protected ones):

- `HistoryInOrder`: the invariant `IInv` of the history: calls and results follow each
  other (`Paired`), nobody answers before a user spoke (`Begun`), a work package comes
  before the turns, and an id given by the server says where its call is (`Placed`).
- `RequestsPaired` (`WireTrue`). A request is `Sent`, the same in a form that says nothing
  of places in the history. Stubs leave it (`StubsSent`), since they change a result's
  text alone; so does cutting out turns (`SplicedSent`), because it cuts from one user
  message to another and a call's results come before the next user message. On
  Anthropic's wire messages are merged one by one, so the invariant of the lowering
  (`Lowered`) is about a prefix of the request: the last message built holds the calls
  whose results are still to come (`Owed`). The lowering is a recursive function; that
  it has values at all is `LoweringsExist`, from the least length without any.
- `RequestsPruned` (`PruneSound` of the request) needs no ids. `RequestForms` says what a
  request may be: the history, with two kinds of stubs, or with turns `Dropped`. Then
  each part is arithmetic on places: which turn begins where in the history and in the
  request (`TurnsAre`), and how many are left (`TurnsLeft`, by an injection).
- `StubsTellTrue` (`PruneTrue`), if `ServerIds`: then the call a result is signed with is
  the one it answers (`SignatureIs`), and of the results of one call the last one is left
  (`LastResult`) and outlives the cut (`StubsHold`). Without `ServerIds` the stubs may be
  wrong, as section 6 says.

`ConsoleProofs`, about `EventLoop`, for channels of any capacity, any number of bridges,
keys and events:

- `Inductive`: the invariant `LInv`. `Mailed` numbers the messages of each mailbox from
  the last one taken, and the one the loop waits with is the last sent. `Asked` says
  that a request is the last thing its agent said, that its agent waits for it, and that
  it is in the channel or shown, never both, and that a shown prompt is of an agent that
  waits for that kind. `PromptsAgree` alone is lost when a bridge is spawned: its channel
  is dropped with the request in it, and only because the request is nowhere else does
  freeing those in the channel free all who waited. `NoneToCome` says that nothing was
  said or heard of a bridge that was not spawned, hence that its events begin at one.
- `TasksDoAgree` follows. That messages taken, in the mailbox and waited with make up
  those sent (`MailAgrees`) is an equality of sequences, by length and element.

`ConsoleProofs`, about `Console`, for any number of chunks, calls, keys and sessions, and
however many events the UI lags behind the agent:

- `ChannelTrue`: the invariant `IInv`. The transcript is behind what the agent has
  emitted by what is in the channel, so what holds of it cannot be said of it alone.
  `Coming` says that the events in the channel lead (`Leads`) from a state that fits the
  transcript, whether its last entry may stream and which cards run, to one that fits
  the place the agent is in: between turns nothing is open, a gate leaves open the
  cards of the calls it asks about. On the way an open stream goes on or is closed by
  the event after it, cards open in the order of their numbers, and the one that
  completes is the oldest; that is why "the oldest running card takes the result"
  (`apply_event`) finds the right one. `Tidy` and `Carded` say of the transcript that
  nothing streams above its last entry and that its running cards are those of the
  running calls, in order. The agent's steps extend the path at its end
  (`EmitsKeep`), an event taken shortens it at its start (`FoldKeeps`), the user's
  keys leave it (`PushKeeps`, `ClearKeeps`, `SpawnKeeps`).
- `TranscriptIsTrue`: with the channel empty and the agent idle the path has no step,
  so nothing is open at its start. That the text is what was said, once and in order,
  is an equality with a `FlattenSeq` which each event changes at its last entry only.
- `TopPopupAlwaysAnswers`, by `PopupsInv`: while a model's capabilities are verified
  only a notice can be open beside, because the session is new and the popup takes
  every key; then a comparison of the order of `handle_key` with that of `render`.

`ProvidersProofs`, for any providers, connections, models and works in flight:

- `ProvidersSound`: the invariant `PInv`. `PickerAgrees` is lost when a probe lands, since
  its outcome brings its own connection into the row; `ProbesTrue` says that a probe no
  save overtook asks the stored one. The startup discovery writes what was found when
  there was no file; `FirstRun` says that then only the defaults were probed, at home,
  so that the new file plans the rows there are. `OverlaysTrue` ties the form and a
  staged removal to the rows that were there when they were opened. That a file has no
  id twice is part of `Types`, for a removal disables the first entry alone.
- `CapsTrue` and "a record stays" need `OneDetection`: while one is under way its popup
  takes every key, so there is no other, and what it loaded before is still on disk.
- `ProvidersAreTrue`: also what is written. That other entries stay is an equality of the
  sequences that remain when the rest is taken out (`EntriesOf`); the lemmas on it
  follow the file entry by entry (`ByAppending`, from a shortest counterexample).

`ProvidersProofs`, about `Setup`, for any `.gitignore` and toolchains, and any number of
starts, failures and crashes:

- `SetupSound`: the invariant `SInv`. That a session has what the user agreed to is
  decided several writes, and perhaps a crash, earlier. `StoreTrue` says what a stop
  between two writes leaves: `.suis/` without `project.json` comes only from a stop
  after the directory was made or from a grant, and `agreed` is what the file may then
  hold. The writes left (`writing`) follow each other in the order of `persist_init`.
  `ImportsTrue` says that the entries of the wizard, and what is chosen from them, are
  lines that were there at first or the `.suis` of an earlier start; `IgnoreTrue` that
  what will be written to `.gitignore` begins with what it held.
- `SetupIsTrue`: with the bounds of the window by arithmetic from its two corrections
  at the ends of the list.

`ProvidersProofs`, about `Choosers`, for any providers, plans, rights and sizes:

- `ChoosersSound`: the invariant `ChInv`. An outcome may expand the preferred provider
  and move the cursor to its first model: `FocusedRow` says that this is a row of the
  list as it is then built. `TestsTrue` says that, unless two were, at most one test
  is under way, the target's, and a finished one is the target's; `CursorTrue` that
  the cursor is on a row unless a probe took rows away; `RightsTrue` that only one
  overlay is open and that a question asks about a row there is.
- `ChoicesAreTrue`: the cursor counts rows, the view counts lines, which a notice and the
  blank line above the row "add" make different. The lines are a `FlattenSeq` of the pieces of the rows, of
  which the last only is the row "add"; the line computed for the cursor is the one of
  its row by following the rows one by one, and scrolling keeps it in the view by
  arithmetic. That an edit takes one row away (`Lacks`) is shown of the section it is
  in, and carries over to the four sections one after the other.

`ProvidersProofs`, about `Dialogs`, for any characters, presets and sizes, and whenever
results arrive:

- `DialogsSound`: the invariant `DInv`. A result that lands is compared with the draft of
  that moment, so what must be kept is about the tests under way: unless the draft
  changed under one (`outrun`), each that the open form started (`Own`) is of the draft as
  it stands (`DraftTrue`). Those of a form closed before stay under way and land on
  whichever form is open; of them nothing is claimed. A form that is opened starts
  from one of the `Openings`, of which the invariant holds as it does at the start
  (`OpeningSteps`). Choosing a preset changes the draft without a trace; that nothing
  was tested or refused by then is `ChoosingTrue`. `SavedTrue` says that what was saved is the trimmed draft.
- `DialogsAreTrue`: with lemmas about the text functions. A slug begins and ends with a
  letter and has no two dashes together (`SlugIs`), it is its own slug (`SlugOfSlug`,
  where on the way a dash waits for the letter after it), and what is trimmed twice is
  trimmed once (`TrimmedTwice`), so that a saved entry passes the checks of the form.

Only model-checked: the tools, the wire and the screens, except `FunnelTrue` and
`GuardsTrue` of `FileAccess`, `WireTrue` and `PruneTrue` of `Requests`, `Detected` of
`Capabilities`, `ProvidersTrue` of `Providers`, `SetupTrue` of `Setup`, `ChoicesTrue` of
`Choosers`, `DialogsTrue` of `Dialogs`, `TasksAgree` of `EventLoop` and `TranscriptTrue`
and `TopPopupAnswers` of `Console`; the liveness properties `TurnEnds`, `BusyEnds` and
`CommandReturns` (liveness under fairness is out of the prover's reach); and what the
recursive algorithms compute.

## 5. What is not modelled, and why

- The resolution of a path against the workspace root: taken as given, as a function
  of the name (`Resolve` of `FileAccess`, the paths of `FileOps`). So a link that is made to
  point elsewhere between the gate (`executor.rs:240-251`) and the edit
  (`edit.rs:72-87`) is not modelled, and `FunnelTrue` says only that what is edited was
  read, not that its contents are still what was read. Reading and listing
  through `filesystem/ops.rs` change nothing.
- `Screen::Providers`, which nothing opens (its functions are those of the picker).
- `ImplementSession` leaves out `SetMode` and `SetProject` (no effect on plans), and
  its channels are unbounded; `EventLoop` has the bounds and the second agent.
  `ReceiveStartVerify` without a target is the code's own defensive branch; the UI
  never sends it so. Archiving of plans is left out.
- `Permissions` leaves out per-tool rules: the files may hold them, the evaluator
  reads them, and nothing in the program writes them. A pattern's star is only at
  its end, the only place the program puts one.
- `AgentTurn` leaves out texts, budgets and gauges, and takes gates by outcome.
- `Console`: of a batch of searches only one may ask; TLC lets the agent be no
  more than one burst of events ahead of what is folded, the proofs any number; "picker" stands for
  each screen one only returns from. `EventLoop` leaves the channels of tests,
  discovery and the interrupt to `Choosers`, `Providers` and `ImplementSession`.
- HTTP, JSON as bytes, the terminal, colours, Markdown, clipboard sequences, the
  wording of prompts and notices, the git tool's output, paths of configuration.
- `chat`, `resolve_models`, `resolve_capabilities`, `discover_with`, and the file
  operations but `read`, are library functions the command line program does not call;
  those with state are modelled all the same.

## 6. Where the code and its documents disagree

Runs that end in a counterexample:

- `turn_readonly_modes`: `mode.rs` says Plan and Chat mode cannot edit files even if
  the model hallucinates the call. `delegate` is intercepted before the executor's
  mode check, and its nested turn runs in Agent mode.
- `permissions_durable`: the README calls a Deny durable. A permissions screen writes
  back the copy it read when it was opened, without the deny given meanwhile.
- `implement_interrupt`: "An interrupt requested between tasks stops the driver before
  the next turn is spent." The silent handoff note consumes it and the driver goes on.
- `implement_confirm`: verify tasks are "started only after the user confirms". The
  fence allows the next open task of the step, whatever its phase, so the turn that
  settles the last work task may settle `v1`.
- `implement_resume`: the begin-verification prompt is to open when work is done with
  verification outstanding. A step resumed in that state ends before the UI has been
  told its tasks, and the prompt does not open.
- `setup_grants`: an Always grant is "All projects, persistent". The first start in a
  new project saves an empty store, and with it the global file.

Met while modelling, and exempted by name in the property concerned or left outside
what it says:

- Agent and UI. A press that races the end of a stream or of a backoff does not stop
  the verification command, the request for a sub-agent's handoff note or the next
  attempt; that note's stream consumes the press, and the parent goes on. The usage
  popup is drawn over a prompt that arrives later, though the prompt takes the keys;
  prompts are answered unseen on other screens. A queued
  message, a sub-agent's error or a nested `Interrupted` ends `busy` while the agent
  works, so Esc no longer interrupts. Reasoning after answer text, or a notice in the
  middle of a stream, leaves the upper message streaming for ever. `/clear`, a new step
  or a compaction while a call runs puts its result on another card.
  `agent_bridge.rs:13-14` says dropping the bridge ends the agent's task: it finishes
  its turn and every queued message first, unseen and uninterruptible. With more than
  64 messages behind a turn that waits for the loop, the program hangs.
- Tasks and plans. A turn that settled its task may settle the next, still `todo`, one
  (`task.rs:143` says only the one in `doing`); ids are positions, so after a revision
  a "done" may be another task's; `gate_plan` saves a copy from before the prompt.
- Tools. `run_process` joins its readers after a child exits, also when a background
  process holds the pipes. The note "results truncated" of `search` is never added.
  A first line longer than the cap is recorded as read though only the header is
  shown. An empty file never counts as read. Diff counts miss lines that begin like a
  header; texts that differ in the last newline have a diff without a change. `edit`
  with nothing to replace does not create an empty file.
- Context and wire. Ids invented for text calls and by Ollama repeat, and then stub
  unrelated results. `/compact` with no answer replaces the history by an empty
  summary; afterwards the pinned prefix ends at the summary. A stub may point to a
  stub. A line reader fails on a chunk that ends inside a character. OpenAI servers
  that leave out indices have their calls merged; a cut stream yields partial
  arguments. OpenAI and Anthropic drop reasoning of whole replies.
- Errors. `errors.rs:117` says a rate limit is not retried, but it is; 401 and 404 of
  Ollama and 400 of the others are retried as passing faults; a chat's timeout becomes
  "not running".
- Providers. A probe in flight when its provider is edited overtakes the save; a
  removed provider's outcome is recorded again; a renamed provider may take a disabled
  one's id; editing drops a literal key; a `providers.json` that does not parse is
  taken for empty and written over. `model_select.rs:356` says the toggle is a no-op
  under a filter: it flips what is seen after it. A test's result may land on another
  row or a draft changed meanwhile; and `apply_test_result` is to fold it into
  "whichever surface started it" (`event_loop.rs:277`), but it names no form: one
  closed while its test runs leaves it to the form opened next, which shows it as its
  own. A body of another kind is to be Unparsable (`registry.rs:37-39`), but each
  wire's list of models is `#[serde(default)]` (`openai_compat.rs:16-20`,
  `anthropic.rs:24-28`, `ollama.rs:21-25`): any JSON object is an online provider with
  no models, while OpenAI's chat refuses it. The capability cache is neither locked
  nor atomic.
- Usage. `LiveTurn`'s doc says an interrupted preview is folded into the total: its
  completion is lost. `/clear` and `/model` in a request drop it unsettled.
- Permissions screen. `event_loop.rs:736-738` says the revoke confirmation owns input, so
  the highlighted row is still the one it was opened on; the mouse wheel moves it, and
  "yes" revokes the row it moved to while the box names another (`wheeled`).
- Line and view. Esc and Tab in the palette leave the walk through the history on; a
  highlight left on a later row makes Enter run another command than the one
  completed; a view scrolled up on a short transcript does not follow later output.
- Setup. `.suis/` without `project.json` makes the next start skip the wizard; a
  `.gitignore` that has `.suis` among other lines gets it again, and is cut short by a
  crash in the write. A line that is there twice is two entries of the import, and may
  be both hidden and hardened.
- Files. A delete ignores hidden and hardened marks; a restore replaces what lives at
  the path; entries of the trash are in memory only, so that after a crash nothing can
  be restored through the API, though it is there.

## 7. Plan

Done: all modules above.

Left, in this order:

1. A refinement from `Console` and `EventLoop` to one abstract conversation between
   user and agent.
2. Two agents of `ImplementSession` on one `plans.json` after `/model`.
