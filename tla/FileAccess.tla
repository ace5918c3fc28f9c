------------------------------ MODULE FileAccess ------------------------------
(***************************************************************************)
(* The tools of an agent session at work on one workspace: the gates of    *)
(* crates/suis-agent/src/tools/executor.rs, the file tools, plan approval  *)
(* and commands.                                                           *)
(*                                                                         *)
(* A session makes one call at a time: gate, perhaps a prompt, body.  The  *)
(* UI listens to one session; choosing another model starts a new one, and *)
(* the old one runs on to the end of its turn over the same files.  Users  *)
(* and commands change files at any time.  File contents are abstracted to *)
(* what the tools tell apart; Names stands for the path arguments a model  *)
(* may give, several of which may resolve to one file.                     *)
(***************************************************************************)
EXTENDS Integers, Sequences, FiniteSets

CONSTANTS
    Sessions,           \* agent sessions of one program run
    Files,              \* files of the workspace, existing or not
    Names,              \* path arguments
    Elsewhere,          \* what a name outside the workspace resolves to
    Resolve,            \* what check_boundary makes of a name
    Walked,             \* files a search of the workspace reaches
    Projects,           \* project configurations: [hidden, hardened]
    Texts,              \* contents with at least one line
    InitialDisk,        \* contents at the start
    Drafts,             \* plan drafts
    Slug,               \* the slug of a draft's title
    None,               \* no plan id, no path argument
    MaxCalls,           \* bound: calls of all sessions together
    MaxEvents           \* bound: what the user and other programs do

Contents == {"missing", "empty", "binary"} \union Texts

ASSUME FileConstants ==
    /\ Sessions # {}
    /\ Elsewhere \notin Files
    /\ Resolve \in [Names -> Files \union {Elsewhere}]
    /\ Walked \subseteq Files
    /\ Projects \subseteq [hidden : SUBSET Files, hardened : SUBSET Files]
    /\ Texts \intersect {"missing", "empty", "binary"} = {}
    /\ InitialDisk \in [Files -> Contents]
    /\ {MaxCalls, MaxEvents} \subseteq Nat

VARIABLES
    disk,       \* the workspace's files
    plans,      \* .suis/plans.json: [id, draft, settled] in creation order
    attached,   \* the session the UI listens to
    started,    \* sessions spawned so far
    project,    \* per session, its copy of the project configuration
    log,        \* per session, its AccessLog
    call,       \* per session, the call in progress
    proc,       \* per session, the process a command waits for
    seen,       \* history: what results told the session since it or /clear began
    approved,   \* history: [id, draft] the user approved
    calls,      \* calls begun
    spent       \* events of the user and of other programs

vars == <<disk, plans, attached, started, project, log, call, proc, seen,
          approved, calls, spent>>

INSTANCE ProcessRun WITH Runners <- Sessions

NoCall == [at |-> "none", tool |-> "none", name |-> None, file |-> Elsewhere, granted |-> FALSE,
           fresh |-> FALSE, content |-> "missing", draft |-> None, revises |-> None,
           copy |-> <<>>]
NoLog == [searched |-> {}, read |-> {}]

TypeOK ==
    /\ disk \in [Files -> Contents]
    /\ \A i \in DOMAIN plans :
          plans[i].draft \in Drafts /\ plans[i].settled \in BOOLEAN
    /\ attached \in started /\ started \subseteq Sessions
    /\ project \in [Sessions -> Projects]
    /\ log \in [Sessions -> [searched : SUBSET Files, read : SUBSET Files]]
    /\ seen \in [Sessions -> [searched : SUBSET Files, read : SUBSET Files]]
    /\ \A s \in Sessions :
          /\ call[s].at \in {"none", "asking", "gated", "writing", "running"}
          /\ call[s].file \in Files \union {Elsewhere}
          /\ call[s].at = "writing" => call[s].tool = "edit" /\ call[s].file \in Files
          /\ (call[s].at = "running") = (proc[s] # Idle)
          /\ s \notin started => call[s] = NoCall
    /\ ProcTypeOK
    /\ calls \in 0 .. MaxCalls /\ spent \in 0 .. MaxEvents

Init ==
    /\ disk = InitialDisk
    /\ plans = <<>>
    /\ \E s \in Sessions : attached = s /\ started = {s}
    /\ \E p \in Projects : project = [s \in Sessions |-> p]
    /\ log = [s \in Sessions |-> NoLog] /\ seen = log
    /\ call = [s \in Sessions |-> NoCall]
    /\ ProcInit
    /\ approved = {}
    /\ calls = 0 /\ spent = 0

-----------------------------------------------------------------------------
(* Helpers.                                                                *)

Exists(f) == disk[f] # "missing"
Readable(f) == disk[f] \in Texts \union {"empty"}
Hidden(s, f) == f \in project[s].hidden
Hardened(s, f) == f \in project[s].hardened

\* Fault: the access log goes by the path as the model wrote it.
KeyAsGiven(n) == IF n \in Files THEN n ELSE Elsewhere

\* rel_key: the log goes by the file a name resolves to.
Key(n) == Resolve[n]

Spend == spent < MaxEvents /\ spent' = spent + 1

Finish(s) == call' = [call EXCEPT ![s] = NoCall]

\* A session that is idle begins a call; an old session makes the calls left
\* in its turn.
Begin(s) ==
    /\ s \in started
    /\ call[s] = NoCall
    /\ calls < MaxCalls
    /\ calls' = calls + 1

\* Fault: a request that nobody hears counts as consent.
AskOrAllow(s, c) ==
    IF s = attached THEN [c EXCEPT !.at = "asking"] ELSE [c EXCEPT !.at = "gated"]

\* Prompting works only while the UI listens: else the request is a denial.
AskOrDeny(s, c) == IF s = attached THEN [c EXCEPT !.at = "asking"] ELSE NoCall

\* gate_read_lines and gate_edit_funnel, evaluated after every prompt: names
\* outside the workspace are exempt (their body will refuse them).
FunnelPasses(s, c) ==
    \/ c.file = Elsewhere
    \/ c.tool = "read" /\ Key(c.name) \in log[s].searched
    \/ c.tool = "edit" /\ (~Exists(c.file) \/ Key(c.name) \in log[s].read)
    \/ c.tool = "search"

PastFunnel(s, c) ==
    IF FunnelPasses(s, c)
    THEN [c EXCEPT !.at = "gated", !.fresh = c.file # Elsewhere /\ ~Exists(c.file)]
    ELSE NoCall

\* gate_path, then the funnel if no prompt is needed.
Gated(s, c) ==
    IF c.file = Elsewhere THEN AskOrDeny(s, c)
    ELSE IF c.tool = "edit" /\ Hidden(s, c.file) THEN NoCall
    ELSE IF c.tool = "edit" /\ Hardened(s, c.file) THEN AskOrDeny(s, c)
    ELSE PastFunnel(s, c)

-----------------------------------------------------------------------------
(* Calls on files.                                                         *)

CallFile(s, tool, n) ==
    /\ Begin(s)
    /\ call' = [call EXCEPT ![s] = Gated(s, [NoCall EXCEPT !.tool = tool, !.name = n,
                                                            !.file = Resolve[n]])]
    /\ UNCHANGED <<disk, plans, attached, started, project, log, proc, seen, approved, spent>>

\* A search without a path needs no gate and looks at the whole workspace.
CallSearchAll(s) ==
    /\ Begin(s)
    /\ call' = [call EXCEPT ![s] = [NoCall EXCEPT !.tool = "searchAll", !.at = "gated"]]
    /\ UNCHANGED <<disk, plans, attached, started, project, log, proc, seen, approved, spent>>

\* The user answers a prompt about a path or a command.
AnswerPath(s, yes) ==
    /\ call[s].at = "asking" /\ call[s].tool \in {"read", "search", "edit"}
    /\ call' = [call EXCEPT ![s] =
                    IF yes THEN PastFunnel(s, [@ EXCEPT !.granted = TRUE]) ELSE NoCall]
    /\ UNCHANGED <<disk, plans, attached, started, project, log, proc, seen, approved,
                   calls, spent>>

\* The walk reports files with a match: existing text files that are not hidden.
RunSearchAll(s) ==
    /\ call[s].at = "gated" /\ call[s].tool = "searchAll"
    /\ \E found \in SUBSET {f \in Walked : disk[f] \in Texts /\ ~Hidden(s, f)} :
          /\ log' = [log EXCEPT ![s].searched = @ \union found]
          /\ seen' = [seen EXCEPT ![s].searched = @ \union found]
    /\ Finish(s)
    /\ UNCHANGED <<disk, plans, attached, started, project, proc, approved, calls, spent>>

\* A search scoped at one file records it, whether it matches or not; scoped at
\* a missing one it finds nothing, and outside the workspace it is refused.
RunSearch(s) ==
    /\ call[s].at = "gated" /\ call[s].tool = "search"
    /\ LET f == call[s].file
           found == IF f # Elsewhere /\ Exists(f) THEN {f} ELSE {}
       IN /\ log' = [log EXCEPT ![s].searched = @ \union {Key(call[s].name) : x \in found}]
          /\ seen' = [seen EXCEPT ![s].searched = @ \union found]
    /\ Finish(s)
    /\ UNCHANGED <<disk, plans, attached, started, project, proc, approved, calls, spent>>

\* The read records the file if it returned lines: not if the file is empty, if
\* it does not decode, or if the range lies past its end.
RunRead(s) ==
    /\ call[s].at = "gated" /\ call[s].tool = "read"
    /\ LET f == call[s].file
           got == IF f # Elsewhere /\ disk[f] \in Texts /\ ~Hidden(s, f) THEN {f} ELSE {}
       IN \E pastEnd \in BOOLEAN :
             LET lines == IF pastEnd THEN {} ELSE got
             IN /\ log' = [log EXCEPT ![s].read = @ \union {Key(call[s].name) : x \in lines}]
                /\ seen' = [seen EXCEPT ![s].read = @ \union lines]
    /\ Finish(s)
    /\ UNCHANGED <<disk, plans, attached, started, project, proc, approved, calls, spent>>

\* The body of an edit up to its write: boundary, hidden files, the present
\* contents, the replacement.  A replacement needs a readable file and a unique
\* match; whole contents need nothing.  An equal result is not written, hence
\* an empty new file is not created.
RunEdit(s) ==
    /\ call[s].at = "gated" /\ call[s].tool = "edit"
    /\ LET f == call[s].file
           ok == f # Elsewhere /\ ~Hidden(s, f)
           old == IF Readable(f) THEN disk[f] ELSE "empty"
       IN \/ Finish(s)              \* refused, no unique match, no arguments
          \/ /\ ok
             /\ \E content \in Texts \union {"empty"}, replace \in BOOLEAN :
                   /\ replace => Readable(f)
                   /\ call' = [call EXCEPT ![s] =
                                 IF content = old THEN NoCall
                                 ELSE [@ EXCEPT !.at = "writing", !.content = content]]
    /\ UNCHANGED <<disk, plans, attached, started, project, log, proc, seen, approved,
                   calls, spent>>

\* The write itself, which may fail.  Nothing is looked at again.
WriteEdit(s) ==
    /\ call[s].at = "writing"
    /\ \/ disk' = [disk EXCEPT ![call[s].file] = call[s].content]
       \/ UNCHANGED disk
    /\ Finish(s)
    /\ UNCHANGED <<plans, attached, started, project, log, proc, seen, approved, calls, spent>>

-----------------------------------------------------------------------------
(* Plans.                                                                  *)

Ids(store) == {store[i].id : i \in DOMAIN store}

\* The slug, or the slug with the first number that is not taken.
FreshId(store, draft) ==
    LET taken(n) == <<Slug[draft], n>> \in Ids(store)
        n == CHOOSE n \in 1 .. (Len(store) + 1) :
                ~taken(n) /\ \A m \in 1 .. (n - 1) : taken(m)
    IN <<Slug[draft], n>>

\* A proposal: the store is loaded (a revision of an unknown plan ends here),
\* then the user is asked with the copy in hand.
CallPlan(s, draft, revises) ==
    /\ Begin(s)
    /\ call' = [call EXCEPT ![s] =
                    IF revises # None /\ revises \notin Ids(plans) THEN NoCall
                    ELSE AskOrDeny(s, [NoCall EXCEPT !.tool = "plan", !.draft = draft,
                                                     !.revises = revises, !.copy = plans])]
    /\ UNCHANGED <<disk, plans, attached, started, project, log, proc, seen, approved, spent>>

RejectPlan(s) ==
    /\ call[s].at = "asking" /\ call[s].tool = "plan"
    /\ Finish(s)
    /\ UNCHANGED <<disk, plans, attached, started, project, log, proc, seen, approved,
                   calls, spent>>

\* The copy with the approved draft in it: tasks start anew.
PlanOf(c) == [id |-> IF c.revises = None THEN FreshId(c.copy, c.draft) ELSE c.revises,
              draft |-> c.draft, settled |-> FALSE]

WithDraft(c) ==
    IF c.revises = None THEN Append(c.copy, PlanOf(c))
    ELSE [i \in DOMAIN c.copy |-> IF c.copy[i].id = c.revises THEN PlanOf(c) ELSE c.copy[i]]

\* The user approves: the copy is completed and written, without an await in
\* between.  The write may fail.
ApprovePlan(s) ==
    /\ call[s].at = "asking" /\ call[s].tool = "plan"
    /\ \/ /\ plans' = WithDraft(call[s])
          /\ approved' = approved \union
                {[id |-> PlanOf(call[s]).id, draft |-> call[s].draft]}
       \/ UNCHANGED <<plans, approved>>
    /\ Finish(s)
    /\ UNCHANGED <<disk, attached, started, project, log, proc, seen, calls, spent>>

\* The task tool settles a task of a plan: load, change, save in one body.
SettleTask(s, i) ==
    /\ Begin(s)
    /\ plans' = [plans EXCEPT ![i].settled = TRUE]
    /\ UNCHANGED <<disk, attached, started, project, log, call, proc, seen, approved, spent>>

-----------------------------------------------------------------------------
(* Commands.                                                               *)

\* A command that the policy or the user lets run (Permissions has the rules).
CallCommand(s) ==
    /\ Begin(s)
    /\ call' = [call EXCEPT ![s] = [NoCall EXCEPT !.tool = "command", !.at = "running"]]
    /\ Spawn(s)
    /\ UNCHANGED <<disk, plans, attached, started, project, log, seen, approved, spent>>

CommandRuns(s) ==
    /\ ProcToolStep(s) \/ PollFails(s) \/ ProcCommandStep(s)
    /\ UNCHANGED <<disk, plans, attached, started, project, log, call, seen, approved,
                   calls, spent>>

CommandDone(s) ==
    /\ Collect(s)
    /\ Finish(s)
    /\ UNCHANGED <<disk, plans, attached, started, project, log, seen, approved, calls, spent>>

\* A command, an editor or another program changes a file.
ChangeFile(f) ==
    /\ Spend
    /\ \E content \in Contents \ {disk[f]} : disk' = [disk EXCEPT ![f] = content]
    /\ UNCHANGED <<plans, attached, started, project, log, call, proc, seen, approved, calls>>

-----------------------------------------------------------------------------
(* The session's life.                                                     *)

\* Fault: choosing a model leaves the open plan review to be answered.
DroppedKeepingPlan(c) == c

\* What becomes of an open prompt when its session is replaced: a plan review is
\* dropped, which rejects it; a permission prompt that was shown stays.
Dropped(c) == IF c.at = "asking" /\ c.tool = "plan" THEN NoCall ELSE c

\* Choosing a model: a new session with nothing in it takes the UI over.  The
\* old one's prompt not yet shown is dropped with its channel, a denial.
SelectModel(s) ==
    /\ Spend
    /\ s \notin started
    /\ started' = started \union {s}
    /\ attached' = s
    /\ call' = [call EXCEPT ![attached] = Dropped(@)]
    /\ project' = [project EXCEPT ![s] = project[attached]]
    /\ UNCHANGED <<disk, plans, log, proc, seen, approved, calls>>

DropPrompt(s) ==
    /\ call[s].at = "asking" /\ s # attached
    /\ Finish(s)
    /\ UNCHANGED <<disk, plans, attached, started, project, log, proc, seen, approved,
                   calls, spent>>

\* Fault: /clear forgets the conversation and keeps the access log.
ClearKeepingLog(s) ==
    /\ Spend
    /\ s = attached /\ call[s] = NoCall
    /\ seen' = [seen EXCEPT ![s] = NoLog]
    /\ UNCHANGED <<disk, plans, attached, started, project, log, call, proc, approved, calls>>

\* /clear, between two turns.
Clear(s) ==
    /\ Spend
    /\ s = attached /\ call[s] = NoCall
    /\ log' = [log EXCEPT ![s] = NoLog]
    /\ seen' = [seen EXCEPT ![s] = NoLog]
    /\ UNCHANGED <<disk, plans, attached, started, project, call, proc, approved, calls>>

\* /profile refresh, between two turns.
SetProject(s, p) ==
    /\ Spend
    /\ s = attached /\ call[s] = NoCall
    /\ p # project[s]
    /\ project' = [project EXCEPT ![s] = p]
    /\ UNCHANGED <<disk, plans, attached, started, log, call, proc, seen, approved, calls>>

-----------------------------------------------------------------------------

FileStep(s) ==
    \/ \E n \in Names, tool \in {"read", "search", "edit"} : CallFile(s, tool, n)
    \/ CallSearchAll(s)
    \/ RunSearchAll(s) \/ RunSearch(s) \/ RunRead(s) \/ RunEdit(s) \/ WriteEdit(s)
    \/ \E yes \in BOOLEAN : AnswerPath(s, yes)

PlanStep(s) ==
    \/ \E draft \in Drafts, revises \in Ids(plans) \union {None} : CallPlan(s, draft, revises)
    \/ RejectPlan(s) \/ ApprovePlan(s)
    \/ \E i \in DOMAIN plans : SettleTask(s, i)

CommandStep(s) == CallCommand(s) \/ CommandRuns(s) \/ CommandDone(s)

SessionStep(s) ==
    \/ SelectModel(s) \/ DropPrompt(s) \/ Clear(s)
    \/ \E p \in Projects : SetProject(s, p)

Next ==
    \/ \E s \in Sessions : FileStep(s) \/ PlanStep(s) \/ CommandStep(s) \/ SessionStep(s)
    \/ \E f \in Files : ChangeFile(f)

Spec == Init /\ [][Next]_vars

\* The process loop and the clock run, and a result that is there is taken.
SessionFairness ==
    \A s \in Sessions :
        /\ WF_vars(ProcToolStep(s) /\ CommandRuns(s))
        /\ WF_vars(CommandDone(s))

FairSpec == Spec /\ SessionFairness

-----------------------------------------------------------------------------
(* Properties; the ones with primes are asked of every step.               *)

\* The step in which an edit of session s is written.
Writes(s) == call[s].at = "writing" /\ call'[s].at # "writing" /\ disk' # disk

\* The funnel: a file that existed when its edit was gated is changed only if
\* read_lines has returned lines of it to this session since it began or /clear,
\* and lines are returned only of files a search has come up with since then,
\* under whatever names the file was searched, read and edited.
FunnelHeld ==
    \A s \in Sessions :
        /\ Writes(s) => call[s].fresh \/ call[s].file \in seen[s].read
        /\ \A f \in seen'[s].read \ seen[s].read : f \in seen[s].searched

\* The other direction: a file whose lines this session was given since it began
\* or /clear is open to its edits, whatever other sessions and users do.  (A file
\* that is empty when read returns no lines and does not count as read.)
FunnelOpens(s) == seen[s].read \subseteq log[s].read

\* An edit changes no file its session's project hides, and a hardened one only
\* after the user's consent in the same call, in whatever order prompts, answers,
\* project changes and other sessions come.
GuardsHold ==
    \A s \in Sessions : Writes(s) =>
        /\ call[s].file \notin project[s].hidden
        /\ call[s].file \in project[s].hardened => call[s].granted

\* Plan ids are unique, every stored plan is one the user approved, and no plan
\* is lost to a session's copy of the store, though each approval writes a copy
\* from before the prompt.
PlansKept ==
    /\ \A i, j \in DOMAIN plans' : plans'[i].id = plans'[j].id => i = j
    /\ \A i \in DOMAIN plans' : [id |-> plans'[i].id, draft |-> plans'[i].draft] \in approved'
    /\ Ids(plans) \subseteq Ids(plans')

\* The funnel, in every state and every step.
FunnelTrue == [](\A s \in Sessions : FunnelOpens(s)) /\ [][FunnelHeld]_vars

\* What edits and approvals may do to files and plans, in every step.
GuardsTrue == [][GuardsHold /\ PlansKept]_vars
=============================================================================
