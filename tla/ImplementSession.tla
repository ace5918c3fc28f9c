-------------------------- MODULE ImplementSession --------------------------
(***************************************************************************)
(* Implementing a stored plan: the terminal UI, the agent task behind its   *)
(* bridge and .suis/plans.json.                                             *)
(*   UI      crates/suis-cli/src/app/{state,event_loop,input}.rs            *)
(*   bridge  crates/suis-cli/src/app/agent_bridge.rs                        *)
(*   driver  crates/suis-agent/src/runtime/agent.rs, run_implement_phase    *)
(*   fence   crates/suis-agent/src/tools/task.rs, execute_plan_backed       *)
(* The UI and the agent run concurrently and talk through two FIFO channels *)
(* and an interrupt signal; plans.json is the only thing a restart keeps.   *)
(* A turn (AgentTurn) is abstracted to the task calls it makes, the events  *)
(* that end it and the interrupt it may see.                                *)
(***************************************************************************)
EXTENDS PlanProgress, Sequences, FiniteSets

CONSTANTS
    MaxActs,    \* bound: user acts, exits and failed sub-agents of a behaviour
    MaxBacklog  \* bound: events waiting when a turn volunteers one more

ASSUME Bounds == MaxActs \in Nat /\ MaxBacklog \in Nat

VARIABLES
    inbox,          \* UiToAgent messages on their way to the agent
    events,         \* AgentEvents on their way to the UI
    pc,             \* what the agent task is at, see Places
    target,         \* session.implement: a step, or 0
    phase,          \* locals of run_implement_phase: the phase,
    current,        \*   the task it points at (0 before the first),
    settledBefore,  \*   what was settled before the task's turn
    ledger,         \* session.ledger: what was settled, in order
    driverPress,    \* the driver's receiver has an interrupt it has not seen
    turnPress,      \* the running turn's (or compaction's) receiver has one
    ui,             \* the AppState fields about turns and implementation
    acts            \* bound counter

agentVars == <<pc, target, phase, current, settledBefore, ledger, turnPress>>
vars == <<plan, inbox, events, agentVars, driverPress, ui, acts>>

Places == {"idle", "chat", "compact", "top", "seeded", "turn", "summary"}
Driving == pc \in {"top", "seeded", "turn", "summary"}
InTurn == pc \in {"chat", "turn"}

NoTasks == [step |-> 0, status |-> <<>>]
Mirror(s) == [step |-> s, status |-> plan[s]]

FreshUi ==
    [busy |-> FALSE, interrupting |-> FALSE, step |-> 0, tasks |-> NoTasks,
     askVerify |-> FALSE, verifyAsked |-> FALSE, askNext |-> 0, nextAsked |-> FALSE]

Command(kind) == [kind |-> kind]
ImplementStep(s) == [kind |-> "implement", step |-> s]
Event(kind) == [kind |-> kind]
TaskUpdated(tasks) == [kind |-> "tasks", tasks |-> tasks]

Send(c) == inbox' = Append(inbox, c)
Emit(e) == events' = Append(events, e)

-----------------------------------------------------------------------------
(* The agent task: AgentBridge::spawn's loop over the inbox.               *)

Receive(kind) ==
    /\ pc = "idle" /\ inbox # <<>> /\ Head(inbox).kind = kind
    /\ inbox' = Tail(inbox)
    /\ UNCHANGED <<plan, ui, acts>>

ReceiveMessage ==
    /\ Receive("message")
    /\ pc' = "chat" /\ turnPress' = FALSE
    /\ UNCHANGED <<events, target, phase, current, settledBefore, ledger, driverPress>>

\* Fault: /clear leaves the implementation session in place.
ReceiveClearKeepingTarget ==
    /\ Receive("clear")
    /\ ledger' = <<>>
    /\ UNCHANGED <<events, pc, target, phase, current, settledBefore, driverPress,
                   turnPress>>

ReceiveClear ==
    /\ Receive("clear")
    /\ target' = 0 /\ ledger' = <<>>
    /\ UNCHANGED <<events, pc, phase, current, settledBefore, driverPress, turnPress>>

ReceiveCompact ==
    /\ Receive("compact")
    /\ pc' = "compact" /\ turnPress' = FALSE
    /\ UNCHANGED <<events, target, phase, current, settledBefore, ledger, driverPress>>

\* run_implement_phase up to its loop.
Drive(p) ==
    /\ pc' = "top" /\ phase' = p /\ current' = 0 /\ settledBefore' = {}
    /\ driverPress' = FALSE
    /\ UNCHANGED <<events, turnPress>>

\* Fault: the ledger of the previous session is handed on.
ReceiveImplementKeepingLedger ==
    /\ Receive("implement")
    /\ target' = Head(inbox).step /\ UNCHANGED ledger
    /\ Drive("work")

\* Fault: a zero-based step index taken for a one-based one.
ReceiveImplementOffByOne ==
    /\ Receive("implement")
    /\ target' = Head(inbox).step + 1 /\ ledger' = <<>>
    /\ Drive("work")

ReceiveImplement ==
    /\ Receive("implement")
    /\ target' = Head(inbox).step /\ ledger' = <<>>
    /\ Drive("work")

ReceiveStartVerify ==
    /\ Receive("verify")
    /\ IF target = 0
       THEN Emit(Event("error")) /\ UNCHANGED <<pc, phase, current, settledBefore,
                                               driverPress, turnPress>>
       ELSE Drive("verify")
    /\ UNCHANGED <<target, ledger>>

-----------------------------------------------------------------------------
(* The driver: run_implement_phase.                                        *)

PhaseTasks == {t \in Tasks(target) : PhaseOf(target, t) = phase}
SettledOfPhase(p) == {t \in PhaseTasks : Settled(p[target][t])}
PhaseOpen == \E t \in PhaseTasks : Open(plan[target][t])

\* The agent returns to its inbox; the driver's locals and receivers are gone.
BackToInbox ==
    /\ pc' = "idle" /\ phase' = "work" /\ current' = 0 /\ settledBefore' = {}
    /\ driverPress' = FALSE /\ turnPress' = FALSE
    /\ UNCHANGED <<plan, inbox, target, ledger, ui, acts>>

EndWith(kind) == Emit(Event(kind)) /\ BackToInbox

\* Fault: an interrupted driver returns without telling the UI.
DriverStopsSilently ==
    /\ pc = "top"
    /\ \/ driverPress /\ BackToInbox /\ UNCHANGED events
       \/ ~driverPress /\ EndWith("error")
       \/ ~driverPress /\ ~PhaseOpen /\ EndWith("done")

\* plans.json may be unreadable; an interrupt or a finished phase ends the loop.
DriverStops ==
    /\ pc = "top"
    /\ \/ driverPress /\ EndWith("interrupted")
       \/ ~driverPress /\ EndWith("error")
       \/ ~driverPress /\ ~PhaseOpen /\ EndWith("done")

\* The first open task of the phase is marked `doing`, best effort, and the
\* panel is refreshed.
MarkDoing(t, saved) ==
    plan' = IF saved THEN [plan EXCEPT ![target][t] = "doing"] ELSE plan

TakeTask ==
    /\ pc = "top" /\ ~driverPress
    /\ \E t \in PhaseTasks, saved \in BOOLEAN :
          /\ FirstOpenOf(target, plan[target], phase, t)
          /\ MarkDoing(t, saved)
          /\ current' = t
    /\ settledBefore' = SettledOfPhase(plan)
    /\ events' = Append(events, TaskUpdated([step |-> target, status |-> plan'[target]]))
    /\ pc' = "seeded"
    /\ UNCHANGED <<inbox, target, phase, ledger, driverPress, turnPress, ui, acts>>

\* run_turn_step: the turn's own receiver starts with nothing unseen.
StartTurn ==
    /\ pc = "seeded"
    /\ pc' = "turn" /\ turnPress' = FALSE
    /\ UNCHANGED <<plan, inbox, events, target, phase, current, settledBefore,
                   ledger, driverPress, ui, acts>>

\* Fault: a turn without progress does not stop the driver.
CompleteTurnStalled ==
    /\ pc = "turn"
    /\ pc' = "summary"
    /\ UNCHANGED <<plan, inbox, events, target, phase, current, settledBefore,
                   ledger, driverPress, turnPress, ui, acts>>

\* Nothing newly settled hands control back to the user; a re-read that fails
\* counts as an empty one, whatever the turn settled.
CompleteTurn ==
    /\ pc = "turn"
    /\ \/ EndWith("done")
       \/ /\ ~(SettledOfPhase(plan) \subseteq settledBefore)
          /\ pc' = "summary"
          /\ UNCHANGED <<plan, inbox, events, target, phase, current, settledBefore,
                         ledger, driverPress, turnPress, ui, acts>>

\* The tasks settled by the turn, as ledger entries in the step's order.
Newly ==
    LET settled == SettledOfPhase(plan) \ settledBefore
        Nth(i) == CHOOSE t \in settled : Cardinality({u \in settled : u <= t}) = i
    IN  [i \in 1..Cardinality(settled) |->
           [task |-> Nth(i), blocked |-> plan[target][Nth(i)] = "blocked"]]

\* The silent handoff note ends: written or failed, or abandoned because the
\* driver's receiver has an interrupt, which that consumes.
Summarized ==
    /\ pc = "summary"
    /\ \/ UNCHANGED driverPress
       \/ driverPress /\ driverPress' = FALSE
    /\ ledger' = ledger \o Newly
    /\ pc' = "top" /\ turnPress' = FALSE
    /\ UNCHANGED <<plan, inbox, events, target, phase, current, settledBefore,
                   ui, acts>>

-----------------------------------------------------------------------------
(* What a turn does here, the driver's or one the user typed.              *)

\* Fault: the tool takes any status the model names.
SettleTaskToAny ==
    /\ InTurn /\ target # 0 /\ Len(events) < MaxBacklog
    /\ \E t \in Tasks(target), status \in Status :
          /\ FirstOpen(target, plan[target], t)
          /\ plan' = [plan EXCEPT ![target][t] = status]
    /\ events' = Append(events, TaskUpdated([step |-> target, status |-> plan'[target]]))
    /\ UNCHANGED <<inbox, agentVars, driverPress, ui, acts>>

\* The task tool in an implementation session: only the first open task of the
\* step, only to done or blocked, saved at once; the panel is refreshed.
SettleTask ==
    /\ InTurn /\ target # 0 /\ Len(events) < MaxBacklog
    /\ \E t \in Tasks(target), status \in {"done", "blocked"} :
          /\ FirstOpen(target, plan[target], t)
          /\ plan' = [plan EXCEPT ![target][t] = status]
    /\ events' = Append(events, TaskUpdated([step |-> target, status |-> plan'[target]]))
    /\ UNCHANGED <<inbox, agentVars, driverPress, ui, acts>>

\* A refused task call, or one on the session's own list: the panel is told.
ReportTasks ==
    /\ InTurn /\ Len(events) < MaxBacklog
    /\ Emit(TaskUpdated(IF target = 0 THEN NoTasks ELSE Mirror(target)))
    /\ UNCHANGED <<plan, inbox, agentVars, driverPress, ui, acts>>

\* A sub-agent's turn fails; its error reaches the UI and the turn goes on.
SubAgentFails ==
    /\ InTurn /\ Len(events) < MaxBacklog /\ acts < MaxActs
    /\ Emit(Event("error"))
    /\ acts' = acts + 1
    /\ UNCHANGED <<plan, inbox, agentVars, driverPress, ui>>

TurnFails == InTurn /\ EndWith("error")

\* Interrupted inside a sub-agent, both turns report it.
TurnInterrupted ==
    /\ InTurn /\ turnPress
    /\ \/ EndWith("interrupted")
       \/ /\ events' = events \o <<Event("interrupted"), Event("interrupted")>>
          /\ BackToInbox

CompleteChat == pc = "chat" /\ EndWith("done")

EndCompact ==
    /\ pc = "compact"
    /\ \/ EndWith("compacted")
       \/ EndWith("error")
       \/ turnPress /\ EndWith("interrupted")

-----------------------------------------------------------------------------
(* The UI: one task that handles a key or an event at a time.              *)

AgentKeeps == UNCHANGED <<plan, agentVars>>
ModalOpen == ui.askVerify \/ ui.askNext # 0

Act == acts < MaxActs /\ acts' = acts + 1

Submit ==
    /\ ~ModalOpen /\ Act
    /\ ui' = [ui EXCEPT !.busy = TRUE]
    /\ Send(Command("message"))
    /\ UNCHANGED <<events, driverPress>> /\ AgentKeeps

Compact ==
    /\ ~ModalOpen /\ ~ui.busy /\ Act
    /\ ui' = [ui EXCEPT !.busy = TRUE]
    /\ Send(Command("compact"))
    /\ UNCHANGED <<events, driverPress>> /\ AgentKeeps

\* /clear, at any time: end_implement, but a running turn keeps the UI busy.
Clear ==
    /\ ~ModalOpen /\ Act
    /\ ui' = [FreshUi EXCEPT !.busy = ui.busy, !.interrupting = ui.interrupting]
    /\ Send(Command("clear"))
    /\ UNCHANGED <<events, driverPress>> /\ AgentKeeps

\* Esc while busy; a second one before the turn ends is a no-op.
Press ==
    /\ ~ModalOpen /\ ui.busy /\ ~ui.interrupting /\ Act
    /\ ui' = [ui EXCEPT !.interrupting = TRUE]
    /\ driverPress' = Driving
    /\ turnPress' = (pc \in {"chat", "compact", "turn"})
    /\ UNCHANGED <<plan, inbox, events, pc, target, phase, current, settledBefore,
                   ledger>>

\* begin_implement and begin_next_step, with the message that goes with them.
BeginStep(s) ==
    /\ ui' = [FreshUi EXCEPT !.busy = TRUE, !.step = s]
    /\ Send(ImplementStep(s))
    /\ UNCHANGED <<events, driverPress>> /\ AgentKeeps

\* /implement, a step picked and confirmed; the prompt it may supersede opened
\* after the pick.
StartImplement(s) == ~ui.busy /\ Act /\ BeginStep(s)

ApproveVerify ==
    /\ ui.askVerify
    /\ ui' = [ui EXCEPT !.askVerify = FALSE, !.busy = TRUE]
    /\ Send(Command("verify"))
    /\ UNCHANGED <<events, driverPress, acts>> /\ AgentKeeps

DeclineVerify ==
    /\ ui.askVerify
    /\ ui' = [ui EXCEPT !.askVerify = FALSE]
    /\ UNCHANGED <<inbox, events, driverPress, acts>> /\ AgentKeeps

ApproveNext ==
    /\ ~ui.askVerify /\ ui.askNext # 0
    /\ \/ ~ui.busy /\ BeginStep(ui.askNext) /\ UNCHANGED acts
       \/ /\ ui.busy /\ ui' = [ui EXCEPT !.askNext = 0]
          /\ UNCHANGED <<inbox, events, driverPress, acts>> /\ AgentKeeps

DeclineNext ==
    /\ ~ui.askVerify /\ ui.askNext # 0
    /\ ui' = [ui EXCEPT !.askNext = 0]
    /\ UNCHANGED <<inbox, events, driverPress, acts>> /\ AgentKeeps

\* apply_event.  Only a Done asks anything.
EndBusy == [ui EXCEPT !.busy = FALSE, !.interrupting = FALSE]

MaybePromptNextStep(u) ==
    LET next == u.step + 1
    IN  IF ~u.nextAsked /\ u.askNext = 0 /\ next <= NSteps /\ ~StepComplete(next, plan[next])
        THEN [u EXCEPT !.nextAsked = TRUE, !.askNext = next]
        ELSE u

MaybePromptVerify(u) ==
    LET m == u.tasks
        workDone == m.step # 0 /\ WorkDone(m.step, m.status)
    IN  CASE u.step = 0 -> u
          [] u.step # 0 /\ u.verifyAsked -> MaybePromptNextStep(u)
          [] u.step # 0 /\ ~u.verifyAsked /\ ~workDone -> u
          [] u.step # 0 /\ ~u.verifyAsked /\ workDone ->
               IF VerifyOutstanding(m.step, m.status)
               THEN [u EXCEPT !.askVerify = TRUE, !.verifyAsked = TRUE]
               ELSE MaybePromptNextStep(u)

ApplyEvent ==
    /\ events # <<>>
    /\ events' = Tail(events)
    /\ ui' = CASE Head(events).kind = "tasks" -> [ui EXCEPT !.tasks = Head(events).tasks]
               [] Head(events).kind = "done" -> MaybePromptVerify(EndBusy)
               [] OTHER -> EndBusy
    /\ UNCHANGED <<inbox, driverPress, acts>> /\ AgentKeeps

\* Quit, crash or kill, and a new start: only plans.json is left.
Restart ==
    /\ Act
    /\ inbox' = <<>> /\ events' = <<>> /\ pc' = "idle" /\ target' = 0
    /\ phase' = "work" /\ current' = 0 /\ settledBefore' = {} /\ ledger' = <<>>
    /\ driverPress' = FALSE /\ turnPress' = FALSE /\ ui' = FreshUi
    /\ UNCHANGED plan

-----------------------------------------------------------------------------
Init ==
    /\ PlanInit
    /\ inbox = <<>> /\ events = <<>> /\ pc = "idle" /\ target = 0
    /\ phase = "work" /\ current = 0 /\ settledBefore = {} /\ ledger = <<>>
    /\ driverPress = FALSE /\ turnPress = FALSE /\ ui = FreshUi
    /\ acts = 0

\* Steps of the agent task between two of its waits.
Loop ==
    \/ ReceiveMessage \/ ReceiveClear \/ ReceiveCompact \/ ReceiveImplement
    \/ ReceiveStartVerify
    \/ DriverStops \/ TakeTask \/ StartTurn

\* The ends of a turn, of a handoff note and of a compaction.
Ends ==
    CompleteTurn \/ Summarized \/ TurnFails \/ TurnInterrupted \/ CompleteChat
    \/ EndCompact

Agent == Loop \/ Ends

\* What the model may make a turn do before it ends.
Model == SettleTask \/ ReportTasks \/ SubAgentFails

User ==
    \/ Submit \/ Compact \/ Clear \/ Press \/ ApproveVerify \/ DeclineVerify
    \/ ApproveNext \/ DeclineNext
    \/ \E s \in Steps : StartImplement(s)

Next == Agent \/ Model \/ User \/ ApplyEvent \/ Restart

Spec == Init /\ [][Next]_vars

\* The runtime polls both tasks and the UI takes the events: that a full channel
\* each way may make each side wait for the other is EventLoop's.  A turn, a note
\* and a compaction need not end: they wait for the provider, for a command, or
\* for the user, whose prompts have no time limit.
FairSpec == Spec /\ WF_vars(Loop) /\ WF_vars(ApplyEvent)

-----------------------------------------------------------------------------
Mirrors == {NoTasks} \union UNION {[step : {s}, status : [Tasks(s) -> Status]] : s \in Steps}

Commands ==
    [kind : {"message", "clear", "compact", "verify"}]
    \union [kind : {"implement"}, step : Steps]

AgentEvents ==
    [kind : {"done", "interrupted", "error", "compacted"}]
    \union [kind : {"tasks"}, tasks : Mirrors]

UiStates ==
    [busy : BOOLEAN, interrupting : BOOLEAN, step : 0..NSteps, tasks : Mirrors,
     askVerify : BOOLEAN, verifyAsked : BOOLEAN, askNext : 0..NSteps, nextAsked : BOOLEAN]

\* Types; a driver has a target, and its task is one of the phase it drives.
TypeOK ==
    /\ PlanTypeOK
    /\ inbox \in Seq(Commands) /\ events \in Seq(AgentEvents) /\ ui \in UiStates
    /\ pc \in Places /\ target \in 0..NSteps /\ phase \in Phases
    /\ current \in Nat /\ settledBefore \subseteq Nat
    /\ driverPress \in BOOLEAN /\ turnPress \in BOOLEAN
    /\ (Driving => target # 0)
    /\ (pc \in {"seeded", "turn", "summary"} => current \in PhaseTasks)
    /\ acts \in 0..MaxActs

\* The ledger handed to the next task tells the truth: its entries are tasks of
\* the step being implemented, each once, settled the way the entry says.
LedgerTrue ==
    /\ ledger # <<>> => target # 0
    /\ \A i \in DOMAIN ledger :
          /\ plan[target][ledger[i].task] = IF ledger[i].blocked THEN "blocked" ELSE "done"
          /\ \A j \in DOMAIN ledger : j # i => ledger[j].task # ledger[i].task

\* Once both sides have nothing left to process they agree: the UI is not busy
\* and both are in the same implementation session.
SidesAgree ==
    inbox = <<>> /\ events = <<>> /\ pc = "idle" => ~ui.busy /\ ui.step = target

\* Every turn of a drive goes to a later task than the one before it, so a
\* stuck model cannot keep the driver spending turns.
DriverAdvances == [][pc = "top" /\ pc' = "seeded" => current' > current]_vars

\* The plan file goes through nothing but what PlanProgress allows.
PlanHolds == PlanSpec

\* Only a turn, a note or a compaction that never ends (AgentTurn's TurnEnds says
\* which waits may do that to a turn) keeps the UI busy for ever: no command or
\* event is lost between the two sides, and no drive goes on without end.
BusyEnds ==
    \/ []<>~ui.busy
    \/ <>[](pc \in {"chat", "compact", "turn", "summary"})

-----------------------------------------------------------------------------
(* What comments of the code say and the code does not do.                 *)

\* "An interrupt requested between tasks stops the driver before the next turn
\* is spent": one the driver has not seen stays pending until it stops.
PressAnswered == [][Driving /\ driverPress => driverPress' \/ ~Driving']_vars

\* Verify tasks are "started only after the user confirms": no turn of the work
\* phase settles one.
VerifyConfirmed ==
    [][phase = "work" /\ pc = "turn" =>
          \A t \in Tasks(target) :
             PhaseOf(target, t) = "verify" => plan'[target][t] = plan[target][t]]_vars

\* The begin-verification prompt opens "when the turn that just ended left every
\* work task done with verification still outstanding".
VerifyOffered ==
    [][/\ ApplyEvent /\ events = <<Event("done")>> /\ inbox = <<>> /\ pc = "idle"
       /\ ui.step # 0
       /\ WorkDone(ui.step, plan[ui.step]) /\ VerifyOutstanding(ui.step, plan[ui.step])
       => ui'.verifyAsked]_vars
=============================================================================
