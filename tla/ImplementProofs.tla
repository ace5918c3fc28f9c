--------------------------- MODULE ImplementProofs ----------------------------
(***************************************************************************)
(* Theorems about ImplementSession, for every plan and every bound: types,  *)
(* the refinement of PlanProgress, the order in which tasks settle and the  *)
(* driver moves, and what its two sides believe: the ledger a driver hands  *)
(* from task to task, and the session the UI thinks it is in.               *)
(***************************************************************************)
EXTENDS ImplementSession, CommonLemmas

\* Storing a status keeps the plan's shape.
LEMMA PlanUpdate ==
    ASSUME PlanTypeOK, NEW s \in Steps, NEW t \in Tasks(s), NEW v \in Status
    PROVE  LET p == [plan EXCEPT ![s][t] = v]
           IN  /\ DOMAIN p = Steps
               /\ \A r \in Steps : p[r] \in [Tasks(r) -> Status]
               /\ \A r \in Steps : \A u \in Tasks(r) :
                     p[r][u] = IF r = s /\ u = t THEN v ELSE plan[r][u]
  BY DEF PlanTypeOK

\* A snapshot of a well-shaped step is a mirror the UI can hold.
LEMMA MirrorType ==
    ASSUME NEW s \in Steps, NEW f \in [Tasks(s) -> Status]
    PROVE  [step |-> s, status |-> f] \in Mirrors
  BY DEF Mirrors

\* What each side reads from and writes to its channel.
LEMMA ChannelTypes ==
    /\ \A c \in Commands : inbox \in Seq(Commands) => Append(inbox, c) \in Seq(Commands)
    /\ \A e \in AgentEvents : events \in Seq(AgentEvents) => Append(events, e) \in Seq(AgentEvents)
    /\ inbox \in Seq(Commands) /\ inbox # <<>> =>
         Head(inbox) \in Commands /\ Tail(inbox) \in Seq(Commands)
    /\ events \in Seq(AgentEvents) /\ events # <<>> =>
         Head(events) \in AgentEvents /\ Tail(events) \in Seq(AgentEvents)
  OBVIOUS

LEMMA CommandTypes ==
    /\ \A k \in {"message", "clear", "compact", "verify"} : Command(k) \in Commands
    /\ \A s \in Steps : ImplementStep(s) \in Commands
    /\ \A c \in Commands : c.kind = "implement" => c.step \in Steps
  BY DEF Commands, Command, ImplementStep

LEMMA EventTypes ==
    /\ \A k \in {"done", "interrupted", "error", "compacted"} : Event(k) \in AgentEvents
    /\ \A m \in Mirrors : TaskUpdated(m) \in AgentEvents
    /\ \A e \in AgentEvents : e.kind = "tasks" => e.tasks \in Mirrors
  BY DEF AgentEvents, Event, TaskUpdated

\* A fresh UI, busy or not, in whatever session.
LEMMA FreshType ==
    /\ 0 \in 0..NSteps /\ Steps \subseteq 0..NSteps
    /\ NoTasks \in Mirrors
    /\ FreshUi \in UiStates
    /\ \A s \in Steps : [FreshUi EXCEPT !.busy = TRUE, !.step = s] \in UiStates
    /\ \A b, i \in BOOLEAN : [FreshUi EXCEPT !.busy = b, !.interrupting = i] \in UiStates
<1>1. 0 \in 0..NSteps /\ Steps \subseteq 0..NSteps
  BY PlanShape DEF Steps
<1>2. NoTasks \in Mirrors
  BY DEF Mirrors
<1> QED
  BY <1>1, <1>2 DEF FreshUi, UiStates

LEMMA InitType == Init => TypeOK
<1> SUFFICES ASSUME Init PROVE TypeOK
  OBVIOUS
<1> USE PlanShape, Bounds DEF Init
<1>1. PlanTypeOK
  BY DEF PlanInit, PlanTypeOK, Status
<1>2. ui \in UiStates
  BY FreshType
<1>3. inbox \in Seq(Commands) /\ events \in Seq(AgentEvents)
  OBVIOUS
<1>4. /\ pc \in Places /\ target \in 0..NSteps /\ phase \in Phases
      /\ pc \notin {"top", "seeded", "turn", "summary"}
  BY DEF Places, Phases
<1>5. current \in Nat /\ settledBefore \subseteq Nat /\ acts \in 0..MaxActs
  OBVIOUS
<1> HIDE DEF PlanShape
<1> QED
  BY <1>1, <1>2, <1>3, <1>4, <1>5 DEF TypeOK, Driving

\* A task the plan knows is a number.
LEMMA TaskNumbers == \A s \in Steps : Tasks(s) \subseteq Nat
  BY PlanShape DEF Tasks

LEMMA PhaseTaskNumbers == target \in Steps => PhaseTasks \subseteq Nat
  BY TaskNumbers DEF PhaseTasks

\* Each command puts the agent where its handler starts.
LEMMA ReceiveType ==
    ASSUME TypeOK,
           ReceiveMessage \/ ReceiveClear \/ ReceiveCompact \/ ReceiveImplement
              \/ ReceiveStartVerify
    PROVE  TypeOK'
<1>1. PlanTypeOK' /\ inbox' \in Seq(Commands) /\ ui' \in UiStates /\ acts' \in 0..MaxActs
  BY ChannelTypes DEF ReceiveMessage, ReceiveClear, ReceiveCompact, ReceiveImplement,
         ReceiveStartVerify, Receive, TypeOK, PlanTypeOK
<1>2. pc = "idle" /\ inbox # <<>>
  BY DEF ReceiveMessage, ReceiveClear, ReceiveCompact, ReceiveImplement,
         ReceiveStartVerify, Receive
<1>3. CASE ReceiveMessage \/ ReceiveClear \/ ReceiveCompact
  <2>1. pc' \in {"idle", "chat", "compact"}
    BY <1>2, <1>3 DEF ReceiveMessage, ReceiveClear, ReceiveCompact
  <2>2. /\ UNCHANGED <<events, phase, current, settledBefore, driverPress>>
        /\ target' \in {target, 0} /\ turnPress' \in {turnPress, FALSE}
    BY <1>3 DEF ReceiveMessage, ReceiveClear, ReceiveCompact
  <2>3. target' \in 0..NSteps
    BY <2>2, PlanShape DEF TypeOK
  <2>4. pc' \in Places /\ ~Driving'
    BY <2>1 DEF Places, Driving
  <2> QED
    BY <1>1, <2>1, <2>2, <2>3, <2>4 DEF TypeOK
<1>4. ASSUME NEW p \in Phases, Drive(p), target' \in Steps
      PROVE  TypeOK'
  <2>1. target' \in 0..NSteps /\ target' # 0
    BY <1>4, PlanShape DEF Steps
  <2>2. pc' = "top" /\ pc' \in Places
    BY <1>4 DEF Drive, Places
  <2> QED
    BY <1>1, <1>4, <2>1, <2>2 DEF TypeOK, Drive
<1>5. CASE ReceiveImplement
  <2>1. target' \in Steps
    BY <1>2, <1>5, ChannelTypes, CommandTypes DEF ReceiveImplement, Receive, TypeOK
  <2> QED
    BY <1>4, <1>5, <2>1 DEF ReceiveImplement, Phases
<1>6. CASE ReceiveStartVerify
  <2>1. CASE target = 0
    <3>1. events' \in Seq(AgentEvents)
      BY <1>6, <2>1, ChannelTypes, EventTypes DEF ReceiveStartVerify, Emit, TypeOK
    <3> QED
      BY <1>1, <1>2, <1>6, <2>1, <3>1 DEF ReceiveStartVerify, TypeOK, Driving
  <2>2. CASE target # 0
    <3>1. target' \in Steps
      BY <1>6, <2>2 DEF ReceiveStartVerify, TypeOK, Steps
    <3> QED
      BY <1>4, <1>6, <2>2, <3>1 DEF ReceiveStartVerify, Phases
  <2> QED
    BY <2>1, <2>2
<1> QED
  BY <1>3, <1>5, <1>6

\* Whatever ends a turn, a drive or a compaction leaves the agent idle.
LEMMA IdleType ==
    ASSUME TypeOK, BackToInbox, events' \in Seq(AgentEvents)
    PROVE  TypeOK'
  BY DEF TypeOK, PlanTypeOK, BackToInbox, Places, Phases, Driving

LEMMA EndType ==
    ASSUME TypeOK, NEW k \in {"done", "interrupted", "error", "compacted"}, EndWith(k)
    PROVE  TypeOK'
<1>1. events' \in Seq(AgentEvents)
  BY ChannelTypes, EventTypes DEF TypeOK, EndWith, Emit
<1> QED
  BY <1>1, IdleType DEF EndWith

LEMMA DriverType ==
    ASSUME TypeOK, DriverStops \/ TakeTask \/ StartTurn \/ CompleteTurn \/ Summarized
    PROVE  TypeOK'
<1>1. CASE DriverStops
  BY <1>1, EndType DEF DriverStops
<1>2. CASE TakeTask
  <2>1. target \in Steps
    BY <1>2 DEF TakeTask, TypeOK, Driving, Steps
  <2>2. PICK t \in PhaseTasks, saved \in BOOLEAN :
          /\ FirstOpenOf(target, plan[target], phase, t)
          /\ MarkDoing(t, saved) /\ current' = t
    BY <1>2 DEF TakeTask
  <2>3. t \in Tasks(target) /\ t \in Nat
    BY <2>1, <2>2, TaskNumbers DEF PhaseTasks
  <2>4. PlanTypeOK'
    BY <2>1, <2>2, <2>3, PlanUpdate DEF MarkDoing, TypeOK, PlanTypeOK, Status
  <2>5. events' \in Seq(AgentEvents)
    <3>1. [step |-> target, status |-> plan'[target]] \in Mirrors
      BY <2>1, <2>4, MirrorType DEF PlanTypeOK
    <3> QED
      BY <1>2, <3>1, EventTypes, ChannelTypes DEF TakeTask, TypeOK
  <2>6. settledBefore' \subseteq Nat
    BY <1>2, <2>1, PhaseTaskNumbers DEF TakeTask, SettledOfPhase
  <2>7. current' \in PhaseTasks'
    BY <1>2, <2>2 DEF TakeTask, PhaseTasks
  <2> QED
    BY <1>2, <2>2, <2>3, <2>4, <2>5, <2>6, <2>7 DEF TakeTask, TypeOK, Places, Driving
<1>3. CASE StartTurn
  BY <1>3 DEF StartTurn, TypeOK, PlanTypeOK, Places, Driving, PhaseTasks
<1>4. CASE CompleteTurn
  <2>1. CASE EndWith("done")
    BY <2>1, EndType
  <2>2. CASE pc' = "summary"
    BY <1>4, <2>2 DEF CompleteTurn, EndWith, BackToInbox, TypeOK, PlanTypeOK, Places,
                      Driving, PhaseTasks
  <2> QED
    BY <1>4, <2>1, <2>2 DEF CompleteTurn
<1>5. CASE Summarized
  BY <1>5 DEF Summarized, TypeOK, PlanTypeOK, Places, Driving, PhaseTasks
<1> QED
  BY <1>1, <1>2, <1>3, <1>4, <1>5

\* The model's calls inside a turn, and the ways a turn or a compaction ends.
LEMMA TurnType ==
    ASSUME TypeOK,
           SettleTask \/ ReportTasks \/ SubAgentFails \/ TurnFails \/ TurnInterrupted
              \/ CompleteChat \/ EndCompact
    PROVE  TypeOK'
<1>1. CASE SettleTask
  <2>1. target \in Steps
    BY <1>1 DEF SettleTask, TypeOK, Steps
  <2>2. PlanTypeOK'
    BY <1>1, <2>1, PlanUpdate DEF SettleTask, TypeOK, PlanTypeOK, Status
  <2>3. events' \in Seq(AgentEvents)
    <3>1. [step |-> target, status |-> plan'[target]] \in Mirrors
      BY <2>1, <2>2, MirrorType DEF PlanTypeOK
    <3> QED
      BY <1>1, <3>1, EventTypes, ChannelTypes DEF SettleTask, TypeOK
  <2> QED
    BY <1>1, <2>2, <2>3 DEF SettleTask, TypeOK, agentVars, Driving, PhaseTasks
<1>2. CASE ReportTasks
  <2>1. (IF target = 0 THEN NoTasks ELSE Mirror(target)) \in Mirrors
    BY MirrorType DEF Mirrors, Mirror, TypeOK, PlanTypeOK, Steps
  <2>2. events' \in Seq(AgentEvents)
    BY <1>2, <2>1, EventTypes, ChannelTypes DEF ReportTasks, Emit, TypeOK
  <2> QED
    BY <1>2, <2>2 DEF ReportTasks, TypeOK, PlanTypeOK, agentVars, Driving, PhaseTasks
<1>3. CASE SubAgentFails
  <2>1. events' \in Seq(AgentEvents)
    BY <1>3, EventTypes, ChannelTypes DEF SubAgentFails, Emit, TypeOK
  <2>2. acts' \in 0..MaxActs
    BY <1>3, Bounds DEF SubAgentFails, TypeOK
  <2> QED
    BY <1>3, <2>1, <2>2 DEF SubAgentFails, TypeOK, PlanTypeOK, agentVars, Driving, PhaseTasks
<1>4. CASE TurnFails
  BY <1>4, EndType DEF TurnFails
<1>5. CASE TurnInterrupted
  <2>1. CASE EndWith("interrupted")
    BY <2>1, EndType
  <2>2. CASE BackToInbox /\ events' = events \o <<Event("interrupted"), Event("interrupted")>>
    <3>1. events' \in Seq(AgentEvents)
      BY <2>2, EventTypes DEF TypeOK
    <3> QED
      BY <2>2, <3>1, IdleType
  <2> QED
    BY <1>5, <2>1, <2>2 DEF TurnInterrupted
<1>6. CASE CompleteChat
  BY <1>6, EndType DEF CompleteChat
<1>7. CASE EndCompact
  BY <1>7, EndType DEF EndCompact
<1> QED
  BY <1>1, <1>2, <1>3, <1>4, <1>5, <1>6, <1>7

\* The prompts only ever name a step of the plan.
LEMMA PromptType ==
    ASSUME NEW u \in UiStates
    PROVE  MaybePromptNextStep(u) \in UiStates /\ MaybePromptVerify(u) \in UiStates
<1>1. MaybePromptNextStep(u) \in UiStates
  <2>1. u.step + 1 <= NSteps => u.step + 1 \in 0..NSteps
    BY PlanShape DEF UiStates
  <2> QED
    BY <2>1 DEF MaybePromptNextStep, UiStates
<1>2. [u EXCEPT !.askVerify = TRUE, !.verifyAsked = TRUE] \in UiStates
  BY DEF UiStates
<1>3. u.step = 0 \/ (u.step # 0 /\ u.verifyAsked) \/ (u.step # 0 /\ ~u.verifyAsked)
  BY DEF UiStates
<1> QED
  BY <1>1, <1>2, <1>3 DEF MaybePromptVerify

\* Keys: what the user does changes the UI, the inbox and the receivers only.
LEMMA UserType ==
    ASSUME TypeOK, User
    PROVE  TypeOK'
<1> DEFINE Keeps == UNCHANGED <<plan, events, pc, target, phase, current, settledBefore>>
<1>1. ASSUME Keeps, ui' \in UiStates, inbox' \in Seq(Commands), acts' \in 0..MaxActs,
             driverPress' \in BOOLEAN, turnPress' \in BOOLEAN
      PROVE  TypeOK'
  BY <1>1 DEF TypeOK, PlanTypeOK, Driving, PhaseTasks
<1>2. Act => acts' \in 0..MaxActs
  BY Bounds DEF Act, TypeOK
<1>3. ASSUME NEW s \in Steps, BeginStep(s), acts' \in 0..MaxActs
      PROVE  TypeOK'
  <2>1. ui' \in UiStates
    BY <1>3, FreshType DEF BeginStep
  <2>2. inbox' \in Seq(Commands)
    BY <1>3, ChannelTypes, CommandTypes DEF BeginStep, Send, TypeOK
  <2> QED
    BY <1>1, <1>3, <2>1, <2>2 DEF BeginStep, AgentKeeps, agentVars, TypeOK
<1>4. CASE Submit \/ Compact \/ ApproveVerify
  <2>1. ui' \in UiStates
    BY <1>4 DEF Submit, Compact, ApproveVerify, TypeOK, UiStates
  <2>2. inbox' \in Seq(Commands)
    BY <1>4, ChannelTypes, CommandTypes DEF Submit, Compact, ApproveVerify, Send, TypeOK
  <2>3. acts' \in 0..MaxActs
    BY <1>2, <1>4 DEF Submit, Compact, ApproveVerify, TypeOK
  <2> QED
    BY <1>1, <1>4, <2>1, <2>2, <2>3
       DEF Submit, Compact, ApproveVerify, AgentKeeps, agentVars, TypeOK
<1>5. CASE Clear
  <2>1. ui' \in UiStates
    BY <1>5, FreshType DEF Clear, TypeOK, UiStates
  <2>2. inbox' \in Seq(Commands)
    BY <1>5, ChannelTypes, CommandTypes DEF Clear, Send, TypeOK
  <2> QED
    BY <1>1, <1>2, <1>5, <2>1, <2>2 DEF Clear, AgentKeeps, agentVars, TypeOK
<1>6. CASE Press
  <2>1. ui' \in UiStates
    BY <1>6 DEF Press, TypeOK, UiStates
  <2>2. driverPress' \in BOOLEAN /\ turnPress' \in BOOLEAN
    BY <1>6 DEF Press, Driving
  <2> QED
    BY <1>1, <1>2, <1>6, <2>1, <2>2 DEF Press, TypeOK
<1>7. CASE DeclineVerify \/ DeclineNext
  <2>1. ui' \in UiStates
    <3>1. [ui EXCEPT !.askVerify = FALSE] \in UiStates
      BY DEF TypeOK, UiStates
    <3>2. [ui EXCEPT !.askNext = 0] \in UiStates
      BY FreshType DEF TypeOK, UiStates
    <3> QED
      BY <1>7, <3>1, <3>2 DEF DeclineVerify, DeclineNext
  <2> QED
    BY <1>1, <1>7, <2>1 DEF DeclineVerify, DeclineNext, AgentKeeps, agentVars, TypeOK
<1>8. CASE ApproveNext
  <2>1. CASE BeginStep(ui.askNext) /\ UNCHANGED acts
    <3>1. ui.askNext \in Steps
      BY <1>8 DEF ApproveNext, TypeOK, UiStates, Steps
    <3> QED
      BY <1>3, <2>1, <3>1 DEF TypeOK
  <2>2. CASE ui' = [ui EXCEPT !.askNext = 0] /\ UNCHANGED <<inbox, events, driverPress, acts>>
             /\ AgentKeeps
    <3>1. ui' \in UiStates
      BY <2>2, FreshType DEF TypeOK, UiStates
    <3> QED
      BY <1>1, <2>2, <3>1 DEF AgentKeeps, agentVars, TypeOK
  <2> QED
    BY <1>8, <2>1, <2>2 DEF ApproveNext
<1>9. CASE \E s \in Steps : StartImplement(s)
  BY <1>2, <1>3, <1>9 DEF StartImplement
<1> QED
  BY <1>4, <1>5, <1>6, <1>7, <1>8, <1>9 DEF User

LEMMA ApplyType == TypeOK /\ ApplyEvent => TypeOK'
<1> SUFFICES ASSUME TypeOK, ApplyEvent PROVE TypeOK'
  OBVIOUS
<1>1. Head(events) \in AgentEvents /\ events' \in Seq(AgentEvents)
  BY ChannelTypes DEF ApplyEvent, TypeOK
<1>2. EndBusy \in UiStates
  BY DEF EndBusy, TypeOK, UiStates
<1>3. Head(events).kind = "tasks" => [ui EXCEPT !.tasks = Head(events).tasks] \in UiStates
  BY <1>1, EventTypes DEF TypeOK, UiStates
<1>4. MaybePromptVerify(EndBusy) \in UiStates
  BY <1>2, PromptType
<1>5. ui' \in UiStates
  BY <1>2, <1>3, <1>4 DEF ApplyEvent
<1> QED
  BY <1>1, <1>5 DEF ApplyEvent, AgentKeeps, agentVars, TypeOK, PlanTypeOK, Driving, PhaseTasks

LEMMA RestartType == TypeOK /\ Restart => TypeOK'
<1> SUFFICES ASSUME TypeOK, Restart PROVE TypeOK'
  OBVIOUS
<1>1. ui' \in UiStates
  BY FreshType DEF Restart
<1>2. acts' \in 0..MaxActs
  BY Bounds DEF Restart, Act, TypeOK
<1>3. inbox' \in Seq(Commands) /\ events' \in Seq(AgentEvents)
  BY DEF Restart
<1>4. PlanTypeOK'
  BY DEF Restart, TypeOK, PlanTypeOK
<1>5. pc' \in Places /\ ~Driving' /\ pc' \notin {"seeded", "turn", "summary"}
  BY DEF Restart, Places, Driving
<1>6. /\ phase' \in Phases /\ current' \in Nat /\ settledBefore' \subseteq Nat
      /\ driverPress' \in BOOLEAN /\ turnPress' \in BOOLEAN /\ target' = 0
  BY DEF Restart, Phases
<1> QED
  BY <1>1, <1>2, <1>3, <1>4, <1>5, <1>6, FreshType DEF TypeOK

LEMMA TypeNext == TypeOK /\ [Next]_vars => TypeOK'
<1> SUFFICES ASSUME TypeOK, [Next]_vars PROVE TypeOK'
  OBVIOUS
<1>1. CASE Agent
  BY <1>1, ReceiveType, DriverType, TurnType DEF Agent, Loop, Ends
<1>2. CASE Model
  BY <1>2, TurnType DEF Model
<1>3. CASE UNCHANGED vars
  BY <1>3 DEF vars, agentVars, TypeOK, PlanTypeOK, Driving, PhaseTasks
<1> QED
  BY <1>1, <1>2, <1>3, UserType, ApplyType, RestartType DEF Next

\* Every state of every behaviour is well typed, whatever the plan's shape.
THEOREM TypeCorrect == Spec => []TypeOK
  BY InitType, TypeNext, PTL DEF Spec

-----------------------------------------------------------------------------
(* ImplementSession implements PlanProgress.                               *)

\* What each kind of step does to the stored plan.
LEMMA PlanStep ==
    ASSUME TypeOK, [Next]_vars
    PROVE  \/ UNCHANGED plan
           \/ /\ TakeTask
              /\ \E t \in Tasks(target) :
                    /\ FirstOpenOf(target, plan[target], phase, t)
                    /\ plan' = [plan EXCEPT ![target][t] = "doing"]
           \/ /\ SettleTask
              /\ \E t \in Tasks(target), status \in {"done", "blocked"} :
                    /\ FirstOpen(target, plan[target], t)
                    /\ plan' = [plan EXCEPT ![target][t] = status]
<1>1. CASE TakeTask
  BY <1>1 DEF TakeTask, MarkDoing, PhaseTasks
<1>2. CASE SettleTask
  BY <1>2 DEF SettleTask
<1>3. CASE ReceiveMessage \/ ReceiveClear \/ ReceiveCompact \/ ReceiveImplement
             \/ ReceiveStartVerify
  BY <1>3 DEF ReceiveMessage, ReceiveClear, ReceiveCompact, ReceiveImplement,
              ReceiveStartVerify, Receive
<1>4. CASE DriverStops \/ StartTurn \/ CompleteTurn \/ Summarized \/ TurnFails
             \/ TurnInterrupted \/ CompleteChat \/ EndCompact
  BY <1>4 DEF DriverStops, StartTurn, CompleteTurn, Summarized, TurnFails, TurnInterrupted,
              CompleteChat, EndCompact, EndWith, BackToInbox
<1>5. CASE ReportTasks \/ SubAgentFails
  BY <1>5 DEF ReportTasks, SubAgentFails
<1>6. CASE User
  BY <1>6 DEF User, Submit, Compact, Clear, Press, ApproveVerify, DeclineVerify,
              ApproveNext, DeclineNext, StartImplement, BeginStep, AgentKeeps
<1>7. CASE ApplyEvent \/ Restart \/ UNCHANGED vars
  BY <1>7 DEF ApplyEvent, AgentKeeps, Restart, vars
<1> QED
  BY <1>1, <1>2, <1>3, <1>4, <1>5, <1>6, <1>7 DEF Next, Agent, Loop, Ends, Model

LEMMA PlanStepAllowed == TypeOK /\ [Next]_vars => [PlanNext]_plan
<1> SUFFICES ASSUME TypeOK, [Next]_vars PROVE [PlanNext]_plan
  OBVIOUS
<1>1. CASE TakeTask
  <2>1. target \in Steps /\ phase \in Phases
    BY <1>1 DEF TakeTask, TypeOK, Driving, Steps
  <2> QED
    BY <1>1, <2>1 DEF TakeTask, MarkDoing, PhaseTasks, PlanNext, TakeUp
<1>2. CASE SettleTask
  <2>1. target \in Steps
    BY <1>2 DEF SettleTask, TypeOK, Steps
  <2> QED
    BY <1>2, <2>1 DEF SettleTask, PlanNext, Settle
<1> QED
  BY <1>1, <1>2, PlanStep

\* Whatever the user, the model, the channels and restarts do, the plan file only
\* moves as PlanProgress says.
THEOREM PlanImplemented == Spec => PlanHolds
<1>1. Init => PlanInit
  BY DEF Init
<1> QED
  BY <1>1, InitType, TypeNext, PlanStepAllowed, PTL DEF Spec, PlanHolds, PlanSpec

-----------------------------------------------------------------------------
(* What PlanProgress promises.                                             *)

LEMMA PlanTypeNext == PlanTypeOK /\ [PlanNext]_plan => PlanTypeOK'
<1> SUFFICES ASSUME PlanTypeOK, [PlanNext]_plan PROVE PlanTypeOK'
  OBVIOUS
<1>1. ASSUME NEW s \in Steps, NEW t \in Tasks(s), TakeUp(s, t) PROVE PlanTypeOK'
  BY <1>1, PlanUpdate DEF TakeUp, PlanTypeOK, Status
<1>2. ASSUME NEW s \in Steps, NEW t \in Tasks(s), NEW v \in {"done", "blocked"},
             Settle(s, t, v)
      PROVE  PlanTypeOK'
  BY <1>2, PlanUpdate DEF Settle, PlanTypeOK, Status
<1>3. CASE UNCHANGED plan
  BY <1>3 DEF PlanTypeOK
<1> QED
  BY <1>1, <1>2, <1>3 DEF PlanNext

\* A settled task keeps its status over every step.
LEMMA StaysNext ==
    ASSUME PlanTypeOK, [PlanNext]_plan, NEW s \in Steps, NEW t \in Tasks(s),
           Settled(plan[s][t])
    PROVE  plan'[s][t] = plan[s][t]
<1>1. ASSUME NEW r \in Steps, NEW u \in Tasks(r), NEW v \in Status,
             Open(plan[r][u]), plan' = [plan EXCEPT ![r][u] = v]
      PROVE  plan'[s][t] = plan[s][t]
  <2>1. ~(r = s /\ u = t)
    BY <1>1 DEF Open, Settled
  <2> QED
    BY <1>1, <2>1, PlanUpdate
<1>2. ASSUME NEW r \in Steps, NEW u \in Tasks(r), TakeUp(r, u)
      PROVE  plan'[s][t] = plan[s][t]
  BY <1>1, <1>2 DEF TakeUp, FirstOpenOf, Status
<1>3. ASSUME NEW r \in Steps, NEW u \in Tasks(r), NEW v \in {"done", "blocked"},
             Settle(r, u, v)
      PROVE  plan'[s][t] = plan[s][t]
  BY <1>1, <1>3 DEF Settle, FirstOpen, Status
<1> QED
  BY <1>2, <1>3 DEF PlanNext

\* A task settles only when every task before it has.
LEMMA InOrderNext ==
    PlanTypeOK /\ SettledInOrder /\ [PlanNext]_plan => SettledInOrder'
<1> SUFFICES ASSUME PlanTypeOK, SettledInOrder, [PlanNext]_plan,
                    NEW s \in Steps, NEW t \in Tasks(s), NEW u \in Tasks(s),
                    u < t, Settled(plan'[s][t])
             PROVE  Settled(plan'[s][u])
  BY DEF SettledInOrder
<1>1. CASE Settled(plan[s][t])
  <2>1. Settled(plan[s][u])
    BY <1>1 DEF SettledInOrder
  <2> QED
    BY <2>1, StaysNext
<1>2. CASE ~Settled(plan[s][t])
  <2>1. ASSUME NEW r \in Steps, NEW w \in Tasks(r), TakeUp(r, w) PROVE FALSE
    BY <1>2, <2>1, PlanUpdate DEF TakeUp, Settled, Status
  <2>2. ASSUME NEW r \in Steps, NEW w \in Tasks(r), NEW v \in {"done", "blocked"},
               Settle(r, w, v)
        PROVE  Settled(plan[s][u])
    <3>1. r = s /\ w = t
      BY <1>2, <2>2, PlanUpdate DEF Settle, Status
    <3>2. ~Open(plan[s][u])
      BY <2>2, <3>1 DEF Settle, FirstOpen
    <3>3. plan[s][u] \in Status
      BY DEF PlanTypeOK
    <3> QED
      BY <3>2, <3>3 DEF Status, Open, Settled
  <2>3. plan' # plan
    BY <1>2
  <2>4. Settled(plan[s][u])
    BY <2>1, <2>2, <2>3 DEF PlanNext
  <2> QED
    BY <2>4, StaysNext
<1> QED
  BY <1>1, <1>2

\* No verification result precedes the work it is about, across interrupts,
\* prompts answered late and restarts.
THEOREM SettlesInOrder == Spec => []SettledInOrder
<1>1. PlanInit => SettledInOrder
  BY DEF PlanInit, SettledInOrder, Settled
<1>2. Init => SettledInOrder
  BY <1>1 DEF Init
<1>3. TypeOK => PlanTypeOK
  BY DEF TypeOK
<1>4. TypeOK /\ SettledInOrder /\ [Next]_vars => SettledInOrder'
  BY <1>3, InOrderNext, PlanStepAllowed
<1> QED
  BY <1>2, <1>4, TypeCorrect, PTL DEF Spec

\* Progress is never lost or rewritten, restarts included.
THEOREM SettledForGood == Spec => SettledStays
<1>1. TypeOK /\ [Next]_vars
      => [\A s \in Steps : \A t \in Tasks(s) :
             Settled(plan[s][t]) => plan'[s][t] = plan[s][t]]_plan
  BY StaysNext, PlanStepAllowed DEF TypeOK
<1> QED
  BY <1>1, TypeCorrect, PTL DEF Spec, SettledStays

-----------------------------------------------------------------------------
(* The driver moves forward.                                               *)

\* While the driver works on a task, the phase has no open task before it, and
\* the driver knew so when it took the task up; once it moves on, the task is
\* settled too.
Behind ==
    /\ pc \in {"seeded", "turn"} =>
         \A u \in PhaseTasks : u < current => Settled(plan[target][u]) /\ u \in settledBefore
    /\ pc \in {"summary", "top"} =>
         \A u \in PhaseTasks : u <= current => Settled(plan[target][u])

DriverVars == <<pc, target, phase, current, settledBefore>>

\* Tasks settled in a drive stay settled over a step that leaves the drive alone.
LEMMA BehindKept ==
    ASSUME TypeOK, Behind, [Next]_vars, UNCHANGED DriverVars
    PROVE  Behind'
<1>1. CASE Driving
  <2>1. target \in Steps
    BY <1>1 DEF TypeOK, Steps
  <2>2. \A u \in PhaseTasks : Settled(plan[target][u]) => Settled(plan'[target][u])
    BY <2>1, StaysNext, PlanStepAllowed DEF TypeOK, PhaseTasks
  <2> QED
    BY <2>2 DEF Behind, DriverVars, PhaseTasks
<1>2. CASE ~Driving
  BY <1>2 DEF Behind, DriverVars, Driving
<1> QED
  BY <1>1, <1>2

LEMMA BehindNext ==
    TypeOK /\ SettledInOrder /\ Behind /\ [Next]_vars => Behind'
<1> SUFFICES ASSUME TypeOK, SettledInOrder, Behind, [Next]_vars PROVE Behind'
  OBVIOUS
<1>1. CASE UNCHANGED DriverVars
  BY <1>1, BehindKept
<1>2. CASE pc' \notin {"seeded", "turn", "summary", "top"}
  BY <1>2 DEF Behind
<1>3. CASE ReceiveImplement \/ ReceiveStartVerify
  <2>1. CASE UNCHANGED DriverVars
    BY <2>1, <1>1
  <2>2. CASE pc' = "top" /\ current' = 0 /\ target' \in Steps
    <3>1. \A u \in PhaseTasks' : ~(u <= current')
      BY <2>2, PlanShape DEF PhaseTasks, Tasks
    <3> QED
      BY <2>2, <3>1 DEF Behind
  <2>3. target' \in 0..NSteps /\ (Driving' => target' # 0)
    BY TypeNext DEF TypeOK
  <2> QED
    BY <1>3, <2>1, <2>2, <2>3
       DEF ReceiveImplement, ReceiveStartVerify, Receive, Drive, DriverVars, Driving, Steps
<1>4. CASE TakeTask
  <2>1. target \in Steps
    BY <1>4 DEF TakeTask, TypeOK, Driving, Steps
  <2>2. FirstOpenOf(target, plan[target], phase, current')
    BY <1>4 DEF TakeTask
  <2>3. ASSUME NEW u \in PhaseTasks, u < current'
        PROVE  Settled(plan[target][u])
    <3>1. plan[target][u] \in Status
      BY <2>1, <2>3 DEF TypeOK, PlanTypeOK, PhaseTasks
    <3> QED
      BY <2>2, <2>3, <3>1 DEF FirstOpenOf, PhaseTasks, Status, Open, Settled
  <2>4. ASSUME NEW u \in PhaseTasks, u < current'
        PROVE  Settled(plan'[target][u]) /\ u \in settledBefore'
    <3>1. Settled(plan'[target][u])
      BY <2>1, <2>3, <2>4, StaysNext, PlanStepAllowed DEF TypeOK, PhaseTasks
    <3> QED
      BY <1>4, <2>3, <2>4, <3>1 DEF TakeTask, SettledOfPhase
  <2> QED
    BY <1>4, <2>4 DEF TakeTask, Behind, PhaseTasks
<1>5. CASE StartTurn
  BY <1>5 DEF StartTurn, Behind, PhaseTasks
<1>6. CASE CompleteTurn /\ pc' = "summary"
  <2>1. PICK n \in PhaseTasks : Settled(plan[target][n]) /\ n \notin settledBefore
    BY <1>6 DEF CompleteTurn, EndWith, BackToInbox, SettledOfPhase
  <2>2. target \in Steps /\ current \in PhaseTasks
    BY <1>6 DEF CompleteTurn, TypeOK, Driving, Steps
  <2>3. n \in Nat /\ current \in Nat
    BY <2>1, <2>2, PhaseTaskNumbers
  <2>4. ~(n < current)
    BY <1>6, <2>1 DEF CompleteTurn, Behind
  <2>5. \A u \in PhaseTasks : u <= current => Settled(plan[target][u])
    <3> SUFFICES ASSUME NEW u \in PhaseTasks, u <= current PROVE Settled(plan[target][u])
      OBVIOUS
    <3>1. u \in Nat
      BY <2>2, PhaseTaskNumbers
    <3>2. u = n \/ u < n
      BY <2>3, <2>4, <3>1
    <3> QED
      BY <2>1, <2>2, <3>2 DEF SettledInOrder, PhaseTasks
  <2> QED
    BY <1>6, <2>5 DEF CompleteTurn, EndWith, BackToInbox, Behind, PhaseTasks
<1>7. CASE Summarized
  BY <1>7 DEF Summarized, Behind, PhaseTasks
<1>8. CASE ReceiveMessage \/ ReceiveClear \/ ReceiveCompact
  BY <1>2, <1>8 DEF ReceiveMessage, ReceiveClear, ReceiveCompact, Receive
<1>9. CASE DriverStops \/ TurnFails \/ TurnInterrupted \/ CompleteChat \/ EndCompact
             \/ (CompleteTurn /\ pc' # "summary") \/ Restart
  BY <1>2, <1>9 DEF DriverStops, TurnFails, TurnInterrupted, CompleteChat, EndCompact,
                    CompleteTurn, EndWith, BackToInbox, Restart
<1>10. CASE Model \/ User \/ ApplyEvent \/ UNCHANGED vars
  <2>1. UNCHANGED DriverVars
    BY <1>10 DEF Model, SettleTask, ReportTasks, SubAgentFails, User, Submit, Compact, Clear,
                 Press, ApproveVerify, DeclineVerify, ApproveNext, DeclineNext,
                 StartImplement, BeginStep, ApplyEvent, AgentKeeps, agentVars, vars, DriverVars
  <2> QED
    BY <2>1, <1>1
<1> QED
  BY <1>3, <1>4, <1>5, <1>6, <1>7, <1>8, <1>9, <1>10 DEF Next, Agent, Loop, Ends

\* A drive spends each turn on a later task than the turn before, so a model that
\* is stuck, or settles nothing, stops it.
THEOREM DriverMovesOn == Spec => DriverAdvances
<1> DEFINE IInv == TypeOK /\ SettledInOrder /\ Behind
<1>1. Init => Behind
  BY DEF Init, Behind
<1>2. IInv /\ [Next]_vars => Behind'
  BY BehindNext
<1>3. IInv /\ [Next]_vars => [pc = "top" /\ pc' = "seeded" => current' > current]_vars
  <2> SUFFICES ASSUME IInv, [Next]_vars, pc = "top", pc' = "seeded"
               PROVE  current' > current
    OBVIOUS
  <2>1. TakeTask
    BY DEF Next, Agent, Loop, Ends, Model, User, ReceiveMessage, ReceiveClear, ReceiveCompact,
           ReceiveImplement, ReceiveStartVerify, Receive, DriverStops, StartTurn,
           CompleteTurn, Summarized, TurnFails, TurnInterrupted, CompleteChat, EndCompact,
           EndWith, BackToInbox, InTurn, SettleTask, ReportTasks, SubAgentFails, Submit,
           Compact, Clear, Press, ApproveVerify, DeclineVerify, ApproveNext, DeclineNext,
           StartImplement, BeginStep, ApplyEvent, AgentKeeps, agentVars, Restart, vars
  <2>2. current' \in PhaseTasks /\ Open(plan[target][current'])
    BY <2>1 DEF TakeTask, FirstOpenOf
  <2>3. target \in Steps
    BY <2>1 DEF TakeTask, TypeOK, Driving, Steps
  <2>4. current \in Nat /\ current' \in Nat
    BY <2>2, <2>3, PhaseTaskNumbers DEF TypeOK
  <2>5. ~(current' <= current)
    BY <2>2 DEF Behind, Open, Settled
  <2> QED
    BY <2>4, <2>5
<1>4. Spec => []IInv
  BY <1>1, <1>2, TypeCorrect, SettlesInOrder, PTL DEF Spec
<1> QED
  BY <1>3, <1>4, PTL DEF Spec, DriverAdvances

-----------------------------------------------------------------------------
(* The ledger.                                                              *)

Entries == [task : Nat, blocked : BOOLEAN]

TrueEntry(e) ==
    /\ e.task \in Tasks(target)
    /\ plan[target][e.task] = IF e.blocked THEN "blocked" ELSE "done"

\* The ledger's entries are true, distinct and, of the phase that is driven,
\* behind the task that is worked on.
LInv ==
    /\ ledger \in Seq(Entries)
    /\ ledger # <<>> => target # 0
    /\ \A i \in DOMAIN ledger : TrueEntry(ledger[i])
    /\ \A i, j \in DOMAIN ledger : i # j => ledger[i].task # ledger[j].task
    /\ pc \in {"seeded", "turn", "summary"} =>
         \A i \in DOMAIN ledger : ledger[i].task \in PhaseTasks => ledger[i].task \in settledBefore

\* The entries a turn adds: its phase's tasks, settled since it began, each once.
LEMMA NewlyTrue ==
    ASSUME TypeOK, pc = "summary"
    PROVE  /\ Newly \in Seq(Entries)
           /\ \A i \in DOMAIN Newly : /\ TrueEntry(Newly[i])
                                      /\ Newly[i].task \in PhaseTasks
                                      /\ Newly[i].task \notin settledBefore
           /\ \A i, j \in DOMAIN Newly : i # j => Newly[i].task # Newly[j].task
<1> DEFINE settled == SettledOfPhase(plan) \ settledBefore
           c == Cardinality(settled)
           Nth(i) == CHOOSE t \in settled : Cardinality({u \in settled : u <= t}) = i
           entry(i) == [task |-> Nth(i), blocked |-> plan[target][Nth(i)] = "blocked"]
<1>1. target \in Steps
  BY DEF TypeOK, Driving, Steps
<1>2. PICK n \in Nat : Tasks(target) = 1 .. n
  BY <1>1, PlanShape DEF Tasks
<1>3. settled \in SUBSET (1 .. n)
  BY <1>2 DEF SettledOfPhase, PhaseTasks
<1>4. c \in Nat
  <2> HIDE DEF settled
  <2>1. IsFiniteSet(1 .. n)
    BY FS_Interval
  <2>2. IsFiniteSet(settled)
    BY <1>3, <2>1, FS_Subset
  <2> QED
    BY <2>2, FS_CardinalityType
<1>5. \A i \in 1 .. c : Nth(i) \in settled /\ Cardinality({u \in settled : u <= Nth(i)}) = i
  <2> HIDE DEF settled
  <2> SUFFICES ASSUME NEW i \in 1 .. c
               PROVE  Nth(i) \in settled /\ Cardinality({u \in settled : u <= Nth(i)}) = i
    OBVIOUS
  <2>1. \E t \in settled : Cardinality({u \in settled : u <= t}) = i
    BY <1>3, EveryRank
  <2> QED
    BY <2>1, Zenon
<1>6. Newly = [i \in 1 .. c |-> entry(i)]
  BY Zenon DEF Newly
<1>7. \A i \in 1 .. c : Newly[i].task = Nth(i) /\ Newly[i].blocked = (plan[target][Nth(i)] = "blocked")
  BY <1>6
<1>8. \A i \in 1 .. c : entry(i) \in Entries
  <2> SUFFICES ASSUME NEW i \in 1 .. c PROVE entry(i) \in Entries
    OBVIOUS
  <2>1. Nth(i) \in Nat
    <3>1. Nth(i) \in settled
      BY <1>5
    <3> HIDE DEF Nth, settled
    <3>2. \A x \in settled : x \in 1 .. n
      BY <1>3
    <3>3. Nth(i) \in 1 .. n
      BY <3>1, <3>2, Zenon
    <3> QED
      BY <3>3
  <2> HIDE DEF Nth
  <2> QED
    BY <2>1 DEF Entries
<1> HIDE DEF Nth, entry
<1>9. Newly \in Seq(Entries) /\ DOMAIN Newly = 1 .. c
  <2> HIDE DEF c
  <2> QED
    BY <1>4, <1>6, <1>8
<1>10. ASSUME NEW i \in 1 .. c
       PROVE  /\ TrueEntry(Newly[i]) /\ Newly[i].task \in PhaseTasks
              /\ Newly[i].task \notin settledBefore
  <2>1. Nth(i) \in PhaseTasks /\ Nth(i) \notin settledBefore /\ Settled(plan[target][Nth(i)])
    BY <1>5, <1>10 DEF SettledOfPhase
  <2>2. Nth(i) \in Tasks(target)
    BY <2>1 DEF PhaseTasks
  <2> QED
    BY <1>7, <2>1, <2>2 DEF TrueEntry, Settled
<1>11. \A i, j \in 1 .. c : Nth(i) = Nth(j) => i = j
  BY <1>5
<1> HIDE DEF c, settled
<1> QED
  BY <1>7, <1>9, <1>10, <1>11

\* What the ledger says stays true while its step is worked on.
LEMMA TrueStays ==
    ASSUME TypeOK, LInv, [Next]_vars, UNCHANGED <<ledger, target>>,
           pc' \in {"seeded", "turn", "summary"} =>
             \A i \in DOMAIN ledger : ledger[i].task \in PhaseTasks' => ledger[i].task \in settledBefore'
    PROVE  LInv'
<1>1. ASSUME NEW i \in DOMAIN ledger
      PROVE  TrueEntry(ledger[i])'
  <2>1. PICK e : e = ledger[i]
    OBVIOUS
  <2>2. e \in Entries /\ TrueEntry(e)
    BY <1>1, <2>1 DEF LInv
  <2>3. target \in Steps
    <3>1. ledger # <<>>
      BY <1>1
    <3> QED
      BY <3>1 DEF LInv, TypeOK, Steps
  <2>4. Settled(plan[target][e.task]) /\ e.task \in Tasks(target)
    BY <2>2 DEF TrueEntry, Settled
  <2>5. plan'[target][e.task] = plan[target][e.task]
    BY <2>3, <2>4, StaysNext, PlanStepAllowed DEF TypeOK
  <2>6. e.task \in Tasks(target') /\ plan'[target'][e.task] = IF e.blocked THEN "blocked" ELSE "done"
    BY <2>2, <2>5 DEF TrueEntry
  <2> QED
    BY <2>1, <2>6 DEF TrueEntry
<1> QED
  BY <1>1 DEF LInv

\* An empty ledger says nothing.
LEMMA EmptyTrue ==
    ASSUME ledger' = <<>>
    PROVE  LInv'
<1>1. <<>> \in Seq(Entries) /\ DOMAIN <<>> = {}
  OBVIOUS
<1> QED
  BY <1>1 DEF LInv

\* The entries of the turn are added to those of the turns before it.
LEMMA SummarizedTrue ==
    ASSUME TypeOK, LInv, Summarized
    PROVE  LInv'
<1>1. pc = "summary" /\ pc' = "top" /\ UNCHANGED <<plan, target>> /\ ledger' = ledger \o Newly
  BY DEF Summarized
<1>2. PICK new : new = Newly
  OBVIOUS
<1>3. /\ new \in Seq(Entries)
      /\ \A i \in DOMAIN new : TrueEntry(new[i]) /\ new[i].task \in PhaseTasks
                               /\ new[i].task \notin settledBefore
      /\ \A i, j \in DOMAIN new : i # j => new[i].task # new[j].task
  BY <1>1, <1>2, NewlyTrue
<1>4. /\ ledger \in Seq(Entries)
      /\ \A i \in DOMAIN ledger : /\ TrueEntry(ledger[i])
                                  /\ ledger[i].task \in PhaseTasks => ledger[i].task \in settledBefore
      /\ \A i, j \in DOMAIN ledger : i # j => ledger[i].task # ledger[j].task
  BY <1>1 DEF LInv
<1>5. PICK l : l = ledger'
  OBVIOUS
<1>6. PICK m \in Nat, k \in Nat : m = Len(ledger) /\ k = Len(new)
  BY <1>3, <1>4
<1>7. /\ l \in Seq(Entries) /\ DOMAIN l = 1 .. (m + k)
      /\ DOMAIN ledger = 1 .. m /\ DOMAIN new = 1 .. k
      /\ \A i \in 1 .. m : l[i] = ledger[i]
      /\ \A i \in (m + 1) .. (m + k) : l[i] = new[i - m]
  <2>1. l = ledger \o new
    BY <1>1, <1>2, <1>5
  <2>2. l \in Seq(Entries) /\ Len(l) = m + k
    BY <1>3, <1>4, <1>6, <2>1
  <2>3. /\ \A i \in 1 .. m : l[i] = ledger[i]
        /\ \A i \in (m + 1) .. (m + k) : l[i] = new[i - m]
    BY <1>3, <1>4, <1>6, <2>1
  <2>4. DOMAIN l = 1 .. (m + k)
    BY <2>2
  <2>5. DOMAIN ledger = 1 .. m /\ DOMAIN new = 1 .. k
    BY <1>3, <1>4, <1>6
  <2> QED
    BY <2>2, <2>3, <2>4, <2>5
<1>8. \A i \in (m + 1) .. (m + k) : i - m \in 1 .. k
  BY <1>6
<1>9. ASSUME NEW i \in DOMAIN l
      PROVE  TrueEntry(l[i])
  <2>1. CASE i \in 1 .. m
    BY <1>4, <1>7, <2>1
  <2>2. CASE i \in (m + 1) .. (m + k)
    <3>1. l[i] = new[i - m] /\ i - m \in DOMAIN new
      BY <1>7, <1>8, <2>2
    <3> QED
      BY <1>3, <3>1
  <2> QED
    BY <1>6, <1>7, <2>1, <2>2
<1>10. ASSUME NEW i \in DOMAIN l, NEW j \in DOMAIN l, i < j
       PROVE  l[i].task # l[j].task
  <2>1. CASE j <= m
    <3>1. i \in 1 .. m /\ j \in 1 .. m /\ i # j
      BY <1>6, <1>7, <1>10, <2>1
    <3> QED
      BY <1>4, <1>7, <3>1
  <2>2. CASE i > m
    <3>1. i \in (m + 1) .. (m + k) /\ j \in (m + 1) .. (m + k)
      BY <1>6, <1>7, <1>10, <2>2
    <3>2. i - m \in DOMAIN new /\ j - m \in DOMAIN new /\ i - m # j - m
      BY <1>6, <1>7, <1>8, <1>10, <3>1
    <3> QED
      BY <1>3, <1>7, <3>1, <3>2
  <2>3. CASE i <= m /\ j > m
    <3>1. i \in 1 .. m /\ j \in (m + 1) .. (m + k)
      BY <1>6, <1>7, <1>10, <2>3
    <3>2. l[i] = ledger[i] /\ i \in DOMAIN ledger /\ l[j] = new[j - m] /\ j - m \in DOMAIN new
      BY <1>7, <1>8, <3>1
    <3> QED
      BY <1>3, <1>4, <3>2
  <2> QED
    BY <1>6, <1>7, <1>10, <2>1, <2>2, <2>3
<1>11. \A i, j \in DOMAIN l : i # j => l[i].task # l[j].task
  <2> SUFFICES ASSUME NEW i \in DOMAIN l, NEW j \in DOMAIN l, i # j
               PROVE  l[i].task # l[j].task
    OBVIOUS
  <2>1. i < j \/ j < i
    BY <1>6, <1>7
  <2> QED
    BY <1>10, <2>1
<1>12. \A i \in DOMAIN l : TrueEntry(l[i])'
  BY <1>1, <1>9 DEF TrueEntry
<1>13. target' # 0
  BY <1>1 DEF TypeOK, Driving
<1> QED
  BY <1>1, <1>5, <1>7, <1>11, <1>12, <1>13 DEF LInv

\* Every step keeps the ledger true.
LEMMA LedgerNext == TypeOK /\ LInv /\ [Next]_vars => LInv'
<1> SUFFICES ASSUME TypeOK, LInv, [Next]_vars PROVE LInv'
  OBVIOUS
<1>1. CASE ReceiveClear \/ ReceiveImplement \/ Restart
  BY <1>1, EmptyTrue DEF ReceiveClear, ReceiveImplement, Restart
<1>2. CASE Summarized
  BY <1>2, SummarizedTrue
<1>3. CASE pc' \notin {"seeded", "turn", "summary"} /\ UNCHANGED <<ledger, target>>
  BY <1>3, TrueStays
<1>4. CASE UNCHANGED <<pc, ledger, target, phase, settledBefore>>
  BY <1>4, TrueStays DEF LInv, PhaseTasks
<1>5. CASE TakeTask
  <2>1. /\ UNCHANGED <<ledger, target, phase>> /\ settledBefore' = SettledOfPhase(plan)
    BY <1>5 DEF TakeTask
  <2>2. ASSUME NEW i \in DOMAIN ledger, ledger[i].task \in PhaseTasks'
        PROVE  ledger[i].task \in settledBefore'
    BY <2>1, <2>2 DEF LInv, TrueEntry, SettledOfPhase, PhaseTasks, Settled
  <2> QED
    BY <2>1, <2>2, TrueStays
<1>6. CASE StartTurn \/ (CompleteTurn /\ pc' = "summary")
  <2>1. /\ UNCHANGED <<ledger, target, phase, settledBefore>> /\ pc \in {"seeded", "turn"}
    BY <1>6 DEF StartTurn, CompleteTurn, EndWith, BackToInbox
  <2> QED
    BY <2>1, TrueStays DEF LInv, PhaseTasks
<1>7. CASE ReceiveMessage \/ ReceiveCompact \/ ReceiveStartVerify
  <2>1. pc' \notin {"seeded", "turn", "summary"} /\ UNCHANGED <<ledger, target>>
    BY <1>7 DEF ReceiveMessage, ReceiveCompact, ReceiveStartVerify, Receive, Drive
  <2> QED
    BY <2>1, TrueStays
<1>8. CASE DriverStops \/ TurnFails \/ TurnInterrupted \/ CompleteChat \/ EndCompact
             \/ (CompleteTurn /\ pc' # "summary")
  <2>1. pc' \notin {"seeded", "turn", "summary"} /\ UNCHANGED <<ledger, target>>
    BY <1>8 DEF DriverStops, TurnFails, TurnInterrupted, CompleteChat, EndCompact, CompleteTurn,
                EndWith, BackToInbox
  <2> QED
    BY <2>1, TrueStays
<1>9. CASE Model \/ User \/ ApplyEvent \/ UNCHANGED vars
  <2>1. UNCHANGED <<pc, ledger, target, phase, settledBefore>>
    BY <1>9 DEF Model, SettleTask, ReportTasks, SubAgentFails, User, Submit, Compact, Clear,
                Press, ApproveVerify, DeclineVerify, ApproveNext, DeclineNext,
                StartImplement, BeginStep, ApplyEvent, AgentKeeps, agentVars, vars
  <2> QED
    BY <1>4, <2>1
<1> QED
  BY <1>1, <1>2, <1>5, <1>6, <1>7, <1>8, <1>9 DEF Next, Agent, Loop, Ends

\* ImplementSession!LedgerTrue: what the next task is told was settled, was, each
\* task once and the way the entry says.
THEOREM LedgerIsTrue == Spec => []LedgerTrue
<1>1. Init => LInv
  <2>1. <<>> \in Seq(Entries) /\ DOMAIN <<>> = {}
    OBVIOUS
  <2> QED
    BY <2>1 DEF Init, LInv
<1>2. LInv => LedgerTrue
  BY DEF LInv, LedgerTrue, TrueEntry
<1> QED
  BY <1>1, <1>2, LedgerNext, TypeCorrect, PTL DEF Spec

-----------------------------------------------------------------------------
(* The two sides.                                                           *)

Sessions == {c \in Commands : c.kind \in {"implement", "clear"}}
Workload == Commands \ [kind : {"clear"}]
Endings == {e \in AgentEvents : e.kind # "tasks"}

Has(s, K) == \E i \in DOMAIN s : s[i] \in K

StepOf(c) == IF c.kind = "implement" THEN c.step ELSE 0

\* The UI's session is the one the last command on its way opens or closes.
Stepped ==
    /\ ~Has(inbox, Sessions) => ui.step = target
    /\ \A i \in DOMAIN inbox :
          inbox[i] \in Sessions /\ (\A j \in DOMAIN inbox : j > i => inbox[j] \notin Sessions)
            => ui.step = StepOf(inbox[i])

\* The UI is busy only while the agent works, has work on its way, or has sent
\* an ending that is on its way.
Accounted == ui.busy => pc # "idle" \/ Has(events, Endings) \/ Has(inbox, Workload)

\* Channels are FIFO: what is added comes last, what is taken was first.
LEMMA AppendHas ==
    ASSUME NEW S, NEW K, NEW s \in Seq(S), NEW x \in S, NEW t, t = Append(s, x)
    PROVE  /\ Has(s, K) => Has(t, K)
           /\ x \in K => Has(t, K)
           /\ Has(t, K) => Has(s, K) \/ x \in K
           /\ Len(t) = Len(s) + 1 /\ t[Len(s) + 1] = x /\ DOMAIN t = 1 .. (Len(s) + 1)
           /\ DOMAIN s = 1 .. Len(s) /\ Len(s) \in Nat
           /\ \A i \in DOMAIN s : t[i] = s[i]
<1>1. /\ Len(t) = Len(s) + 1 /\ t[Len(s) + 1] = x /\ DOMAIN t = 1 .. (Len(s) + 1)
      /\ DOMAIN s = 1 .. Len(s) /\ Len(s) \in Nat
      /\ \A i \in DOMAIN s : t[i] = s[i]
  OBVIOUS
<1>2. (Has(s, K) => Has(t, K)) /\ (x \in K => Has(t, K))
  BY <1>1 DEF Has
<1>3. Has(t, K) => Has(s, K) \/ x \in K
  BY <1>1 DEF Has
<1> QED
  BY <1>1, <1>2, <1>3

\* Taking the head of a sequence: what remains holds what the rest held.
LEMMA TailHas ==
    ASSUME NEW S, NEW K, NEW s \in Seq(S), s # <<>>, NEW t, t = Tail(s)
    PROVE  /\ Has(s, K) <=> Has(t, K) \/ Head(s) \in K
           /\ Head(s) = s[1] /\ 1 \in DOMAIN s
           /\ DOMAIN s = 1 .. Len(s) /\ DOMAIN t = 1 .. (Len(s) - 1) /\ Len(s) \in Nat
           /\ \A i \in DOMAIN t : i + 1 \in DOMAIN s /\ t[i] = s[i + 1]
<1>1. /\ Head(s) = s[1] /\ 1 \in DOMAIN s
      /\ DOMAIN s = 1 .. Len(s) /\ DOMAIN t = 1 .. (Len(s) - 1) /\ Len(s) \in Nat
      /\ \A i \in DOMAIN t : i + 1 \in DOMAIN s /\ t[i] = s[i + 1]
  OBVIOUS
<1>2. Has(t, K) \/ Head(s) \in K => Has(s, K)
  BY <1>1 DEF Has
<1>3. Has(s, K) => Has(t, K) \/ Head(s) \in K
  <2> SUFFICES ASSUME NEW i \in DOMAIN s, s[i] \in K, Head(s) \notin K
               PROVE  Has(t, K)
    BY DEF Has
  <2>1. i # 1
    BY <1>1
  <2>2. i - 1 \in DOMAIN t /\ (i - 1) + 1 = i
    BY <1>1, <2>1
  <2>3. t[i - 1] = s[i]
    BY <1>1, <2>2
  <2> QED
    BY <2>2, <2>3 DEF Has
<1> QED
  BY <1>1, <1>2, <1>3

\* Nothing is sent, taken or decided.
LEMMA SteppedSame ==
    ASSUME Stepped, UNCHANGED <<inbox, target>>, ui'.step = ui.step
    PROVE  Stepped'
  BY DEF Stepped, Has

\* The UI sends a command; one about sessions says where the UI now is.
LEMMA SteppedSend ==
    ASSUME TypeOK, Stepped, UNCHANGED target, NEW c \in Commands, inbox' = Append(inbox, c),
           ui'.step = IF c \in Sessions THEN StepOf(c) ELSE ui.step
    PROVE  Stepped'
<1>1. PICK t : t = inbox'
  OBVIOUS
<1>2. inbox \in Seq(Commands)
  BY DEF TypeOK
<1>3. t = Append(inbox, c)
  BY <1>1
<1>4. /\ Has(inbox, Sessions) => Has(t, Sessions)
      /\ c \in Sessions => Has(t, Sessions)
      /\ Len(t) = Len(inbox) + 1 /\ t[Len(inbox) + 1] = c /\ DOMAIN t = 1 .. (Len(inbox) + 1)
      /\ DOMAIN inbox = 1 .. Len(inbox) /\ Len(inbox) \in Nat
      /\ \A i \in DOMAIN inbox : t[i] = inbox[i]
  <2>1. /\ Len(t) = Len(inbox) + 1 /\ t[Len(inbox) + 1] = c /\ DOMAIN t = 1 .. (Len(inbox) + 1)
        /\ DOMAIN inbox = 1 .. Len(inbox) /\ Len(inbox) \in Nat
        /\ \A i \in DOMAIN inbox : t[i] = inbox[i]
    BY <1>2, <1>3
  <2>2. Has(inbox, Sessions) => Has(t, Sessions)
    BY <2>1 DEF Has
  <2>3. c \in Sessions => Has(t, Sessions)
    BY <2>1 DEF Has
  <2> QED
    BY <2>1, <2>2, <2>3
<1>5. ~Has(t, Sessions) => ui'.step = target'
  BY <1>4 DEF Stepped
<1>6. ASSUME NEW i \in DOMAIN t, t[i] \in Sessions,
             \A j \in DOMAIN t : j > i => t[j] \notin Sessions
      PROVE  ui'.step = StepOf(t[i])
  <2>1. CASE i = Len(inbox) + 1
    BY <1>4, <1>6, <2>1
  <2>2. CASE i # Len(inbox) + 1
    <3>1. i \in DOMAIN inbox /\ t[i] = inbox[i]
      BY <1>4, <2>2
    <3>2. c \notin Sessions
      BY <1>4, <1>6, <3>1
    <3>3. \A j \in DOMAIN inbox : j > i => inbox[j] \notin Sessions
      BY <1>4, <1>6
    <3> QED
      BY <1>6, <3>1, <3>2, <3>3 DEF Stepped
  <2> QED
    BY <2>1, <2>2
<1> QED
  BY <1>1, <1>5, <1>6 DEF Stepped

\* The agent takes a command; one about sessions takes it where the UI was then.
LEMMA SteppedReceive ==
    ASSUME TypeOK, Stepped, inbox # <<>>, inbox' = Tail(inbox), UNCHANGED ui,
           target' = IF Head(inbox) \in Sessions THEN StepOf(Head(inbox)) ELSE target
    PROVE  Stepped'
<1>1. PICK t : t = inbox'
  OBVIOUS
<1>2. inbox \in Seq(Commands)
  BY DEF TypeOK
<1>3. t = Tail(inbox)
  BY <1>1
<1>4. /\ Has(inbox, Sessions) <=> Has(t, Sessions) \/ Head(inbox) \in Sessions
      /\ Head(inbox) = inbox[1] /\ 1 \in DOMAIN inbox
      /\ DOMAIN inbox = 1 .. Len(inbox) /\ DOMAIN t = 1 .. (Len(inbox) - 1) /\ Len(inbox) \in Nat
      /\ \A i \in DOMAIN t : i + 1 \in DOMAIN inbox /\ t[i] = inbox[i + 1]
  BY <1>2, <1>3, TailHas
<1>5. ASSUME NEW j \in DOMAIN inbox, j > 1
      PROVE  j - 1 \in DOMAIN t /\ inbox[j] = t[j - 1]
  <2>1. j - 1 \in DOMAIN t /\ (j - 1) + 1 = j
    BY <1>4, <1>5
  <2> QED
    BY <1>4, <2>1
<1>6. ASSUME ~Has(t, Sessions)
      PROVE  ui.step = target'
  <2>1. CASE Head(inbox) \in Sessions
    <3>1. \A j \in DOMAIN inbox : j > 1 => inbox[j] \notin Sessions
      BY <1>5, <1>6 DEF Has
    <3> QED
      BY <1>4, <2>1, <3>1 DEF Stepped
  <2>2. CASE Head(inbox) \notin Sessions
    BY <1>4, <1>6, <2>2 DEF Stepped
  <2> QED
    BY <2>1, <2>2
<1>7. ASSUME NEW i \in DOMAIN t, t[i] \in Sessions,
             \A j \in DOMAIN t : j > i => t[j] \notin Sessions
      PROVE  ui.step = StepOf(t[i])
  <2>1. i + 1 \in DOMAIN inbox /\ inbox[i + 1] = t[i]
    BY <1>4
  <2>2. ASSUME NEW j \in DOMAIN inbox, j > i + 1
        PROVE  inbox[j] \notin Sessions
    <3>1. j > 1 /\ j - 1 > i
      BY <1>4, <2>2
    <3> QED
      BY <1>5, <1>7, <3>1
  <2> QED
    BY <1>7, <2>1, <2>2 DEF Stepped
<1> QED
  BY <1>1, <1>6, <1>7 DEF Stepped

\* A UI that has just been told of an ending, or was not busy, is not.
LEMMA AccountedSame ==
    ASSUME Accounted, UNCHANGED pc, ui'.busy => ui.busy,
           Has(events, Endings) => Has(events', Endings),
           Has(inbox, Workload) => Has(inbox', Workload)
    PROVE  Accounted'
  BY DEF Accounted

\* What is in a channel stays there when something is added.
LEMMA Added ==
    ASSUME TypeOK
    PROVE  /\ \A e \in AgentEvents : events' = Append(events, e) =>
                 /\ Has(events, Endings) => Has(events', Endings)
                 /\ e \in Endings => Has(events', Endings)
           /\ \A c \in Commands : inbox' = Append(inbox, c) =>
                 /\ Has(inbox, Workload) => Has(inbox', Workload)
                 /\ c \in Workload => Has(inbox', Workload)
<1>1. inbox \in Seq(Commands) /\ events \in Seq(AgentEvents)
  BY DEF TypeOK
<1>2. ASSUME NEW e \in AgentEvents, NEW t, t = Append(events, e)
      PROVE  (Has(events, Endings) => Has(t, Endings)) /\ (e \in Endings => Has(t, Endings))
  BY <1>1, <1>2, AppendHas
<1>3. ASSUME NEW c \in Commands, NEW t, t = Append(inbox, c)
      PROVE  (Has(inbox, Workload) => Has(t, Workload)) /\ (c \in Workload => Has(t, Workload))
  BY <1>1, <1>3, AppendHas
<1> QED
  BY <1>2, <1>3

\* The commands that open or close a session, and those that give work.
LEMMA CommandKinds ==
    /\ \A k \in {"message", "compact", "verify"} :
          Command(k) \in Commands /\ Command(k) \notin Sessions /\ Command(k) \in Workload
    /\ Command("clear") \in Sessions /\ StepOf(Command("clear")) = 0
    /\ \A s \in Steps : /\ ImplementStep(s) \in Sessions /\ ImplementStep(s) \in Workload
                        /\ StepOf(ImplementStep(s)) = s
    /\ \A k \in {"done", "interrupted", "error", "compacted"} :
          Event(k) \in AgentEvents /\ Event(k) \in Endings
  BY DEF Command, ImplementStep, Event, Commands, AgentEvents, Sessions, Workload, Endings, StepOf

\* What the agent goes back to idle with is an ending.
LEMMA IdleAgrees ==
    ASSUME TypeOK, Stepped, BackToInbox, Has(events', Endings)
    PROVE  Stepped' /\ Accounted'
  BY SteppedSame DEF BackToInbox, Accounted

\* A session ends with an event the UI has yet to read, so the two may differ till it has.
LEMMA EndAgrees ==
    ASSUME TypeOK, Stepped, NEW k \in {"done", "interrupted", "error", "compacted"}, EndWith(k)
    PROVE  Stepped' /\ Accounted'
<1>1. Has(events', Endings)
  BY Added, CommandKinds DEF EndWith, Emit
<1> QED
  BY <1>1, IdleAgrees DEF EndWith

\* The agent takes a command and is at work on it, or is idle having answered.
LEMMA ReceiveAgrees ==
    ASSUME TypeOK, Stepped, Accounted,
           ReceiveMessage \/ ReceiveClear \/ ReceiveCompact \/ ReceiveImplement
              \/ ReceiveStartVerify
    PROVE  Stepped' /\ Accounted'
<1>1. pc = "idle" /\ inbox # <<>> /\ inbox' = Tail(inbox) /\ UNCHANGED <<plan, ui, acts>>
  BY DEF ReceiveMessage, ReceiveClear, ReceiveCompact, ReceiveImplement, ReceiveStartVerify,
         Receive
<1>2. PICK c : c = Head(inbox)
  OBVIOUS
<1>3. c \in Commands /\ inbox \in Seq(Commands)
  BY <1>1, <1>2, ChannelTypes DEF TypeOK
<1>4. CASE ReceiveImplement
  <2>1. c.kind = "implement" /\ target' = c.step /\ pc' = "top"
    BY <1>2, <1>4 DEF ReceiveImplement, Receive, Drive
  <2>2. c \in Sessions /\ StepOf(c) = c.step
    BY <1>3, <2>1 DEF Sessions, StepOf
  <2>3. Stepped'
    BY <1>1, <1>2, <2>1, <2>2, SteppedReceive
  <2> QED
    BY <2>1, <2>3 DEF Accounted
<1>5. CASE ReceiveClear
  <2>1. c.kind = "clear" /\ target' = 0 /\ UNCHANGED <<events, pc>>
    BY <1>2, <1>5 DEF ReceiveClear, Receive
  <2>2. c \in Sessions /\ StepOf(c) = 0 /\ c \notin Workload
    BY <1>3, <2>1 DEF Sessions, StepOf, Workload, Commands
  <2>3. Stepped'
    BY <1>1, <1>2, <2>1, <2>2, SteppedReceive
  <2>4. Has(inbox, Workload) => Has(inbox', Workload)
    <3>1. PICK t : t = Tail(inbox)
      OBVIOUS
    <3>2. Has(inbox, Workload) <=> Has(t, Workload) \/ c \in Workload
      BY <1>1, <1>2, <1>3, <3>1, TailHas
    <3> QED
      BY <1>1, <2>2, <3>1, <3>2
  <2> QED
    BY <1>1, <2>1, <2>3, <2>4, AccountedSame
<1>6. CASE ReceiveMessage \/ ReceiveCompact \/ ReceiveStartVerify
  <2>1. c.kind \in {"message", "compact", "verify"} /\ UNCHANGED target
    BY <1>2, <1>6 DEF ReceiveMessage, ReceiveCompact, ReceiveStartVerify, Receive
  <2>2. c \notin Sessions
    BY <2>1 DEF Sessions
  <2>3. Stepped'
    BY <1>1, <1>2, <2>1, <2>2, SteppedReceive
  <2>4. pc' # "idle" \/ Has(events', Endings)
    BY <1>6, Added, CommandKinds DEF ReceiveMessage, ReceiveCompact, ReceiveStartVerify, Emit, Drive
  <2> QED
    BY <2>3, <2>4 DEF Accounted
<1> QED
  BY <1>4, <1>5, <1>6

\* The driver and a turn go on, or end with an event that says so.
LEMMA AgentAgrees ==
    ASSUME TypeOK, Stepped, Accounted, Agent
    PROVE  Stepped' /\ Accounted'
<1>1. CASE ReceiveMessage \/ ReceiveClear \/ ReceiveCompact \/ ReceiveImplement
             \/ ReceiveStartVerify
  BY <1>1, ReceiveAgrees
<1>2. CASE DriverStops \/ TurnFails \/ CompleteChat \/ EndCompact
  BY <1>2, EndAgrees DEF DriverStops, TurnFails, CompleteChat, EndCompact
<1>3. CASE TakeTask \/ StartTurn \/ Summarized
  <2>1. pc' # "idle" /\ UNCHANGED <<inbox, target, ui>>
    BY <1>3 DEF TakeTask, StartTurn, Summarized
  <2> QED
    BY <2>1, SteppedSame DEF Accounted
<1>4. CASE CompleteTurn
  <2>1. CASE EndWith("done")
    BY <2>1, EndAgrees
  <2>2. CASE pc' = "summary" /\ UNCHANGED <<inbox, target, ui>>
    BY <2>2, SteppedSame DEF Accounted
  <2> QED
    BY <1>4, <2>1, <2>2 DEF CompleteTurn
<1>5. CASE TurnInterrupted
  <2>1. CASE EndWith("interrupted")
    BY <2>1, EndAgrees
  <2>2. CASE BackToInbox /\ events' = events \o <<Event("interrupted"), Event("interrupted")>>
    <3>1. PICK e \in AgentEvents : e = Event("interrupted") /\ e \in Endings
      BY CommandKinds
    <3>2. events \in Seq(AgentEvents)
      BY DEF TypeOK
    <3>3. events' = events \o <<e, e>>
      BY <2>2, <3>1
    <3>4. Len(events) + 1 \in DOMAIN events' /\ events'[Len(events) + 1] = e
      BY <3>2, <3>3
    <3>5. Has(events', Endings)
      BY <3>1, <3>4 DEF Has
    <3> QED
      BY <2>2, <3>5, IdleAgrees
  <2> QED
    BY <1>5, <2>1, <2>2 DEF TurnInterrupted
<1> QED
  BY <1>1, <1>2, <1>3, <1>4, <1>5 DEF Agent, Loop, Ends

\* A turn's calls and its sub-agents only add events.
LEMMA ModelAgrees ==
    ASSUME TypeOK, Stepped, Accounted, Model
    PROVE  Stepped' /\ Accounted'
<1>1. pc # "idle" /\ UNCHANGED <<pc, inbox, target, ui>>
  BY DEF Model, SettleTask, ReportTasks, SubAgentFails, InTurn, agentVars
<1> QED
  BY <1>1, SteppedSame DEF Accounted

\* Keys: what makes the UI busy sends the agent the work.
LEMMA UserAgrees ==
    ASSUME TypeOK, Stepped, Accounted, User
    PROVE  Stepped' /\ Accounted'
<1>1. ui \in UiStates /\ inbox \in Seq(Commands)
  BY DEF TypeOK
<1>2. ASSUME NEW s \in Steps, BeginStep(s)
      PROVE  Stepped' /\ Accounted'
  <2>1. ui'.step = s /\ inbox' = Append(inbox, ImplementStep(s)) /\ UNCHANGED target
    BY <1>2 DEF BeginStep, Send, FreshUi, AgentKeeps, agentVars
  <2>2. ImplementStep(s) \in Commands /\ ImplementStep(s) \in Sessions
        /\ ImplementStep(s) \in Workload /\ StepOf(ImplementStep(s)) = s
    BY CommandKinds, CommandTypes
  <2>3. Stepped'
    BY <2>1, <2>2, SteppedSend
  <2>4. Has(inbox', Workload)
    BY <2>1, <2>2, Added
  <2> QED
    BY <2>3, <2>4 DEF Accounted
<1>3. CASE Submit \/ Compact \/ ApproveVerify
  <2>1. PICK k \in {"message", "compact", "verify"} : inbox' = Append(inbox, Command(k))
    BY <1>3 DEF Submit, Compact, ApproveVerify, Send
  <2>2. ui'.step = ui.step /\ UNCHANGED target
    BY <1>1, <1>3 DEF Submit, Compact, ApproveVerify, UiStates, AgentKeeps, agentVars
  <2>3. Command(k) \in Commands /\ Command(k) \notin Sessions /\ Command(k) \in Workload
    BY CommandKinds
  <2>4. Stepped'
    BY <2>1, <2>2, <2>3, SteppedSend
  <2>5. Has(inbox', Workload)
    BY <2>1, <2>3, Added
  <2> QED
    BY <2>4, <2>5 DEF Accounted
<1>4. CASE Clear
  <2>1. ui'.step = 0 /\ ui'.busy = ui.busy
    BY <1>4 DEF Clear, FreshUi
  <2>2. inbox' = Append(inbox, Command("clear")) /\ UNCHANGED <<pc, events, target>>
    BY <1>4 DEF Clear, Send, AgentKeeps, agentVars
  <2>3. Command("clear") \in Commands /\ Command("clear") \in Sessions
        /\ StepOf(Command("clear")) = 0
    BY CommandKinds, CommandTypes
  <2>4. Stepped'
    BY <2>1, <2>2, <2>3, SteppedSend
  <2>5. Has(inbox, Workload) => Has(inbox', Workload)
    BY <2>2, <2>3, Added
  <2> QED
    BY <2>1, <2>2, <2>4, <2>5, AccountedSame
<1>5. CASE Press \/ DeclineVerify \/ DeclineNext
             \/ (ApproveNext /\ ui' = [ui EXCEPT !.askNext = 0] /\ UNCHANGED <<inbox, events>>
                 /\ AgentKeeps)
  <2>1. ui'.step = ui.step /\ ui'.busy = ui.busy /\ UNCHANGED <<pc, inbox, events, target>>
    BY <1>1, <1>5 DEF Press, DeclineVerify, DeclineNext, UiStates, AgentKeeps, agentVars
  <2> QED
    BY <2>1, SteppedSame, AccountedSame
<1>6. CASE ApproveNext
  <2>1. CASE BeginStep(ui.askNext)
    <3>1. ui.askNext \in Steps
      BY <1>1, <1>6 DEF ApproveNext, UiStates, Steps
    <3> QED
      BY <1>2, <2>1, <3>1
  <2> QED
    BY <1>5, <1>6, <2>1 DEF ApproveNext
<1>7. CASE \E s \in Steps : StartImplement(s)
  BY <1>2, <1>7 DEF StartImplement
<1> QED
  BY <1>3, <1>4, <1>5, <1>6, <1>7 DEF User

\* The prompts of a finished turn leave the session and the busy flag alone.
LEMMA PromptAgrees ==
    ASSUME NEW u \in UiStates
    PROVE  MaybePromptVerify(u).step = u.step /\ MaybePromptVerify(u).busy = u.busy
<1>1. MaybePromptNextStep(u).step = u.step /\ MaybePromptNextStep(u).busy = u.busy
  BY DEF MaybePromptNextStep, UiStates
<1>2. PICK v : v = [u EXCEPT !.askVerify = TRUE, !.verifyAsked = TRUE]
  OBVIOUS
<1>3. v.step = u.step /\ v.busy = u.busy
  BY <1>2 DEF UiStates
<1>4. MaybePromptVerify(u) \in {u, v, MaybePromptNextStep(u)}
  <2>1. u.step = 0 \/ (u.step # 0 /\ u.verifyAsked) \/ (u.step # 0 /\ ~u.verifyAsked)
    BY DEF UiStates
  <2> QED
    BY <1>2, <2>1 DEF MaybePromptVerify
<1> QED
  BY <1>1, <1>3, <1>4

\* An event is applied: an ending ends the wait for it.
LEMMA ApplyAgrees ==
    ASSUME TypeOK, Stepped, Accounted, ApplyEvent
    PROVE  Stepped' /\ Accounted'
<1>1. ui \in UiStates /\ events \in Seq(AgentEvents) /\ events # <<>> /\ events' = Tail(events)
      /\ UNCHANGED <<pc, inbox, target>>
  BY DEF TypeOK, ApplyEvent, AgentKeeps, agentVars
<1>2. PICK e : e = Head(events)
  OBVIOUS
<1>3. EndBusy \in UiStates /\ EndBusy.step = ui.step /\ EndBusy.busy = FALSE
  BY <1>1 DEF EndBusy, UiStates
<1>4. CASE e.kind = "tasks"
  <2>1. ui' = [ui EXCEPT !.tasks = e.tasks]
    BY <1>2, <1>4 DEF ApplyEvent
  <2>2. ui'.step = ui.step /\ ui'.busy = ui.busy
    BY <1>1, <2>1 DEF UiStates
  <2>3. Has(events, Endings) => Has(events', Endings)
    <3>1. PICK t : t = Tail(events)
      OBVIOUS
    <3>2. Has(events, Endings) <=> Has(t, Endings) \/ e \in Endings
      BY <1>1, <1>2, <3>1, TailHas
    <3>3. e \notin Endings
      BY <1>4 DEF Endings
    <3> QED
      BY <1>1, <3>1, <3>2, <3>3
  <2> QED
    BY <1>1, <2>2, <2>3, SteppedSame, AccountedSame
<1>5. CASE e.kind # "tasks"
  <2>1. ui' \in {EndBusy, MaybePromptVerify(EndBusy)}
    BY <1>2, <1>5 DEF ApplyEvent
  <2>2. ui'.step = ui.step /\ ui'.busy = FALSE
    BY <1>3, <2>1, PromptAgrees
  <2> QED
    BY <1>1, <2>2, SteppedSame DEF Accounted
<1> QED
  BY <1>4, <1>5

\* ImplementSession!SidesAgree: with nothing left to process, the UI is not busy
\* and both sides are in the same implementation session.
THEOREM SidesDoAgree == Spec => []SidesAgree
<1>1. Init => Stepped /\ Accounted
  BY DEF Init, FreshUi, Stepped, Accounted, Has
<1>2. TypeOK /\ Stepped /\ Accounted /\ [Next]_vars => Stepped' /\ Accounted'
  <2> SUFFICES ASSUME TypeOK, Stepped, Accounted, [Next]_vars PROVE Stepped' /\ Accounted'
    OBVIOUS
  <2>1. CASE Restart
    BY <2>1 DEF Restart, FreshUi, Stepped, Accounted, Has
  <2>2. CASE UNCHANGED vars
    BY <2>2, SteppedSame, AccountedSame DEF vars, agentVars
  <2> QED
    BY <2>1, <2>2, AgentAgrees, ModelAgrees, UserAgrees, ApplyAgrees DEF Next
<1>3. Stepped /\ Accounted => SidesAgree
  BY DEF Stepped, Accounted, SidesAgree, Has
<1> QED
  BY <1>1, <1>2, <1>3, TypeCorrect, PTL DEF Spec
==============================================================================
