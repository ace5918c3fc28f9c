------------------------------ MODULE TaskTool ------------------------------
(* The task tool (tools/task.rs): the list a session keeps of its own, and    *)
(* in an implementation session the one task of the stored plan that the work *)
(* package names (context/work_package.rs), while another session may revise  *)
(* or take away the plan.                                                     *)
(*                                                                            *)
(* The step that is worked on is the plan's first.  A call of the model is an *)
(* action, an id and a status, any of which may be amiss.                     *)
EXTENDS PlanDrafts

CONSTANTS
    MaxToolCalls,       \* bound on the calls
    MaxRevisions,       \* bound on the revisions by another session
    RevisedPlans        \* what a plan may be

VARIABLES
    backed,             \* implement: whether the session is an implementation
    tasks, lastId,      \* TaskStore
    plan, revision,     \* .suis/plans.json, and how often it was replaced
    packaged,           \* the task the work package names, and of which revision
    reply, callCount    \* of the last call; how many there were

taskVars == <<backed, tasks, lastId, plan, revision, packaged, reply, callCount>>

Settled == {"done", "blocked"}
Untold == [id |-> <<>>, revision |-> 0]

TaskInit ==
    /\ backed \in BOOLEAN
    /\ tasks = <<>> /\ lastId = 0
    /\ plan \in RevisedPlans /\ revision = 0
    /\ packaged = Untold
    /\ reply = "none" /\ callCount = 0

-----------------------------------------------------------------------------
(* The list of a session.                                                    *)

\* TaskStatus::parse, of a status and of the other words for it.
ParseStatus(word) ==
    CASE word \in {"todo", "pending"} -> "todo"
      [] word \in {"doing", "in_progress", "active"} -> "doing"
      [] word \in {"done", "completed"} -> "done"
      [] OTHER -> IF word = "blocked" THEN "blocked" ELSE "invalid"

\* create.
Created == <<Append(tasks, [id |-> lastId + 1, status |-> "todo"]), lastId + 1>>

WithStatus(id, status) ==
    [i \in DOMAIN tasks |-> IF tasks[i].id = id THEN [tasks[i] EXCEPT !.status = status] ELSE tasks[i]]

ListCall(action, id, word) ==
    LET status == ParseStatus(word)
        known == id \in {tasks[i].id : i \in DOMAIN tasks}
    IN  /\ CASE action = "create" -> tasks' = Created[1] /\ lastId' = Created[2] /\ reply' = "taken"
             [] action = "update" /\ status # "invalid" /\ known ->
                    tasks' = WithStatus(id, status) /\ reply' = "taken" /\ UNCHANGED lastId
             [] OTHER -> /\ reply' = IF action = "list" THEN "listed" ELSE "refused"
                         /\ UNCHANGED <<tasks, lastId>>
        /\ UNCHANGED plan

-----------------------------------------------------------------------------
(* An implementation session.                                                *)

\* assemble: the task of the package.
PackageTask(step) ==
    LET at == SelectInSeq(StepTasks(step), LAMBDA task : task.status \in {"todo", "doing"})
    IN  IF at = 0 THEN <<>> ELSE StepTasks(step)[at].id

\* The driver sets the next task to doing and seeds the context with the package.
Assemble ==
    /\ backed /\ plan # NoPlan
    /\ PackageTask(plan[1]) # <<>>
    /\ plan' = [plan EXCEPT ![1] = SettleCurrent(@, "doing")]
    /\ packaged' = [id |-> PackageTask(plan[1]), revision |-> revision]
    /\ packaged' # packaged
    /\ UNCHANGED <<backed, tasks, lastId, revision, reply, callCount>>

\* What an update is refused for, in the order of execute_plan_backed.
UpdateRefused(action, id, status) ==
    \/ action # "update"
    \/ status \notin Settled
    \/ plan = NoPlan
    \/ CurrentTask(plan[1]) = <<>> \/ CurrentTask(plan[1]) # id

PlanCall(action, id, word) ==
    LET status == ParseStatus(word)
        then == [plan EXCEPT ![1] = SettleCurrent(@, status)]
    IN  /\ IF UpdateRefused(action, id, status)
           THEN reply' = "refused" /\ UNCHANGED plan
           ELSE /\ plan' = then
                /\ reply' = CASE PlanComplete(then) -> "plan complete"
                              [] ~PlanComplete(then) /\ IsComplete(then[1]) -> "step complete"
                              [] OTHER -> "taken"
        /\ UNCHANGED <<tasks, lastId>>

Call ==
    /\ callCount < MaxToolCalls /\ callCount' = callCount + 1
    /\ \E action \in {"create", "update", "list", "other"}, word \in {"pending", "active", "done", "blocked", "x"} :
          \/ ~backed /\ \E id \in 1 .. MaxToolCalls : ListCall(action, id, word)
          \/ backed /\ \E id \in {"w", "v"} \X {1, 2} : PlanCall(action, id, word)
    /\ UNCHANGED <<backed, revision, packaged>>

\* gate_plan of another session: the plan is replaced, or its file taken away.
Revise ==
    /\ backed /\ revision < MaxRevisions /\ revision' = revision + 1
    /\ plan' \in RevisedPlans \union {NoPlan}
    /\ UNCHANGED <<backed, tasks, lastId, packaged, reply, callCount>>

TaskNext == Call \/ Assemble \/ Revise

-----------------------------------------------------------------------------
StatusOf(step, id) == IF id[1] = "w" THEN step.work[id[2]] ELSE step.verify[id[2]]
Changed(old, new) ==
    IF old = NoPlan THEN {}
    ELSE {task.id : task \in {t \in ToSet(StepTasks(old[1])) : StatusOf(new[1], t.id) # t.status}}

\* The ids of a session's own list are never used twice, an implementation keeps
\* no such list, and the package and the fence of the tool agree on the task.
TaskListTrue ==
    /\ \A i, j \in DOMAIN tasks : i # j => tasks[i].id # tasks[j].id
    /\ \A i \in DOMAIN tasks : tasks[i].id <= lastId
    /\ backed => tasks = <<>>
    /\ plan # NoPlan => PackageTask(plan[1]) = CurrentTask(plan[1])

\* A call changes nothing, or one task: of the plan the one that was current, to
\* done or blocked, which is the task the package named or, once that is settled,
\* the one that follows, unless the plan was revised since.  A call that is refused
\* changes nothing, and "complete" is said with the last task and not before.
CallsSettleOne ==
    [][ callCount' # callCount =>
        /\ reply' \in {"refused", "listed"} => UNCHANGED <<tasks, lastId, plan>>
        /\ Cardinality({i \in DOMAIN tasks : tasks'[i] # tasks[i]}) + Cardinality(Changed(plan, plan')) <= 1
        /\ \A id \in Changed(plan, plan') :
              /\ id = CurrentTask(plan[1]) /\ StatusOf(plan'[1], id) \in Settled
              /\ packaged.revision = revision /\ packaged # Untold =>
                    id = packaged.id \/ StatusOf(plan[1], packaged.id) \in Settled
        /\ reply' = "plan complete" => \A i \in DOMAIN plan' : IsComplete(plan'[i])
        /\ reply' = "step complete" => PackageTask(plan'[1]) = <<>> /\ ~PlanComplete(plan')
        /\ plan' # plan /\ reply' = "taken" => ~IsComplete(plan'[1])
      ]_taskVars
=============================================================================
