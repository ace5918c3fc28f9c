---------------------------- MODULE PlanProgress ----------------------------
(***************************************************************************)
(* A stored plan and what may happen to it while it is implemented          *)
(* (crates/suis-core/src/projects/plans.rs): tasks of a step are taken up   *)
(* phase by phase and settled strictly in order, each of them once.         *)
(* ImplementSession implements this specification.                          *)
(***************************************************************************)
EXTENDS Integers

CONSTANTS
    NSteps,     \* number of steps of the plan
    Work,       \* Work[s]: number of work tasks of step s, w1, w2, ...
    Verify      \* Verify[s]: number of its verify tasks, v1, v2, ...

Steps == 1..NSteps

\* parse_draft refuses a step without a work task; verify tasks are optional.
ASSUME PlanShape ==
    /\ NSteps \in Nat \ {0}
    /\ Work \in [Steps -> Nat \ {0}]
    /\ Verify \in [Steps -> Nat]

Status == {"todo", "doing", "done", "blocked"}
Phases == {"work", "verify"}

\* A step's tasks in the order the code walks them: work, then verify.
Tasks(s) == 1..(Work[s] + Verify[s])
PhaseOf(s, t) == IF t <= Work[s] THEN "work" ELSE "verify"

Open(status) == status \in {"todo", "doing"}
Settled(status) == status \in {"done", "blocked"}

\* The operators below take p, the statuses of the tasks of step s.
\* Fault: any open task may be settled.
AnyOpen(s, p, t) == t \in Tasks(s) /\ Open(p[t])

\* Fault: a settled task may be settled again.
NoneOpenBefore(s, p, t) == t \in Tasks(s) /\ \A u \in Tasks(s) : u < t => ~Open(p[u])

FirstOpen(s, p, t) ==
    /\ t \in Tasks(s) /\ Open(p[t])
    /\ \A u \in Tasks(s) : u < t => ~Open(p[u])

FirstOpenOf(s, p, phase, t) ==
    /\ t \in Tasks(s) /\ PhaseOf(s, t) = phase /\ Open(p[t])
    /\ \A u \in Tasks(s) : u < t /\ PhaseOf(s, u) = phase => ~Open(p[u])

WorkDone(s, p) == \A t \in 1..Work[s] : p[t] = "done"
VerifyOutstanding(s, p) == \E t \in Tasks(s) : t > Work[s] /\ p[t] # "done"
StepComplete(s, p) == \A t \in Tasks(s) : p[t] = "done"

-----------------------------------------------------------------------------
VARIABLE plan   \* plan[s][t]: the stored status of task t of step s

PlanTypeOK ==
    /\ DOMAIN plan = Steps
    /\ \A s \in Steps : plan[s] \in [Tasks(s) -> Status]

\* As approved: nothing started.
PlanInit == plan = [s \in Steps |-> [t \in Tasks(s) |-> "todo"]]

TakeUp(s, t) ==
    /\ \E phase \in Phases : FirstOpenOf(s, plan[s], phase, t)
    /\ plan' = [plan EXCEPT ![s][t] = "doing"]

Settle(s, t, status) ==
    /\ FirstOpen(s, plan[s], t)
    /\ plan' = [plan EXCEPT ![s][t] = status]

PlanNext ==
    \E s \in Steps : \E t \in Tasks(s) :
        TakeUp(s, t) \/ \E status \in {"done", "blocked"} : Settle(s, t, status)

PlanSpec == PlanInit /\ [][PlanNext]_plan

\* Tasks settle front to back: a settled task has no open task before it, so
\* no verification result precedes the work it is about.
SettledInOrder ==
    \A s \in Steps : \A t, u \in Tasks(s) :
        u < t /\ Settled(plan[s][t]) => Settled(plan[s][u])

\* What was settled stays as it was settled: no crash, restart, resumed step or
\* late tool call reopens a task or turns a blocked one into a done one.
SettledStays ==
    [][\A s \in Steps : \A t \in Tasks(s) :
          Settled(plan[s][t]) => plan'[s][t] = plan[s][t]]_plan
=============================================================================
