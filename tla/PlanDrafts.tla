----------------------------- MODULE PlanDrafts -----------------------------
(* A plan from the model's arguments to the store, and the ids by which it    *)
(* and its tasks are found again: parse_draft of the plan tool, slugify and   *)
(* insert of PlanStore, plan_step_tasks and task_by_id_mut.                   *)
(*                                                                            *)
(* An argument of the call is "absent", "other" than what is asked for,       *)
(* "blank" or "given"; a list of titles is [list, items].  A title that is    *)
(* made into an id is a sequence of characters: small letters, capitals, of   *)
(* which SmallForm has the small form, digits, and the others.                *)
EXTENDS Integers, Sequences, SequencesExt, FiniteSets, TLC

CONSTANTS
    SmallLetters,
    SmallForm           \* capital -> small letters

Digits == {ToString(n) : n \in 0 .. 9}

ASSUME PlanDraftsAssumption ==
    /\ \A c \in DOMAIN SmallForm : SmallForm[c] \in Seq(SmallLetters)
    /\ SmallLetters \intersect ({"-"} \union Digits) = {}

-----------------------------------------------------------------------------
(* parse_draft.                                                              *)

AllTodo(titles) == [i \in DOMAIN titles |-> "todo"]
Titles(list, items) == [list |-> list, items |-> items]

\* task_titles: a list that is not there is an empty one.
BadTitles(titles) ==
    titles.list = "other" \/ (titles.list = "given" /\ ToSet(titles.items) \ {"given"} # {})
TaskTitles(titles) == IF titles.list = "given" THEN AllTodo(titles.items) ELSE <<>>

\* What a step is at fault for.
StepFault(step) ==
    CASE step.title # "given" -> "title"
      [] step.title = "given" /\ BadTitles(step.work) -> "work_tasks"
      [] step.title = "given" /\ ~BadTitles(step.work) /\ TaskTitles(step.work) = <<>> -> "no work"
      [] OTHER -> IF BadTitles(step.verify) THEN "verify_tasks" ELSE "none"

NoPlan == <<>>
Refusal(field, step) == [fault |-> field, step |-> step, revises |-> FALSE, plan |-> NoPlan]

FaultySteps(steps) == {i \in DOMAIN steps : StepFault(steps[i]) # "none"}

ParseDraft(args) ==
    LET faulty == FaultySteps(args.steps)
        first == CHOOSE i \in faulty : \A j \in faulty : i <= j
        read(step) == [work |-> TaskTitles(step.work), verify |-> TaskTitles(step.verify)]
    IN  CASE args.action \notin {"propose", "revise"} -> Refusal("action", 0)
          [] args.action = "revise" /\ args.id \in {"absent", "other"} -> Refusal("id", 0)
          [] OTHER ->
                IF args.title # "given" THEN Refusal("title", 0)
                ELSE IF args.list # "given" \/ args.steps = <<>> THEN Refusal("steps", 0)
                ELSE IF faulty # {} THEN Refusal(StepFault(args.steps[first]), first)
                ELSE [fault |-> "none", step |-> 0, revises |-> args.action = "revise",
                      plan |-> [i \in DOMAIN args.steps |-> read(args.steps[i])]]

-----------------------------------------------------------------------------
(* What is derived from a plan: is_complete, progress, next_step.            *)

IsComplete(step) == ToSet(step.work \o step.verify) \subseteq {"done"}
PlanComplete(plan) == plan # NoPlan /\ \A i \in DOMAIN plan : IsComplete(plan[i])
PlanProgressOf(plan) == <<Cardinality({i \in DOMAIN plan : IsComplete(plan[i])}), Len(plan)>>
NextStepOf(plan) == SelectInSeq(plan, LAMBDA step : ~IsComplete(step))

\* Every task by its id, work before verify.
StepTasks(step) ==
    LET numbered(prefix, tasks) == [i \in DOMAIN tasks |-> [id |-> <<prefix, i>>, status |-> tasks[i]]]
    IN  numbered("w", step.work) \o numbered("v", step.verify)

\* task_by_id_mut, of an id that is a letter and a number as it was written: with
\* zeros and a plus before it, or out of range; or of no such id.
TaskById(step, prefix, number) ==
    CASE prefix = "w" /\ number \in DOMAIN step.work -> <<"w", number>>
      [] prefix = "v" /\ number \in DOMAIN step.verify -> <<"v", number>>
      [] OTHER -> <<>>

\* current_task_id: the first that is not settled.
CurrentTask(step) ==
    LET open == SelectSeq(StepTasks(step), LAMBDA task : task.status \in {"todo", "doing"})
    IN  IF open = <<>> THEN <<>> ELSE open[1].id

\* update of the task tool in an implementation session.
SettleCurrent(step, status) ==
    LET id == CurrentTask(step)
        part == IF id[1] = "w" THEN "work" ELSE "verify"
    IN  [step EXCEPT ![part][id[2]] = status]

\* A plan settled task by task, in the order in which they are taken up, as far
\* as it goes without a blocked one.
RECURSIVE AllDone(_, _)
AllDone(plan, n) ==
    LET i == NextStepOf(plan)
    IN  IF n = 0 \/ i = 0 THEN plan ELSE AllDone([plan EXCEPT ![i] = SettleCurrent(@, "done")], n - 1)

TaskCount(plan) == FoldLeft(LAMBDA n, step : n + Len(StepTasks(step)), 0, plan)

\* A draft is refused if and only if something in it is amiss, and for its first
\* fault; and one that is accepted can be implemented: it is not complete as it
\* is, work begins at its first step, every task of a step has an id of its own,
\* and settling what is current leads through all of them and no further.
DraftSound(args) ==
    LET draft == ParseDraft(args)
        plan == draft.plan
        sound(step) == /\ step.title = "given" /\ ~BadTitles(step.work) /\ ~BadTitles(step.verify)
                       /\ step.work.list = "given" /\ step.work.items # <<>>
        whole == /\ args.action = "propose" \/ (args.action = "revise" /\ args.id \in {"blank", "given"})
                 /\ args.title = "given" /\ args.list = "given" /\ args.steps # <<>>
    IN  /\ (draft.fault = "none") = (whole /\ \A i \in DOMAIN args.steps : sound(args.steps[i]))
        /\ whole /\ draft.fault # "none" =>
              /\ ~sound(args.steps[draft.step])
              /\ \A i \in 1 .. draft.step - 1 : sound(args.steps[i])
        /\ draft.fault = "none" =>
              /\ ~PlanComplete(plan) /\ NextStepOf(plan) = 1 /\ PlanProgressOf(plan) = <<0, Len(plan)>>
              /\ \A i \in DOMAIN plan : \A task \in ToSet(StepTasks(plan[i])) :
                    TaskById(plan[i], task.id[1], task.id[2]) = task.id
              /\ \A n \in 0 .. TaskCount(plan) :
                    PlanComplete(AllDone(plan, n)) = (n = TaskCount(plan))

-----------------------------------------------------------------------------
(* The ids of plans.                                                         *)

IsAlphanumeric(c) == c \in SmallLetters \union DOMAIN SmallForm \union Digits
Lowered(c) == IF c \in DOMAIN SmallForm THEN SmallForm[c] ELSE <<c>>

\* slugify: one dash for whatever is between two runs of letters and digits.
Slugify(title) ==
    LET step(state, c) ==
            IF ~IsAlphanumeric(c) THEN [state EXCEPT !.dash = TRUE]
            ELSE [slug |-> state.slug \o (IF state.dash /\ state.slug # <<>> THEN <<"-">> ELSE <<>>)
                           \o Lowered(c),
                  dash |-> FALSE]
        slug == FoldLeft(step, [slug |-> <<>>, dash |-> FALSE], title).slug
    IN  IF slug = <<>> THEN <<"p", "l", "a", "n">> ELSE slug

Has(ids, id) == id \in ToSet(ids)

\* insert: the first number that is free.
Insert(ids, title) ==
    LET base == Slugify(title)
        numbered(n) == IF n = 1 THEN base ELSE base \o <<"-", ToString(n)>>
        free == {n \in 1 .. Len(ids) + 1 : ~Has(ids, numbered(n))}
    IN  Append(ids, numbered(CHOOSE n \in free : \A m \in free : n <= m))

\* Whatever the titles of the plans that are stored one after the other, no two
\* have the same id, so that /implement and a revision find the one they name; and
\* an id can be typed as it is listed: small letters and digits, with single
\* dashes between them.
IdsSound(titles) ==
    LET ids == FoldLeft(Insert, <<>>, titles)
    IN  /\ \A i, j \in DOMAIN ids : ids[i] = ids[j] => i = j
        /\ \A i \in DOMAIN ids :
              /\ ids[i] # <<>> /\ Head(ids[i]) # "-" /\ Last(ids[i]) # "-"
              /\ \A k \in DOMAIN ids[i] :
                    /\ ids[i][k] \in SmallLetters \union {"-"} \union Digits
                    /\ ids[i][k] = "-" => ids[i][k + 1] # "-"
=============================================================================
