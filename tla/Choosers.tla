------------------------------ MODULE Choosers ------------------------------
(* The full-screen lists a user picks from: the model picker with its      *)
(* filter, its provider groups and their connection tests; the plans and   *)
(* steps of /implement; and the stored permissions. A cursor is an index   *)
(* into rows that are computed from the list anew for every key and frame, *)
(* counted from 0.                                                         *)
(*                                                                         *)
(* Another probe of a group may land at any time: one started before a     *)
(* provider was saved reports to the picker built by the save.             *)
(* The preferred provider is the settings' default, which a run never       *)
(* changes: its group opens, and the cursor goes to it, when it is found.  *)
EXTENDS Integers, Sequences, SequencesExt, FiniteSets

CONSTANTS
    Listed,         \* the provider ids, in the picker's order
    Serves,         \* the models of each in scope; a model is its name,
    Typeable,       \* a sequence of these
    MaxNeedle,      \* bound: length of the filter
    MaxOutcomes,    \* bound: probes that land
    Viewports,      \* bound: rows the list may have on the screen
    PlanStores,     \* stored plans /implement may find: each plan a sequence of
                    \* steps, a step how many of its tasks are done, of how many
    RightStores,    \* permissions the screen may find, see RightRows
    Patterns,       \* what may be typed for a new deny
    Nobody          \* no provider, no row, no plan

\* The providers, the models they serve, and the rights a store may hold.
ListedIds == ToSet(Listed)
Served == UNION {ToSet(Serves[id]) : id \in ListedIds}
Sources == {"global", "project"}
Rights ==
    [name : Patterns, scope : {"deny"}] \union
        UNION {ToSet(store[source].commands) \union ToSet(store[source].tools) :
                  store \in RightStores, source \in Sources}

\* A list has a row for each provider; the plan screen opens on a plan at least.
ASSUME ListedAssumption ==
    /\ Listed \in Seq(ListedIds) /\ IsInjective(Listed)
    /\ Nobody \notin ListedIds /\ Nobody \notin Nat
    /\ Serves \in [ListedIds -> Seq(Served)]
    /\ Viewports \subseteq Nat \ {0}
    /\ \A store \in PlanStores : store \in Seq(Seq([done : Nat, total : Nat])) \ {<<>>}
    /\ RightStores \subseteq [Sources -> [commands : Seq(Rights), tools : Seq(Rights)]]

VARIABLES
    preferred,                      \* the settings' default provider, or Nobody
    groups, at, needle, removing,   \* the picker, its cursor and filter, the removal asked about
    test, target, tests, overlapped,    \* the connection test shown, whose it is, those under
                                        \* way; ghost: two were under way at once
    landed, shrunk,                 \* bound; ghost: rows went from under the cursor
    plans, planAt, drilled, stepAt, told, chosen,   \* /implement; chosen is what it started
    rights, rightAt, adding, revoking,  \* /permissions; revoking is the row asked about
    wheeled                         \* ghost: the cursor has left that row

pickerVars == <<preferred, groups, at, needle, removing, test, target, tests, overlapped, landed, shrunk>>
planVars == <<plans, planAt, drilled, stepAt, told, chosen>>
rightVars == <<rights, rightAt, adding, revoking, wheeled>>
chooserVars == <<pickerVars, planVars, rightVars>>

\* move_up and move_down of every list: the cursor wraps at both ends.
Moved(cursor, count) == {(cursor + 1) % count, (cursor + count - 1) % count}
Clamped(cursor, count) == IF cursor < count THEN cursor ELSE count - 1

-----------------------------------------------------------------------------
(* The picker.                                                             *)

Has(model, part) == \E i \in 0 .. Len(model) - Len(part) : SubSeq(model, i + 1, i + Len(part)) = part

\* The indices of a group's models a filter leaves.
Found(group, filtered) ==
    FlattenSeq([i \in DOMAIN group.models |->
        IF filtered = <<>> \/ Has(group.models[i], filtered) THEN <<i>> ELSE <<>>])

\* visible_rows: headers, the models of open groups, and the add row. While
\* filtering a group without a match is hidden and every other is open.
RowsOver(listed, filtered) ==
    FlattenSeq([g \in DOMAIN listed |->
        LET found == Found(listed[g], filtered)
        IN  IF filtered # <<>> /\ found = <<>> THEN <<>>
            ELSE <<[kind |-> "header", group |-> g, model |-> 0]>> \o
                 (IF filtered # <<>> \/ listed[g].expanded
                  THEN [k \in DOMAIN found |-> [kind |-> "model", group |-> g, model |-> found[k]]]
                  ELSE <<>>)])
    \o <<[kind |-> "add", group |-> 0, model |-> 0]>>
PickRows == RowsOver(groups, needle)

OnHeader == at < Len(PickRows) /\ PickRows[at + 1].kind = "header"
HeaderGroup == PickRows[at + 1].group
HeaderId == IF OnHeader THEN groups[HeaderGroup].id ELSE Nobody

\* visible_test: hidden once the cursor leaves the header it was started on.
VisibleTest == IF target # Nobody /\ target = HeaderId THEN test ELSE "idle"

\* build_lines: the row each line shows, 0 for a notice or a blank line.
PickLines ==
    LET drawn == PickRows
    IN  (IF Len(drawn) = 1 THEN <<0>> ELSE <<>>)
        \o FlattenSeq([i \in DOMAIN drawn |-> IF drawn[i].kind = "add" THEN <<0, i>> ELSE <<i>>])
        \o (IF VisibleTest = "idle" THEN <<>> ELSE <<0, 0>>)

\* Fault: the blank line above the add row is not counted.
SelectedLineFlat == at + (IF Len(PickRows) = 1 THEN 1 ELSE 0)

\* selected_line, counted from 0.
SelectedLine ==
    LET drawn == PickRows
        past == IF at < Len(drawn) THEN at + 1 ELSE Len(drawn)
        blanks == Cardinality({i \in 1 .. past : drawn[i].kind = "add"})
    IN  at + blanks + (IF Len(drawn) = 1 THEN 1 ELSE 0)

ScrollOffset(line, total, viewport) ==
    LET behind == IF line < viewport THEN 0 ELSE line - (viewport - 1)
    IN  CASE total <= viewport -> 0
          [] behind < total - viewport -> behind
          [] OTHER -> total - viewport

\* first_model_cursor: where a filter edit puts the cursor.
FirstModel(drawn) ==
    LET models == {i \in DOMAIN drawn : drawn[i].kind = "model"}
    IN  IF models = {} THEN 0 ELSE (CHOOSE i \in models : \A j \in models : i <= j) - 1

IsExpandable(group) == group.status = "online" /\ group.models # <<>>

\* from_plan, and a probe that found the server (apply_outcome).
Checked(id) == [id |-> id, status |-> "checking", models |-> <<>>, expanded |-> FALSE]
Resolved(group, status) ==
    IF status = "online" THEN [group EXCEPT !.status = status, !.models = Serves[group.id]]
    ELSE [group EXCEPT !.status = status, !.models = <<>>, !.expanded = FALSE]

PickerInit ==
    /\ preferred \in ListedIds \union {Nobody}
    /\ groups = [i \in DOMAIN Listed |-> [Checked(Listed[i]) EXCEPT !.expanded = (Listed[i] = preferred)]]
    /\ at = 0 /\ needle = <<>> /\ removing = Nobody
    /\ test = "idle" /\ target = Nobody /\ tests = {} /\ overlapped = FALSE
    /\ landed = 0 /\ shrunk = FALSE

TestKept == UNCHANGED <<test, target, tests, overlapped>>

\* focus_provider: where the cursor goes in the groups as they are now. The first
\* model of the preferred provider is highlighted; without one the cursor stays.
Focused(cursor) ==
    LET drawn == RowsOver(groups', <<>>)
        first == {i \in DOMAIN drawn : drawn[i].kind = "model" /\ groups'[drawn[i].group].id = preferred}
    IN  IF first = {} THEN cursor ELSE (CHOOSE i \in first : \A j \in first : i <= j) - 1

\* apply_discovery_msg: an outcome leaves the cursor where it is, unless it finds the
\* preferred provider and no filter is set.
Outcome ==
    /\ landed < MaxOutcomes /\ landed' = landed + 1
    /\ \E g \in DOMAIN groups, status \in {"online", "offline"} :
          LET resolved == Resolved(groups[g], status)
          IN  IF status = "online" /\ resolved.id = preferred /\ needle = <<>>
              THEN groups' = [groups EXCEPT ![g] = [resolved EXCEPT !.expanded = TRUE]] /\ at' = Focused(at)
              ELSE groups' = [groups EXCEPT ![g] = resolved] /\ at' = at
    /\ shrunk' = (at' >= Len(RowsOver(groups', needle)))
    /\ UNCHANGED <<needle, removing>> /\ TestKept

\* reprobe, after a save: a new picker, filled from the probes it waited for.
Rebuilt ==
    /\ removing = Nobody
    /\ landed < MaxOutcomes /\ landed' = landed + 1
    /\ \E status \in [DOMAIN Listed -> {"online", "offline"}] :
          /\ groups' = [i \in DOMAIN Listed |->
                LET group == Resolved(Checked(Listed[i]), status[i])
                IN  [group EXCEPT !.expanded = group.id = preferred]]
          /\ at' = Focused(0)
    /\ needle' = <<>> /\ test' = "idle" /\ target' = Nobody /\ shrunk' = FALSE
    /\ UNCHANGED <<removing, tests, overlapped>>

\* The remove-confirmation owns the keys while it is open.
Pick == removing = Nobody /\ UNCHANGED landed

\* The keys, and the wheel (handle_mouse), which no confirmation holds up.
MoveRow ==
    /\ at' \in Moved(at, Len(PickRows)) /\ shrunk' = FALSE
    /\ UNCHANGED <<groups, needle, removing, landed>> /\ TestKept

\* push_filter and pop_filter; Esc clears a filter before it leaves.
FilterEdit ==
    /\ Pick
    /\ \/ \E c \in Typeable : Len(needle) < MaxNeedle /\ needle' = Append(needle, c)
       \/ needle' = IF needle = <<>> THEN <<>> ELSE Front(needle)
    /\ at' = FirstModel(RowsOver(groups, needle')) /\ shrunk' = FALSE
    /\ UNCHANGED <<groups, removing>> /\ TestKept

ClearFilter ==
    /\ Pick /\ needle # <<>>
    /\ needle' = <<>> /\ at' = 0 /\ shrunk' = FALSE
    /\ UNCHANGED <<groups, removing>> /\ TestKept

\* Enter on a header: an online group opens or closes, also under a filter
\* that keeps it open; one that failed is probed again.
ToggleGroup ==
    /\ Pick /\ OnHeader
    /\ IsExpandable(groups[HeaderGroup])
    /\ groups' = [groups EXCEPT ![HeaderGroup].expanded = ~@]
    /\ at' = Clamped(at, Len(RowsOver(groups', needle)))
    /\ UNCHANGED <<needle, removing, shrunk>> /\ TestKept

RetryGroup ==
    /\ Pick /\ OnHeader
    /\ ~IsExpandable(groups[HeaderGroup]) /\ groups[HeaderGroup].status # "checking"
    /\ groups' = [groups EXCEPT ![HeaderGroup].status = "checking"]
    /\ UNCHANGED <<at, needle, removing, shrunk>> /\ TestKept

\* Ctrl+T, and its result, which every view records.
StartTest ==
    /\ Pick /\ OnHeader
    /\ HeaderId \notin tests       \* a bound: one test of a provider at a time
    /\ target' = HeaderId /\ test' = "testing"
    /\ tests' = tests \union {HeaderId}
    /\ overlapped' = (overlapped \/ tests # {})
    /\ UNCHANGED <<groups, at, needle, removing, shrunk>>

TestLands ==
    /\ \E id \in tests : tests' = tests \ {id} /\ test' = id
    /\ UNCHANGED <<groups, at, needle, removing, target, overlapped, landed, shrunk>>

AskRemoval ==
    /\ Pick /\ OnHeader
    /\ removing' = HeaderId
    /\ UNCHANGED <<groups, at, needle, shrunk>> /\ TestKept

\* Yes or no; a removed provider takes its test along.
AnswerRemoval ==
    /\ removing # Nobody
    /\ removing' = Nobody
    /\ \/ UNCHANGED <<groups, at, test, target, shrunk>>
       \/ /\ groups' = FlattenSeq([g \in DOMAIN groups |-> IF groups[g].id = removing THEN <<>> ELSE <<groups[g]>>])
          /\ at' = Clamped(at, Len(RowsOver(groups', needle))) /\ shrunk' = FALSE
          /\ IF target = removing THEN target' = Nobody /\ test' = "idle"
             ELSE UNCHANGED <<target, test>>
    /\ UNCHANGED <<needle, tests, overlapped, landed>>

PickerNext ==
    /\ \/ Outcome \/ Rebuilt
       \/ MoveRow \/ FilterEdit \/ ClearFilter
       \/ ToggleGroup \/ RetryGroup
       \/ StartTest \/ TestLands \/ AskRemoval \/ AnswerRemoval
    /\ UNCHANGED preferred

\* The row Enter acts on is drawn, on the line the list is scrolled to and
\* inside the window, and the window does not show past the end; the cursor
\* is on a row except after a probe took rows away under it; a finished test is
\* shown only with the provider that was tested, unless two ran at once.
PickerShown ==
    LET drawn == PickRows
        shown == PickLines
        line == SelectedLine
    IN  /\ at < Len(drawn) \/ shrunk
        /\ at < Len(drawn) => shown[line + 1] = at + 1
        /\ at < Len(drawn) => \A viewport \in Viewports :
              LET top == ScrollOffset(line, Len(shown), viewport)
              IN  /\ line \in top .. top + viewport - 1
                  /\ Len(shown) >= viewport => top + viewport <= Len(shown)
        /\ VisibleTest \notin {"idle", "testing"} /\ ~overlapped => VisibleTest = HeaderId

-----------------------------------------------------------------------------
(* /implement: the plans, and under one of them "whole plan" and its steps. *)

StepComplete(step) == step.done = step.total

\* Plan::next_step and Plan::progress.
NextStep(plan) ==
    LET open == {i \in DOMAIN plan : ~StepComplete(plan[i])}
    IN  IF open = {} THEN Nobody ELSE CHOOSE i \in open : \A j \in open : i <= j
Progress(plan) == Cardinality({i \in DOMAIN plan : StepComplete(plan[i])})

PlansInit ==
    /\ plans \in PlanStores
    /\ planAt = 0 /\ drilled = Nobody /\ stepAt = 0 /\ told = FALSE /\ chosen = Nobody

ListLen == IF drilled = Nobody THEN Len(plans) ELSE Len(plans[drilled]) + 1

MovePlan ==
    /\ IF drilled = Nobody
       THEN planAt' \in Moved(planAt, ListLen) /\ UNCHANGED stepAt
       ELSE stepAt' \in Moved(stepAt, ListLen) /\ UNCHANGED planAt
    /\ UNCHANGED <<plans, drilled, told, chosen>>

Drill ==
    /\ drilled = Nobody
    /\ drilled' = planAt + 1 /\ stepAt' = 0 /\ told' = FALSE
    /\ UNCHANGED <<plans, planAt, chosen>>

\* The step the highlighted row stands for.
RowStep == IF stepAt = 0 THEN NextStep(plans[drilled]) ELSE stepAt

\* Enter in a plan leaves the screen, but for a complete one.
ChooseRow ==
    /\ drilled # Nobody
    /\ IF RowStep = Nobody THEN told' = TRUE /\ UNCHANGED chosen
       ELSE /\ told' = FALSE
            /\ chosen' = [plan |-> drilled, row |-> stepAt, step |-> RowStep]
    /\ UNCHANGED <<plans, planAt, drilled, stepAt>>

BackUp ==
    /\ drilled # Nobody
    /\ drilled' = Nobody /\ stepAt' = 0 /\ told' = FALSE
    /\ UNCHANGED <<plans, planAt, chosen>>

PlansNext == chosen = Nobody /\ (MovePlan \/ Drill \/ ChooseRow \/ BackUp)

\* A step that is started is the one of the highlighted row; for the whole
\* plan it is the first open one, and only a plan that shows every step done
\* has none.
PlanRowsTrue ==
    /\ planAt < Len(plans) /\ stepAt < (IF drilled = Nobody THEN 1 ELSE ListLen)
    /\ chosen # Nobody =>
          LET plan == plans[chosen.plan]
          IN  /\ chosen.step \in DOMAIN plan
              /\ IF chosen.row # 0 THEN chosen.step = chosen.row
                 ELSE ~StepComplete(plan[chosen.step]) /\ \A i \in 1 .. chosen.step - 1 : StepComplete(plan[i])
    /\ told => Progress(plans[drilled]) = Len(plans[drilled])

-----------------------------------------------------------------------------
(* /permissions: commands and tools of the global and the project store.   *)

\* rebuild: a right is its name and its scope.
RightRows ==
    LET section(source, kind) ==
            [i \in DOMAIN rights[source][kind] |->
                [source |-> source, kind |-> kind, right |-> rights[source][kind][i]]]
    IN  section("global", "commands") \o section("global", "tools")
        \o section("project", "commands") \o section("project", "tools")

RightsInit ==
    /\ rights \in RightStores
    /\ rightAt = 0 /\ adding = Nobody /\ revoking = Nobody /\ wheeled = FALSE

\* The keys move the cursor when no overlay is open, the wheel (handle_mouse)
\* always.
MoveRight ==
    /\ RightRows # <<>> /\ rightAt' \in Moved(rightAt, Len(RightRows))
    /\ wheeled' = (revoking # Nobody /\ RightRows[rightAt' + 1] # revoking)
    /\ UNCHANGED <<rights, adding, revoking>>

AskRevoke ==
    /\ revoking = Nobody /\ adding = Nobody
    /\ RightRows # <<>> /\ revoking' = RightRows[rightAt + 1]
    /\ UNCHANGED <<rights, rightAt, adding, wheeled>>

Rebuild == rightAt' = IF rightAt < Len(RightRows') \/ rightAt = 0 THEN rightAt ELSE Len(RightRows') - 1

\* revoke_selected goes by the cursor, and removes the first equal entry.
Revoke ==
    LET row == RightRows[rightAt + 1]
        entries == rights[row.source][row.kind]
        first == CHOOSE i \in DOMAIN entries : entries[i] = row.right /\ \A j \in 1 .. i - 1 : entries[j] # row.right
    IN  /\ revoking # Nobody /\ revoking' = Nobody /\ wheeled' = FALSE
        /\ rights' = [rights EXCEPT ![row.source][row.kind] = RemoveAt(@, first)]
        /\ Rebuild
        /\ UNCHANGED adding

KeepRight ==
    /\ revoking # Nobody /\ revoking' = Nobody /\ wheeled' = FALSE
    /\ UNCHANGED <<rights, rightAt, adding>>

\* "n" opens the input; its buffer is one of Patterns or blank.
TypeDeny ==
    /\ revoking = Nobody
    /\ adding' \in IF adding = Nobody THEN {"blank"} ELSE Patterns \union {"blank", Nobody}
    /\ UNCHANGED <<rights, rightAt, revoking, wheeled>>

AddDeny ==
    /\ adding # Nobody /\ adding' = Nobody
    /\ LET denial == [name |-> adding, scope |-> "deny"]
       IN  IF adding = "blank" \/ denial \in ToSet(rights["project"].commands)
           THEN UNCHANGED <<rights, rightAt>>
           ELSE /\ rights' = [rights EXCEPT !["project"].commands = Append(@, denial)]
                /\ Rebuild
    /\ UNCHANGED <<revoking, wheeled>>

RightsNext == MoveRight \/ AskRevoke \/ Revoke \/ KeepRight \/ TypeDeny \/ AddDeny

RightsShown ==
    /\ RightRows # <<>> => rightAt < Len(RightRows)
    /\ revoking # Nobody /\ ~wheeled => RightRows[rightAt + 1] = revoking

\* An edit takes away one row, the one that was asked about unless the wheel
\* has turned since, or adds one deny to the project's commands.
EditsOne ==
    rights' # rights =>
        \/ /\ revoking # Nobody
           /\ \E i \in DOMAIN RightRows :
                 (RightRows[i] = revoking \/ wheeled) /\ RightRows' = RemoveAt(RightRows, i)
        \/ /\ revoking = Nobody
           /\ \E i \in 1 .. Len(RightRows) + 1 :
                 RightRows' = InsertAt(RightRows, i, [source |-> "project", kind |-> "commands",
                                                      right |-> [name |-> adding, scope |-> "deny"]])

-----------------------------------------------------------------------------
\* One of the three screens takes the keys.
InPicker == PickerNext /\ UNCHANGED <<planVars, rightVars>>
InPlans == PlansNext /\ UNCHANGED <<pickerVars, rightVars>>
InRights == RightsNext /\ UNCHANGED <<pickerVars, planVars>>

ChoosersInit == PickerInit /\ PlansInit /\ RightsInit
ChoosersSpec == ChoosersInit /\ [][InPicker \/ InPlans \/ InRights]_chooserVars

\* What a list highlights is what its keys act on, and an edit takes away what was
\* asked about: see PickerShown, PlanRowsTrue, RightsShown and EditsOne. Of the
\* permissions revoke_permission says "the highlighted row is still the one it
\* was opened on", which the wheel makes untrue: `wheeled`.
ChoicesTrue == [](PickerShown /\ PlanRowsTrue /\ RightsShown) /\ [][EditsOne]_rightVars
=============================================================================
