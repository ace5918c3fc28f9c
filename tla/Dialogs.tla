------------------------------ MODULE Dialogs -------------------------------
(* The dialogs a user fills in or answers: the form that adds or edits a    *)
(* provider, with its presets and connection tests; the menu of a           *)
(* permission prompt; and the plan under review, which scrolls.             *)
EXTENDS Integers, Sequences, SequencesExt, FiniteSets

CONSTANTS
    Chars,          \* characters that can be typed: "A" and "a" are a letter and
                    \* its lower case, "sp" a space, and nothing else is a letter
    Presets,        \* sequence of drafts
    Taken,          \* the ids listed when a form opens, a set of sets of them
    Transports,     \* the picker's languages, a sequence
    MaxKeys,        \* bound: characters typed or removed
    MaxTests,       \* bound: connection tests
    MaxForms,       \* bound: forms opened, one after the other
    PlanLengths,    \* lines of a plan, wrapped to the popup
    PopupHeights,   \* rows a popup may have for them
    Pages,          \* what one key scrolls, up or down
    Nothing, Testing    \* no error, test or answer; a test without its result

\* What a field may hold; the dashes are those of a slug.
FieldTexts == Seq(Chars \union {"a", "-"})
Drafts == [name : FieldTexts, id : FieldTexts, endpoint : FieldTexts, transport : ToSet(Transports), key : FieldTexts]

\* The picker has a language, "nothing" is no error, sizes are numbers.
ASSUME DialogConstants ==
    /\ Transports \in Seq(ToSet(Transports)) \ {<<>>}
    /\ Presets \in Seq(Drafts)
    /\ Taken \subseteq SUBSET FieldTexts
    /\ Nothing \notin {"no id", "id in use", "endpoint"}
    /\ PlanLengths \union PopupHeights \union Pages \subseteq Nat

VARIABLES
    opened, sheet, filled, idEdited, focus, presetAt, \* the provider form, and whether it is open
    fault, probe, flying, outrun,   \* its error, its test, the drafts whose tests are under
                                    \* way; ghost: the draft changed while a test of its was
    keys, probed, forms, saved,     \* bounds, and which form this is; the entry it saved
    menu, answer,                           \* the permission prompt and what it was answered
    review                                  \* the plan under review

formVars == <<opened, sheet, filled, idEdited, focus, presetAt, fault, probe, flying, outrun, keys, probed, forms, saved>>
menuVars == <<menu, answer>>
dialogVars == <<formVars, menuVars, review>>

-----------------------------------------------------------------------------
(* The provider form.                                                      *)

Fields == <<"name", "id", "endpoint", "transport", "key">>
TextFields == {"name", "id", "endpoint", "key"}

Letter(c) == IF c = "A" THEN "a" ELSE c

\* slugify: runs of other characters become one dash, none at an end.
Slug(name) ==
    LET letters == {i \in DOMAIN name : Letter(name[i]) = "a"}
        dashed(i) == i - 1 \notin letters /\ \E j \in letters : j < i
    IN  FlattenSeq([i \in DOMAIN name |->
            IF i \notin letters THEN <<>> ELSE IF dashed(i) THEN <<"-", "a">> ELSE <<"a">>])

Trimmed(text) ==
    LET ink == {i \in DOMAIN text : text[i] # "sp"}
    IN  IF ink = {} THEN <<>>
        ELSE SubSeq(text, CHOOSE i \in ink : \A j \in ink : i <= j, CHOOSE i \in ink : \A j \in ink : j <= i)

\* endpoint_problem; a space inside an endpoint stands for what does not parse.
EndpointProblem(text) == Trimmed(text) = <<>> \/ "sp" \in ToSet(Trimmed(text))

\* validate: the first field that is wrong.
Problem(d, taken) ==
    CASE Trimmed(d.id) = <<>>           -> "no id"
      [] Trimmed(d.id) \in taken        -> "id in use"
      [] EndpointProblem(d.endpoint)    -> "endpoint"
      [] OTHER                          -> Nothing

Blank == [name |-> <<>>, id |-> <<>>, endpoint |-> <<>>, transport |-> Transports[1], key |-> <<>>]

\* new_add opens on the presets with every listed id reserved, new_edit on the
\* fields of a stored provider with every id but its own.
Openings ==
    {[sheet |-> [edits |-> FALSE, enabled |-> TRUE, choosing |-> TRUE, taken |-> ids],
      filled |-> Blank, idEdited |-> FALSE] : ids \in Taken}
    \union
    {[sheet |-> [edits |-> TRUE, enabled |-> enabled, choosing |-> FALSE, taken |-> ids \ {Presets[i].id}],
      filled |-> Presets[i], idEdited |-> TRUE] : enabled \in BOOLEAN, i \in DOMAIN Presets, ids \in Taken}

FormInit ==
    /\ \E opening \in Openings :
          sheet = opening.sheet /\ filled = opening.filled /\ idEdited = opening.idEdited
    /\ opened = TRUE /\ focus = 1 /\ presetAt = 0 /\ fault = Nothing /\ probe = Nothing
    /\ flying = <<>> /\ outrun = FALSE /\ keys = 0 /\ probed = 0 /\ forms = 1 /\ saved = Nothing

Filling == opened /\ ~sheet.choosing

\* The tests under way that this form started.
Own == {i \in DOMAIN flying : flying[i].form = forms}

\* Esc, while a preset is chosen or the fields are filled; a test is not stopped.
CloseForm ==
    /\ opened /\ opened' = FALSE
    /\ UNCHANGED <<sheet, filled, idEdited, focus, presetAt, fault, probe, flying, outrun, keys, probed, forms, saved>>

\* A form opened from the lists, for a new provider or for any stored one.
OpenForm ==
    /\ ~opened /\ opened' = TRUE /\ forms < MaxForms /\ forms' = forms + 1
    /\ \E opening \in Openings :
          sheet' = opening.sheet /\ filled' = opening.filled /\ idEdited' = opening.idEdited
    /\ focus' = 1 /\ presetAt' = 0 /\ fault' = Nothing /\ probe' = Nothing /\ saved' = Nothing
    /\ outrun' = FALSE
    /\ UNCHANGED <<flying, keys, probed>>

PresetMove ==
    /\ opened /\ sheet.choosing
    /\ presetAt' \in {(presetAt + 1) % (Len(Presets) + 1), (presetAt + Len(Presets)) % (Len(Presets) + 1)}
    /\ UNCHANGED <<opened, sheet, filled, idEdited, focus, fault, probe, flying, outrun, keys, probed, forms, saved>>

\* choose_preset; the row after the last preset is Custom.
ChoosePreset ==
    /\ opened /\ sheet.choosing
    /\ sheet' = [sheet EXCEPT !.choosing = FALSE]
    /\ IF presetAt = Len(Presets) THEN UNCHANGED <<filled, idEdited>>
       ELSE LET preset == Presets[presetAt + 1]
            IN  filled' = [preset EXCEPT !.id = Slug(preset.name)] /\ idEdited' = FALSE
    /\ focus' = 1 /\ probe' = Nothing
    /\ UNCHANGED <<opened, presetAt, fault, flying, outrun, keys, probed, forms, saved>>

MoveFocus ==
    /\ Filling
    /\ focus' \in {(focus % 5) + 1, ((focus + 3) % 5) + 1}
    /\ UNCHANGED <<opened, sheet, filled, idEdited, presetAt, fault, probe, flying, outrun, keys, probed, forms, saved>>

\* Fault: the error outlives the edit.
DirtyKeepingError == fault' = fault /\ probe' = Nothing

\* dirty
Dirty == fault' = Nothing /\ probe' = Nothing

\* push_char and backspace; a key that changes nothing is dirty too.
EditField ==
    /\ Filling /\ keys < MaxKeys /\ keys' = keys + 1
    /\ LET field == Fields[focus]
           typed(text) == {Append(text, c) : c \in Chars} \union {IF text = <<>> THEN text ELSE Front(text)}
       IN  IF field \notin TextFields THEN UNCHANGED <<filled, idEdited>>
           ELSE \E text \in typed(filled[field]) :
                /\ idEdited' = (idEdited \/ field = "id")
                /\ filled' = IF field = "name" /\ ~idEdited
                            THEN [filled EXCEPT !.name = text, !.id = Slug(text)]
                            ELSE [filled EXCEPT ![field] = text]
    /\ Dirty
    /\ outrun' = (outrun \/ Own # {})
    /\ UNCHANGED <<opened, sheet, focus, presetAt, flying, probed, forms, saved>>

ToggleTransport ==
    /\ Filling /\ Fields[focus] = "transport"
    /\ LET at == CHOOSE i \in DOMAIN Transports : Transports[i] = filled.transport
       IN  filled' = [filled EXCEPT !.transport = Transports[(at % Len(Transports)) + 1]]
    /\ Dirty
    /\ outrun' = (outrun \/ Own # {})
    /\ UNCHANGED <<opened, sheet, idEdited, focus, presetAt, flying, keys, probed, forms, saved>>

\* draft_entry, probed as it stands and whether or not it is valid.
TestDraft ==
    /\ Filling /\ probed < MaxTests /\ probed' = probed + 1
    /\ probe' = Testing
    /\ flying' = Append(flying, [endpoint |-> filled.endpoint, transport |-> filled.transport,
                                key |-> Trimmed(filled.key), form |-> forms])
    /\ UNCHANGED <<opened, sheet, filled, idEdited, focus, presetAt, fault, outrun, keys, forms, saved>>

\* apply_test_result: whichever form is open takes whatever result arrives, in any
\* order; with none open the result is dropped.
ResultLands ==
    /\ \E i \in DOMAIN flying :
          /\ flying' = RemoveAt(flying, i)
          /\ probe' = IF opened THEN flying[i] ELSE probe
    /\ UNCHANGED <<opened, sheet, filled, idEdited, focus, presetAt, fault, outrun, keys, probed, forms, saved>>

\* Enter: validate, save and close, or show why not and go to that field.
SaveForm ==
    /\ Filling
    /\ LET problem == Problem(filled, sheet.taken)
       IN  IF problem # Nothing
           THEN /\ fault' = problem
                /\ focus' = IF problem = "endpoint" THEN 3 ELSE 2
                /\ UNCHANGED <<opened, saved>>
           ELSE /\ saved' = [id |-> Trimmed(filled.id), endpoint |-> Trimmed(filled.endpoint),
                             transport |-> filled.transport, key |-> Trimmed(filled.key),
                             enabled |-> IF sheet.edits THEN sheet.enabled ELSE TRUE]
                /\ opened' = FALSE /\ fault' = Nothing /\ UNCHANGED focus
    /\ UNCHANGED <<sheet, filled, idEdited, presetAt, probe, flying, outrun, keys, probed, forms>>

FormNext ==
    \/ PresetMove \/ ChoosePreset \/ MoveFocus \/ EditField \/ ToggleTransport
    \/ TestDraft \/ ResultLands \/ SaveForm \/ CloseForm \/ OpenForm

IsSlug(text) ==
    \A i \in DOMAIN text : text[i] = "-" => /\ i # 1 /\ i # Len(text) /\ text[i + 1] # "-"

\* The form shows the result of a test that it started itself.
OwnResult == probe \notin {Nothing, Testing} /\ probe.form = forms

\* What is on the form is of this draft: an id nobody typed follows the name,
\* an error is still one, and the result of a test the form started is of the
\* draft it tested: an edit takes it away - unless it arrives after the edit.
\* The result of a form closed before may stand there too, as its own, although
\* apply_test_result is to serve "whichever surface started it". A saved provider is
\* one that would pass again, in the state it was tested in.
FormTrue ==
    /\ ~idEdited => filled.id = Slug(filled.name) /\ IsSlug(filled.id)
    /\ Slug(Slug(filled.name)) = Slug(filled.name)
    /\ fault # Nothing => Problem(filled, sheet.taken) = fault
    /\ OwnResult /\ ~outrun =>
          /\ probe.endpoint = filled.endpoint /\ probe.transport = filled.transport
          /\ probe.key = Trimmed(filled.key)
    /\ saved # Nothing =>
          /\ saved.id \notin sheet.taken /\ Problem(saved, sheet.taken) = Nothing
          /\ sheet.edits => saved.enabled = sheet.enabled
          /\ OwnResult /\ ~outrun => saved.endpoint = Trimmed(probe.endpoint) /\ saved.key = probe.key

-----------------------------------------------------------------------------
(* The permission prompt.                                                  *)

Once == [kind |-> "once", wide |-> FALSE]
Grant(scope, wide) == [kind |-> scope, wide |-> wide]
Denial(kind) == [kind |-> kind, wide |-> FALSE]

\* options: a dangerous command is not offered what would be stored.
Options(dangerous) ==
    LET scopes == <<"session", "project", "always">>
        grants == IF dangerous THEN <<>>
                  ELSE [i \in DOMAIN scopes |-> [plain |-> Grant(scopes[i], FALSE), shift |-> Grant(scopes[i], TRUE)]]
    IN  <<[plain |-> Once, shift |-> Once]>> \o grants
        \o <<[plain |-> Denial("deny"), shift |-> Denial("deny project")]>>

MenuInit == menu \in [dangerous : BOOLEAN, selected : {0}] /\ answer = Nothing

MenuMove ==
    /\ answer = Nothing
    /\ LET count == Len(Options(menu.dangerous))
       IN  \E step \in {1, count - 1} : menu' = [menu EXCEPT !.selected = (@ + step) % count]
    /\ UNCHANGED answer

\* Enter with or without Shift, a digit, and Esc.
MenuAnswer ==
    /\ answer = Nothing
    /\ LET rows == Options(menu.dangerous)
       IN  \/ answer' = rows[menu.selected + 1].plain
           \/ answer' = rows[menu.selected + 1].shift
           \/ \E digit \in 0 .. 9 : digit \in DOMAIN rows /\ answer' = rows[digit].plain
           \/ answer' = Denial("deny")
    /\ UNCHANGED menu

MenuNext == MenuMove \/ MenuAnswer

\* "A dangerous command offers only a one-shot grant (and Deny)": no key of its
\* prompt stores a grant.
MenuHolds ==
    /\ menu.selected < Len(Options(menu.dangerous))
    /\ answer # Nothing /\ menu.dangerous => answer.kind \in {"once", "deny", "deny project"}

-----------------------------------------------------------------------------
(* The plan review.                                                        *)

ReviewInit == review \in [length : PlanLengths, height : PopupHeights, scroll : {0}, drawn : {TRUE}]

\* scroll_plan_v, and plan_review::render, which stores what it clamped.
ScrollPlan ==
    /\ review.drawn
    /\ \E page \in Pages, up \in BOOLEAN :
          review' = [review EXCEPT !.drawn = FALSE,
              !.scroll = IF ~up THEN @ + page ELSE IF @ < page THEN 0 ELSE @ - page]

Clamp(scroll, length, height) ==
    LET last == IF length < height THEN 0 ELSE length - height
    IN  IF scroll < last THEN scroll ELSE last

DrawPlan ==
    /\ \E height \in PopupHeights :
          review' = [review EXCEPT !.height = height, !.drawn = TRUE, !.scroll = Clamp(@, review.length, height)]

ReviewNext == ScrollPlan \/ DrawPlan

\* "so input never advances past the end".
ReviewHolds ==
    review.drawn => review.scroll = 0 \/ review.scroll + review.height <= review.length

-----------------------------------------------------------------------------
FormStep == FormNext /\ UNCHANGED <<menuVars, review>>
MenuStep == MenuNext /\ UNCHANGED <<formVars, review>>
ReviewStep == ReviewNext /\ UNCHANGED <<formVars, menuVars>>

DialogsInit == FormInit /\ MenuInit /\ ReviewInit
DialogsSpec == DialogsInit /\ [][FormStep \/ MenuStep \/ ReviewStep]_dialogVars

\* A dialog returns what is in it and shows what it would return: see FormTrue,
\* MenuHolds and ReviewHolds.
DialogsTrue == FormTrue /\ MenuHolds /\ ReviewHolds
=============================================================================
