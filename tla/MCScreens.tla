----------------------------- MODULE MCScreens ------------------------------
(* Values for the model-checking run of the screens. Its parts share no    *)
(* state that matters to their properties, so one of them runs while the   *)
(* others rest in an initial state; a text to be wrapped has no successor. *)
EXTENDS Providers, Console, ChatInput, ChatView, Choosers, MCSetup, Dialogs, Usage, EventLoop

CONSTANTS ollama, lan, e1, e2, e2key, m1, m2

MCHome == [id \in {ollama} |-> e1]
MCFormed == [c \in {e1, e2, e2key} |-> IF c = e2key THEN e2 ELSE c]
MCOffers == [c \in {e1, e2, e2key} |-> IF c = e1 THEN {m1, m2} ELSE {m2}]
MCAble == [m \in {m1, m2} |-> IF m = m1 THEN "tools" ELSE "chat"]
MCFiles == {Missing, Corrupt, <<Entry(lan, e2key, TRUE), Entry(ollama, e1, FALSE)>>}
MCCommands == << <<"a">>, <<"a", "a">> >>

MCListed == <<ollama, lan>>
MCServes == [id \in {ollama, lan} |-> IF id = ollama THEN << <<"x">>, <<"y", "x">> >> ELSE << <<"y">> >>]
Tasks(done, total) == [done |-> done, total |-> total]
MCPlans == {<< <<Tasks(1, 1), Tasks(0, 2), Tasks(1, 1)>>, <<Tasks(2, 2)>> >>, << <<Tasks(0, 1)>> >>}
Right(name, scope) == [name |-> name, scope |-> scope]
Stored(commands, tools) == [commands |-> commands, tools |-> tools]
MCRights ==
    [global : {Stored(<<>>, <<>>), Stored(<<Right("a", "allow")>>, <<Right("t", "deny")>>)},
     project : {Stored(<<>>, <<>>),
                Stored(<<Right("a", "allow"), Right("b", "deny"), Right("a", "allow")>>, <<Right("t", "allow")>>)}]

Draft(name, id) == [name |-> name, id |-> id, endpoint |-> <<"a">>, transport |-> "o", key |-> <<>>]
MCPresets == <<Draft(<<"A", "sp", "a">>, <<"A">>)>>
MCTaken == {{<<"a">>}}
MCTransports == <<"o", "l">>

Part(name) == [name |-> name]
Parts == {"providers", "console", "line", "transcript", "panel", "picker", "plans", "rights",
          "setup", "form", "menu", "review", "usage", "loop"}
Texts == [name : {"text"}, text : UpTo({"a", "sp", "nl"}, 6), width : 1 .. 4]
Footers == [name : {"footer"}, hints : UpTo({<<1, 2>>, <<0, 2>>, <<1, 0>>}, 3),
            width : {0, 1, 8, 12, 16}, column : {0, 8, 12, 16}, label : {0, 3}, least : {0, 6}]

VARIABLE part

vars == <<providerVars, consoleVars, inputVars, viewVars, chooserVars, setupVars, dialogVars, usageVars, loopVars, part>>

MCInit == \E name \in Parts \union {"text", "footer"} :
    /\ ProvidersInit /\ (name # "providers" => file = Corrupt)
    /\ ConsoleInit /\ InputInit
    /\ ViewInit
    /\ name \notin {"transcript", "panel"} =>
          window = CHOOSE w \in [width : WindowWidths, height : WindowHeights] : TRUE
    /\ ChoosersInit /\ (name # "picker" => preferred = Nobody)
    /\ name # "plans" => plans = CHOOSE p \in PlanStores : TRUE
    /\ name # "rights" => rights = CHOOSE r \in RightStores : TRUE
    /\ SetupInit
    /\ name # "setup" => ignore = <<>> /\ "Makefile" \in manifests /\ ~always
    /\ DialogsInit
    /\ name # "form" => ~sheet.edits
    /\ name # "menu" => ~menu.dangerous
    /\ name # "review" => review.length = Min(PlanLengths) /\ review.height = Min(PopupHeights)
    /\ LoopInit /\ UsageInit /\ server = CHOOSE s \in Servers : TRUE
    /\ part \in CASE name = "text" -> Texts
                 [] name = "footer" -> Footers
                 [] OTHER -> {Part(name)}

MCNext ==
    /\ \/ /\ part = Part("providers") /\ ProvidersNext
          /\ UNCHANGED <<consoleVars, inputVars, viewVars, chooserVars, setupVars, dialogVars, usageVars, loopVars>>
       \/ /\ part = Part("console") /\ ConsoleNext
          /\ UNCHANGED <<providerVars, inputVars, viewVars, chooserVars, setupVars, dialogVars, usageVars, loopVars>>
       \/ /\ part = Part("line") /\ InputNext
          /\ UNCHANGED <<providerVars, consoleVars, viewVars, chooserVars, setupVars, dialogVars, usageVars, loopVars>>
       \/ /\ \/ part = Part("transcript") /\ ViewNext
             \/ part = Part("panel") /\ PanelNext
          /\ UNCHANGED <<providerVars, consoleVars, inputVars, chooserVars, setupVars, dialogVars, usageVars, loopVars>>
       \/ /\ \/ part = Part("picker") /\ InPicker
             \/ part = Part("plans") /\ InPlans
             \/ part = Part("rights") /\ InRights
          /\ UNCHANGED <<providerVars, consoleVars, inputVars, viewVars, setupVars, dialogVars, usageVars, loopVars>>
       \/ /\ part = Part("setup") /\ SetupNext
          /\ UNCHANGED <<providerVars, consoleVars, inputVars, viewVars, chooserVars, dialogVars, usageVars, loopVars>>
       \/ /\ \/ part = Part("form") /\ FormStep
             \/ part = Part("menu") /\ MenuStep
             \/ part = Part("review") /\ ReviewStep
          /\ UNCHANGED <<providerVars, consoleVars, inputVars, viewVars, chooserVars, setupVars, usageVars, loopVars>>
       \/ /\ part = Part("usage") /\ UsageNext
          /\ UNCHANGED <<providerVars, consoleVars, inputVars, viewVars, chooserVars, setupVars, dialogVars, loopVars>>
       \/ /\ part = Part("loop") /\ LoopNext
          /\ UNCHANGED <<providerVars, consoleVars, inputVars, viewVars, chooserVars, setupVars, dialogVars,
                         usageVars>>
    /\ UNCHANGED part

MCSpec == MCInit /\ [][MCNext]_vars

-----------------------------------------------------------------------------
(* The properties, each in the part it is about.                           *)

InPart(names) == part.name \in names

\* What is drawn is what is clicked, what is read does not move and the tasks
\* key flips what is seen: see ViewShown, Unmoved and PressFlips. And however
\* a text is wrapped, no word is lost and no row is too wide: see WrapSound. The
\* line keeps caret, draft, history and completion together: see InputKept. What
\* is counted is what servers said, and the footer it is drawn in is never too
\* wide: see UsageTrue and FooterSound. (The properties of the transcript, the
\* popups, the tasks, the providers, the lists, the setup and the dialogs are those
\* of their modules, which hold in the initial states the idle parts rest in.)
ViewTrue ==
    /\ [](InPart({"transcript", "panel"}) => ViewShown)
    /\ [][InPart({"transcript", "panel"}) => Unmoved /\ PressFlips]_viewVars
    /\ [](InPart({"text"}) => WrapSound(part.text, part.width))
    /\ [](InPart({"line"}) => InputKept)
    /\ [](InPart({"usage"}) => UsageTrue)
    /\ [](InPart({"footer"}) =>
             FooterSound(part.hints, part.width, part.column, part.label, part.least))
=============================================================================
