------------------------------ MODULE MCTools ------------------------------
(* Values for the model-checking run of the agent's tools and wire. Either *)
(* the sessions of FileAccess run, or the conversation of Requests grows,  *)
(* or two processes look at a provider's models (Capabilities), or the     *)
(* task tool or the file operations are called, or one input of an         *)
(* algorithm of the other modules is looked at in an initial state without *)
(* successors.  Each property is asked of the part it is about.            *)
EXTENDS FileAccess, TextTools, Requests, Streams, ToolCalls, Capabilities, Discovery,
        Diffs, Excerpts, TaskTool, FileOps

CONSTANTS
    plain, alias, secret, lock, fresh, out,             \* names of files
    m1, m2, m3,                                         \* models
    ollama, lan, here, there, var, key1, key2, given    \* of providers

MCFiles == {plain, secret, lock, fresh}
MCNames == MCFiles \union {alias, out}
MCResolve == [n \in MCNames |-> CASE n = alias -> plain [] n = out -> Elsewhere [] OTHER -> n]
MCProjects == {[hidden |-> {secret}, hardened |-> {lock}],
               [hidden |-> {secret, lock}, hardened |-> {plain}]}
MCDisk == [f \in MCFiles |-> IF f = fresh THEN "missing" ELSE "t1"]
MCSlug == [d \in Drafts |-> "slug"]

MCCost == [k \in Kinds |-> IF k = "result" THEN 3 ELSE 1]

MCAble == [m \in Models |-> IF m = m1 THEN "tools" ELSE "chat"]
MCTold == [m \in Models |-> "told"]
Offer(models, advertised, keyed) == [models |-> models, advertised |-> advertised, keyed |-> keyed]
MCOffers == {Offer(<<m1, m2, m3>>, {}, FALSE), Offer(<<m2, m1>>, {m1}, FALSE), Offer(<<m1, m2>>, {m2}, TRUE)}

MCSmallForm == [c \in {"A"} |-> <<"a">>]

MCBuiltIn == [id \in {ollama} |-> [place |-> here, wire |-> "ollama"]]

MCRevisions ==
    {<<[work |-> <<"todo", "todo">>, verify |-> <<"todo">>]>>,
     <<[work |-> <<"todo">>, verify |-> <<>>], [work |-> <<"todo">>, verify |-> <<>>]>>}

MCContents == [p \in FilePaths |-> IF p \in HiddenPaths THEN 1 ELSE NoFile]

VARIABLE sample

UpTo(S, n) == UNION {[1 .. k -> S] : k \in 0 .. n}

EditSamples ==
    [kind : {"edit"}, text : UpTo({"a", "sp", "nl"}, 4), old : UpTo({"a", "sp", "nl"}, 3),
     new : {<<>>, <<"b">>, <<"sp", "b", "nl">>, <<"b", "nl", "sp", "sp", "b">>}]

WindowSamples == [kind : {"window"}, total : 0 .. 6, first : -1 .. 15, last : -1 .. 15]

Leaf(k) == [kind |-> k, kids |-> <<>>]
Dir(kids) == [kind |-> "dir", kids |-> kids]
Entries == {Leaf("file"), Leaf("hidden"), Leaf("skip"), Dir(<<>>), Dir(<<Leaf("file")>>),
            Dir(<<Leaf("hidden")>>), Dir(<<Leaf("file"), Dir(<<Leaf("file")>>)>>),
            Dir(<<Leaf("file"), Leaf("file"), Leaf("file")>>)}
TreeSamples == [kind : {"tree"}, entries : UpTo(Entries, 3), depth : 1 .. 3]

Found(kind, hits, kids) == [kind |-> kind, hits |-> hits, kids |-> kids]
FoundFiles == {Found("file", hits, <<>>) : hits \in 0 .. 2}
FoundEntries ==
    FoundFiles \union {Found("binary", 1, <<>>), Found("hidden", 1, <<>>)}
        \union {Found(kind, 0, <<Found("file", 1, <<>>)>>) : kind \in {"own", "built", "linked", "hidden"}}
        \union {Found("dir", 0, kids) : kids \in {<<>>} \union (FoundFiles \X FoundFiles \X {Found("hidden", 1, <<>>), Found("file", 1, <<>>)})}
ExcerptSamples ==
    [kind : {"search"}, entries : UpTo(FoundEntries, 2) \union [1 .. 3 -> FoundFiles]]
        \union [kind : {"snippet"}, line : UpTo({"a", "b", "sp"}, 6),
                pattern : {<<"a">>, <<"a", "b">>, <<"b", "sp">>, <<"sp">>}]
        \union [kind : {"truncation"}, max : 1 .. 6,
                text : {FlattenSeq(cs) : cs \in UpTo({<<"a">>, <<"nl">>, <<"lead", "tail">>}, 5)}]

PatternSamples ==
    [kind : {"pattern"}, pattern : UpTo({"*", "x", "/"}, 4), path : UpTo({"x", "/"}, 4)]

LineSamples ==
    UNION {[kind : {"lines"}, bytes : {b}, cut1 : 0 .. Len(b), cut2 : 0 .. Len(b)] :
              b \in UpTo({"a", "nl", "cr", "lead", "tail"}, 4)}

DiffLines == {<<{"a", "b"}, 4, 3>>, <<{"a", "++", "--"}, 2, 2>>}
DiffSamples ==
    UNION {[kind : {"diff"}, old : {Text(ls, ended) : ls \in UpTo(l[1], l[2]), ended \in BOOLEAN},
            new : {Text(ls, ended) : ls \in UpTo(l[1], l[3]), ended \in BOOLEAN}] : l \in DiffLines}
FileNames == {<<Row("word", "w")>>, <<Row("word", "w"), Headers[1]>>}

\* Events of a reply; each carries its place as its text and as its id.
ReplyEvents ==
    [kind : {"text", "thinking", "usage", "finish", "stop", "other", "bad"}, index : {0}]
        \union [kind : {"open", "args"}, index : {0, 1}]
Placed(es) ==
    [i \in DOMAIN es |-> [kind |-> es[i].kind, index |-> es[i].index, piece |-> i, id |-> i, args |-> <<>>]]
ReplySamples ==
    {[kind |-> "reply", wire |-> r[1], events |-> Placed(r[2])] :
        r \in {"openai", "anthropic", "ollama"} \X UpTo(ReplyEvents, 4)}

\* Parts of a reply: calls with and without ids and arguments.
Parts == [kind : {"text", "thinking", "other"}, named : {FALSE}, pieces : {0}]
             \union [kind : {"call"}, named : BOOLEAN, pieces : {0, 2}]
WholeSamples ==
    {[kind |-> "whole", wire |-> r[1], usage |-> r[2],
      parts |-> [i \in DOMAIN r[3] |-> [kind |-> r[3][i].kind, pieces |-> r[3][i].pieces,
                                       id |-> IF r[3][i].named THEN <<"given", i>> ELSE Absent]]] :
        r \in {"openai", "anthropic", "ollama"} \X {Absent, 1} \X UpTo(Parts, 3)}

\* Up to four tokens of tags, or two between whole tags.
Tags == {<<"<", "o", ">">>, <<"<", "c", ">">>}
ThinkTexts ==
    LET tokens == {"<", "o", "c", ">"}
    IN  UpTo(tokens, 4) \union {a \o t \o b : a, b \in Tags, t \in UpTo(tokens, 2)}
ThinkSamples == UNION {[kind : {"think"}, text : {t}, cut : 0 .. Len(t)] : t \in ThinkTexts}
TextCallSamples ==
    [kind : {"text calls"}, content : UpTo({"open", "close", "fence", "call", "bare", "prose"}, 5)]

\* What a member of a call's arguments may hold: the tokens the repairs look for.
Strings ==
    {Quoted(t) : t \in {<<>>, <<"w">>, <<"}">>, <<"{">>, <<",", "}">>, <<"q">>, <<"b">>,
                        <<"s", "w">>, <<"nl", "f">>}}
Objects == {Object(ms) : ms \in UpTo(Strings \union {Object(m) : m \in UpTo(Strings, 1)}, 2)}
Fields == [type : {"string", "integer", "number"}, required : BOOLEAN]
ArgKinds == {"absent", "null", "string", "integer", "number", "array"}
ToolNames == UpTo({"x", "y"}, 3) \ {<<>>}
CallSamples ==
    [kind : {"arguments"}, value : Objects]
        \union [kind : {"single quotes"}, count : 1 .. 3]
        \union [kind : {"schema"}, schema : [1 .. 2 -> Fields], args : [1 .. 2 -> ArgKinds]]
        \union [kind : {"name"}, name : UpTo({"x", "y"}, 3), available : [1 .. 2 -> ToolNames],
                synonym : {<<>>, <<"x">>}]

\* Arguments of the plan tool, and the titles of plans that are stored in turn.
TitleLists == {Titles("absent", <<>>), Titles("other", <<>>)}
                  \union {Titles("given", items) : items \in UpTo({"given", "blank"}, 2)}
ShortLists == {titles \in TitleLists : Len(titles.items) <= 1}
PlanSteps == [title : {"given", "blank"}, work : TitleLists, verify : ShortLists]
SoundStep == CHOOSE step \in PlanSteps : StepFault(step) = "none" /\ Len(step.verify.items) = 1
DraftSteps == {<<>>} \union {<<step>> : step \in PlanSteps} \union {<<SoundStep, step>> : step \in PlanSteps}
DraftSamples ==
    [kind : {"draft"}, action : {"propose", "revise", "other"}, id : {"absent", "blank", "given"},
     title : {"absent", "blank", "given"}, list : {"given", "other"}, steps : DraftSteps]
TitleMarks == {"a", "A", "2", "!"}
IdSamples ==
    [kind : {"ids"}, titles : UNION {{<<a, a, b>>, <<b, a, a>>, <<a, b, a>>} : a \in UpTo(TitleMarks, 1), b \in UpTo(TitleMarks, 3)}]

\* Stored entries; those of the longer lists have no names and keys of their own.
StoredEntries ==
    [id : {ollama, lan}, place : {there, Nowhere}, wire : {"openai", "ollama", Strange}, name : {NotSet, given},
     env : {NotSet, var}, key : {NotSet, key2}, enabled : BOOLEAN]
PlainEntries ==
    {e \in StoredEntries : /\ e.name = NotSet /\ e.key = NotSet /\ e.wire # "ollama"
                           /\ e.wire = Strange => e.place # Nowhere /\ e.env = NotSet}
OllamaEntries == {e \in StoredEntries : e.name = NotSet /\ e.wire = "ollama" /\ e.place # Nowhere}
Environments == {[v \in {var} |-> key] : key \in {NotSet, key1}}
Environment == [v \in {var} |-> key1]
DiscoverySamples ==
    [kind : {"entry"}, env : Environments, entry : StoredEntries]
        \union [kind : {"entries"}, entries : UpTo(PlainEntries, 3)]
        \union [kind : {"found"}, entries : UpTo(PlainEntries \union OllamaEntries, 2),
                errors : [{ollama, lan} -> {"none", "AuthFailed", "Timeout"}]]
        \union [kind : {"answer"}, wire : {"ollama", "openai", "anthropic"}, answer : Answers]

Detecting == [kind |-> "detecting"]
Sessioned == [kind |-> "sessions"]
Conversation == [kind |-> "conversation"]
Tasked == [kind |-> "tasks"]
Filed == [kind |-> "files"]

\* Of the samples: what an edit changes and a listing shows, what becomes of a
\* call, what is read from a stream, and which providers are probed and found; of
\* the file operations, that nothing is lost, and of the task tool, what is listed.
TextsSound ==
    /\ sample = Filed => NothingLost
    /\ sample.kind = "edit" => ReplacesOnePlace(sample.text, sample.old, sample.new)
    /\ sample.kind = "window" => WindowSound(sample.total, sample.first, sample.last)
    /\ sample.kind = "tree" => TreeWhole(sample.entries, sample.depth)
    /\ sample.kind = "pattern" => PatternSound(sample.pattern, sample.path)
    /\ sample.kind = "search" => SearchSound(sample.entries) /\ SnapshotSound(sample.entries)
    /\ sample.kind = "snippet" => SnippetSound(sample.line, sample.pattern)
    /\ sample.kind = "truncation" => TruncationSound(sample.text, sample.max)
    /\ sample.kind = "diff" =>
          /\ DiffSound(sample.old, sample.new)
          /\ \A name \in FileNames : ResultSound(name, sample.old, sample.new)

CallsSound ==
    /\ CallsSettleOne
    /\ [](/\ sample = Tasked => TaskListTrue
          /\ sample.kind = "arguments" => ArgumentsSound(sample.value)
          /\ sample.kind = "single quotes" => RequotedSound(sample.count)
          /\ sample.kind = "schema" => ValidationSound(sample.schema, sample.args)
          /\ sample.kind = "name" => SuggestionSound(sample.name, sample.available, sample.synonym)
          /\ sample.kind = "draft" => DraftSound(sample)
          /\ sample.kind = "ids" => IdsSound(sample.titles))

StreamsWhole ==
    /\ sample.kind = "lines" => LinesSound(sample.bytes, sample.cut1, sample.cut2)
    /\ sample.kind = "reply" => StreamSound(sample.wire, sample.events)
    /\ sample.kind = "whole" => WholeSound(sample.wire, sample)
    /\ sample.kind = "think" => ThinkingSound(sample.text, sample.cut)
    /\ sample.kind = "text calls" => TextCallsSound(sample.content)

DiscoveredSound ==
    /\ sample.kind = "entry" => RoundTrip(sample.env, sample.entry)
    /\ sample.kind = "entries" => PlanSound(Environment, sample.entries)
    /\ sample.kind = "found" => MergeSound(Environment, sample.entries, sample.errors)
    /\ sample.kind = "answer" => VerdictSound(sample.wire, sample.answer)

Samples == {"edit", "window", "tree", "pattern", "search", "diff", "draft", "ids", "call",
            "discovery", "lines", "reply", "whole", "think", "text calls"}

\* The sessions are alike, so one of them may be the one that is attached first,
\* and the detectors, so one of them may be the first to run.
First(S) == CHOOSE x \in S : TRUE
DetectionBegins == runs = 0 => \A d \in Detectors \ {First(Detectors)} : run'[d].at = "idle"

MCInit == \E part \in Samples \union {Sessioned.kind, Conversation.kind, Detecting.kind, Tasked.kind, Filed.kind} :
    /\ Init /\ attached = First(Sessions)
    /\ \A s \in Sessions : part # Sessioned.kind \/ s # attached => project[s] = First(Projects)
    /\ RequestsInit /\ (part # Conversation.kind => ~active)
    /\ DetectionInit /\ FilesInit
    /\ TaskInit /\ (part # Tasked.kind => ~backed /\ plan = First(RevisedPlans))
    /\ sample \in
          CASE part = "edit" -> EditSamples
            [] part = "window" -> WindowSamples
            [] part = "tree" -> TreeSamples
            [] part = "pattern" -> PatternSamples
            [] part = "search" -> ExcerptSamples
            [] part = "diff" -> DiffSamples
            [] part = "draft" -> DraftSamples
            [] part = "ids" -> IdSamples
            [] part = "call" -> CallSamples
            [] part = "discovery" -> DiscoverySamples
            [] part = "lines" -> {s \in LineSamples : s.cut1 <= s.cut2}
            [] part = "reply" -> {s \in ReplySamples : WellFormed(s.wire, s.events)}
            [] part = "whole" -> WholeSamples
            [] part = "think" -> ThinkSamples
            [] part = "text calls" -> TextCallSamples
            [] OTHER -> {[kind |-> part]}

MCNext ==
    /\ \/ sample = Sessioned /\ Next /\ UNCHANGED <<requestVars, detectionVars, taskVars, fileVars>>
       \/ sample = Conversation /\ RequestsNext /\ UNCHANGED <<vars, detectionVars, taskVars, fileVars>>
       \/ sample = Detecting /\ DetectionNext /\ DetectionBegins /\ UNCHANGED <<vars, requestVars, taskVars, fileVars>>
       \/ sample = Tasked /\ TaskNext /\ UNCHANGED <<vars, requestVars, detectionVars, fileVars>>
       \/ sample = Filed /\ FilesNext /\ UNCHANGED <<vars, requestVars, detectionVars, taskVars>>
    /\ UNCHANGED sample

MCSpec ==
    /\ MCInit /\ SessionFairness
    /\ [][MCNext]_<<vars, requestVars, detectionVars, taskVars, fileVars, sample>>
=============================================================================
