------------------------------- MODULE Setup --------------------------------
(* A project from its first start on: the questions of a workspace without  *)
(* .suis/, the files the answers are written to, the profile read from the  *)
(* manifests, and every later start. A crash may come between two writes,   *)
(* and a write may fail; one program runs at a time.                        *)
EXTENDS Integers, Sequences, SequencesExt, FiniteSets

CONSTANTS
    IgnoreFiles,    \* what .gitignore may hold, as sequences of lines
    Comments,       \* lines that are blank, comments or negations
    Locks,          \* lines that name a lock file
    SuisLine,       \* the line ".suis"
    ManifestSets,   \* what the workspace may hold, see Chains and NodeOf
    IMPORT_WINDOW,
    MaxStarts, MaxFaults,   \* bounds: starts; failed writes, crashes and deletions
    NoValue             \* no config, command or profile

GitLines == {SuisLine} \union UNION {ToSet(lines) : lines \in IgnoreFiles}

\* What project.json may hold. A command is named by its toolchain or by the
\* package manager of node.
TestCommands ==
    {NoValue, "Cargo.toml", "package.json", "pyproject.toml", "go.mod", "Makefile", "pnpm", "yarn", "npm"}
Configs ==
    [tools : BOOLEAN, git : BOOLEAN, hidden : Seq(GitLines), hardened : Seq(GitLines),
     verify : TestCommands, profile : {NoValue} \union [chain : TestCommands, test : TestCommands]]

\* The lists are sequences of lines, a window has a row, and "none" is no config.
ASSUME SetupConstants ==
    /\ IMPORT_WINDOW \in Nat \ {0}
    /\ \A lines \in IgnoreFiles : lines \in Seq(GitLines)
    /\ NoValue \notin Configs

VARIABLES
    phase,          \* "off", "init", "writing", "session"
    init,           \* ProjectInit: its step, classified entries and cursor
    project,        \* the config in use
    writing,        \* the writes persist_init or a refresh has left
    rewritten,      \* what append_gitignore_suis will write
    suis, onDisk, ignore, manifests,    \* on disk: .suis/, project.json,
                                        \* .gitignore, the manifests
    always,         \* and whether the global permissions hold an Always grant
    held,           \* ghost: what .gitignore held before the first start
    agreed,         \* ghost: the configs a next start may find, the user's last first
    orphaned,       \* ghost: .suis/ was made without a config, or
                    \* with the one such a start falls back to
    torn,           \* ghost: a crash came while .gitignore was being written
    starts, faults

setupVars == <<phase, init, project, writing, rewritten, suis, onDisk, ignore, manifests,
               always, held, agreed, orphaned, torn, starts, faults>>

-----------------------------------------------------------------------------
(* profile::detect.                                                        *)

Chains == <<"Cargo.toml", "package.json", "pyproject.toml", "go.mod", "Makefile">>

NodeOf(files) ==
    IF "pnpm-lock.yaml" \in files THEN "pnpm" ELSE IF "yarn.lock" \in files THEN "yarn" ELSE "npm"

\* A toolchain's test command; only a script that is there is claimed.
TestOf(chain, files) ==
    IF chain # "package.json" THEN chain
    ELSE IF "test script" \in files THEN NodeOf(files) ELSE NoValue

\* build_profile: the first toolchain that is there leads.
Profile(files) ==
    LET found == {i \in DOMAIN Chains : Chains[i] \in files}
        lead == Chains[Min(found)]
    IN  IF found = {} THEN [chain |-> NoValue, test |-> NoValue]
        ELSE [chain |-> lead, test |-> TestOf(lead, files)]

-----------------------------------------------------------------------------
(* The files.                                                              *)

\* ProjectConfig::default: no tool is offered.
Empty == [tools |-> FALSE, git |-> FALSE, hidden |-> <<>>, hardened |-> <<>>, verify |-> NoValue, profile |-> NoValue]
\* default_project
Unwritten == [Empty EXCEPT !.tools = TRUE]

\* read_gitignore
Imported(lines) ==
    FlattenSeq([i \in DOMAIN lines |-> IF lines[i] \in Comments THEN <<>> ELSE <<lines[i]>>])

\* A fault of the machine, within the bound.
Fault == faults < MaxFaults /\ faults' = faults + 1

\* Startup::run and build_initial_state: .suis/ decides whether the project is
\* set up, and a config that is not there is the default one.
Start ==
    /\ phase = "off" /\ starts < MaxStarts /\ starts' = starts + 1
    /\ IF suis
       THEN /\ phase' = "session"
            /\ project' = IF onDisk = NoValue THEN Empty ELSE onDisk
            /\ init' = NoValue
       ELSE /\ phase' = "init"
            /\ project' = NoValue
            /\ init' = [step |-> "confirm", at |-> 0,
                        entries |-> [i \in DOMAIN Imported(ignore) |->
                            [line |-> Imported(ignore)[i],
                             class |-> IF Imported(ignore)[i] \in Locks THEN "hardened" ELSE "hidden"]]]
    /\ UNCHANGED <<writing, rewritten, suis, onDisk, ignore, manifests, always, held, agreed, orphaned, torn, faults>>

-----------------------------------------------------------------------------
(* The questions.                                                          *)

Kept == UNCHANGED <<suis, onDisk, ignore, manifests, always, held, orphaned, torn, starts, faults>>
Asking(step) == phase = "init" /\ init.step = step

Confirm ==
    /\ Asking("confirm")
    /\ init' = [init EXCEPT !.step = IF init.entries = <<>> THEN "git" ELSE "import"]
    /\ UNCHANGED <<phase, project, writing, rewritten, agreed>> /\ Kept

\* Without .suis/, and so without a trace of the answer.
DeclineSetup ==
    /\ Asking("confirm")
    /\ phase' = "session" /\ project' = Unwritten /\ agreed' = <<Unwritten>> /\ init' = NoValue
    /\ UNCHANGED <<writing, rewritten>> /\ Kept

MoveEntry ==
    /\ Asking("import")
    /\ \E step \in {-1, 1} :
          init' = [init EXCEPT !.at = IF @ + step < 0 THEN 0
                                      ELSE IF @ + step >= Len(init.entries) THEN Len(init.entries) - 1
                                      ELSE @ + step]
    /\ UNCHANGED <<phase, project, writing, rewritten, agreed>> /\ Kept

NextClass(class) == CASE class = "hidden" -> "hardened" [] class = "hardened" -> "skip" [] OTHER -> "hidden"

CycleEntry ==
    /\ Asking("import")
    /\ init' = [init EXCEPT !.entries[init.at + 1].class = NextClass(@)]
    /\ UNCHANGED <<phase, project, writing, rewritten, agreed>> /\ Kept

\* confirm_import and skip_all.
ImportDone ==
    /\ Asking("import")
    /\ \/ init' = [init EXCEPT !.step = "git"]
       \/ init' = [init EXCEPT !.step = "git",
                               !.entries = [i \in DOMAIN @ |-> [@[i] EXCEPT !.class = "skip"]]]
    /\ UNCHANGED <<phase, project, writing, rewritten, agreed>> /\ Kept

LinesOf(class) ==
    FlattenSeq([i \in DOMAIN init.entries |->
        IF init.entries[i].class = class THEN <<init.entries[i].line>> ELSE <<>>])

\* build_config, with the profile init_answer adds.
Chosen(git) ==
    [tools |-> TRUE, git |-> git, hidden |-> LinesOf("hidden"), hardened |-> LinesOf("hardened"),
     verify |-> Profile(manifests).test, profile |-> Profile(manifests)]

\* persist_init writes the config, an empty permission store and .gitignore, in
\* this order. The first write makes .suis/ before it replaces a file, the last
\* empties the file it is about to write; append_gitignore_suis leaves a file
\* alone that is ".suis" and nothing else.
AnswerGit ==
    /\ Asking("git")
    /\ \E git \in BOOLEAN : project' = Chosen(git)
    /\ writing' = IF ignore = <<SuisLine>> THEN <<"directory", "config", "permissions">>
                  ELSE <<"directory", "config", "permissions", "empty", "fill">>
    /\ rewritten' = Append(ignore, SuisLine)
    /\ agreed' = <<project'>>
    /\ phase' = "writing" /\ init' = NoValue /\ Kept

\* The body of import: the rows of the window and how many are above and below.
Window ==
    LET count == Len(init.entries)
        least(a, b) == IF a < b THEN a ELSE b
        before == init.at - least(init.at, IMPORT_WINDOW \div 2)
        start == least(before, count - least(count, IMPORT_WINDOW))
    IN  [start |-> start, end |-> least(start + IMPORT_WINDOW, count)]

-----------------------------------------------------------------------------
(* Writing.                                                                *)

\* write_atomic leaves the old file or the new one. Saving a store that knows
\* no grant replaces the global file too, all but its denies.
Written(step) ==
    CASE step = "directory"   -> suis' = TRUE /\ UNCHANGED <<onDisk, ignore, always>>
      [] step = "config"      -> onDisk' = project /\ UNCHANGED <<suis, ignore, always>>
      [] step = "permissions" -> always' = FALSE /\ UNCHANGED <<suis, onDisk, ignore>>
      [] step = "empty"       -> ignore' = <<>> /\ UNCHANGED <<suis, onDisk, always>>
      [] step = "fill"        -> ignore' = rewritten /\ UNCHANGED <<suis, onDisk, always>>

\* The screen changes when the last write is done, or one failed: the first two
\* files give up, .gitignore is best effort.
Write ==
    /\ writing # <<>>
    /\ Written(Head(writing))
    /\ writing' = Tail(writing)
    /\ phase' = IF Len(writing) = 1 THEN "session" ELSE phase
    /\ orphaned' = (orphaned /\ ~(Head(writing) = "config" /\ project.tools))
    /\ rewritten' = IF Len(writing) = 1 THEN <<>> ELSE rewritten
    /\ UNCHANGED <<init, project, manifests, held, agreed, torn, starts, faults>>

\* A write fails, or the program ends before it.
BreakOff ==
    /\ Fault
    /\ writing' = <<>> /\ rewritten' = <<>>
    /\ agreed' = <<project, onDisk>>
    /\ orphaned' = (orphaned \/ (suis /\ onDisk = NoValue))
    /\ torn' = (torn \/ Head(writing) = "fill")
    /\ UNCHANGED <<init, suis, onDisk, ignore, manifests, always, held, starts>>

WriteFails == writing # <<>> /\ BreakOff /\ phase' = "session" /\ UNCHANGED project

Crash == writing # <<>> /\ BreakOff /\ phase' = "off" /\ project' = NoValue

Exit ==
    /\ phase # "off" /\ writing = <<>>
    /\ phase' = "off" /\ project' = NoValue /\ init' = NoValue
    /\ UNCHANGED <<writing, rewritten, agreed>> /\ Kept

-----------------------------------------------------------------------------
(* The session.                                                            *)

InSession == phase = "session" /\ writing = <<>>

\* Fault: what was found replaces what the user chose.
RefreshedAnew(config) == [config EXCEPT !.verify = Profile(manifests).test, !.profile = Profile(manifests)]

\* /profile refresh adopts a test command only where there is none.
Refreshed(config) ==
    [config EXCEPT !.verify = IF @ = NoValue THEN Profile(manifests).test ELSE @, !.profile = Profile(manifests)]

RefreshProfile ==
    /\ InSession
    /\ project' = Refreshed(project)
    /\ writing' = <<"directory", "config">>
    /\ agreed' = <<project'>>
    /\ UNCHANGED <<phase, init, rewritten>> /\ Kept

\* A grant for the project, an Always grant, a plan: each makes .suis/.
StoreOther ==
    /\ InSession
    /\ ~suis \/ ~always
    /\ suis' = TRUE /\ orphaned' = (orphaned \/ onDisk = NoValue)
    /\ always' \in {always, TRUE}
    /\ UNCHANGED <<phase, init, project, writing, rewritten, onDisk, ignore, manifests, held, agreed, torn, starts, faults>>

\* Between two runs the user may change the manifests, or remove .suis/.
EditWorkspace ==
    /\ phase = "off" /\ Fault
    /\ \/ manifests' \in ManifestSets /\ UNCHANGED <<suis, onDisk, agreed, orphaned>>
       \/ /\ suis /\ suis' = FALSE /\ onDisk' = NoValue /\ agreed' = <<>> /\ orphaned' = FALSE
          /\ UNCHANGED manifests
    /\ UNCHANGED <<phase, init, project, writing, rewritten, ignore, always, held, torn, starts>>

SetupInit ==
    /\ phase = "off" /\ init = NoValue /\ project = NoValue /\ writing = <<>> /\ rewritten = <<>>
    /\ suis = FALSE /\ onDisk = NoValue /\ always \in BOOLEAN
    /\ ignore \in IgnoreFiles /\ held = ignore /\ manifests \in ManifestSets
    /\ agreed = <<>> /\ orphaned = FALSE /\ torn = FALSE /\ starts = 0 /\ faults = 0

SetupNext ==
    \/ Start \/ Confirm \/ DeclineSetup \/ MoveEntry \/ CycleEntry \/ ImportDone \/ AnswerGit
    \/ Write \/ WriteFails \/ Crash \/ Exit
    \/ RefreshProfile \/ StoreOther \/ EditWorkspace

SetupSpec == SetupInit /\ [][SetupNext]_setupVars

-----------------------------------------------------------------------------
\* The highlighted entry is in a window as long as the list allows, and every
\* entry is shown or counted.
WindowHolds ==
    phase = "init" /\ init.step = "import" =>
        /\ init.at \in Window.start .. Window.end - 1
        /\ Window.end - Window.start =
              IF Len(init.entries) < IMPORT_WINDOW THEN Len(init.entries) ELSE IMPORT_WINDOW

\* The lines an import may offer; .suis is one when a start appended it before.
Offered == (ToSet(held) \union {SuisLine}) \ Comments

\* A session uses what the user last agreed to, whatever crashed or failed, or
\* else what was stored before; it has tools but for a .suis/ that was made
\* without a config. Nothing is hidden or hardened that no line asks for, and what
\* .gitignore held is kept unless a crash came while it was written.
ConfigKept ==
    /\ phase = "session" /\ ~orphaned => project \in ToSet(agreed) /\ project.tools
    /\ onDisk # NoValue => ToSet(onDisk.hidden) \union ToSet(onDisk.hardened) \subseteq Offered
    /\ torn \/ (writing # <<>> /\ Head(writing) = "fill") \/ IsPrefix(held, ignore)

\* The command that verifies edits is never changed for the user: it stays from
\* session to session until .suis/ is removed.
VerifyKept == onDisk # NoValue /\ onDisk.verify # NoValue /\ onDisk' # NoValue => onDisk'.verify = onDisk.verify

\* What the answers of the first start and /profile leave behind is what every
\* later start finds: see WindowHolds, ConfigKept and VerifyKept.
SetupTrue == [](WindowHolds /\ ConfigKept) /\ [][VerifyKept]_setupVars

\* "All projects, persistent": an Always grant is there until it is revoked.
AlwaysPersists == [][always => always']_setupVars
=============================================================================
