----------------------------- MODULE Permissions -----------------------------
(***************************************************************************)
(* Shell-command permissions, from the prompt to the disk and back:         *)
(* crates/suis-core/src/permissions (store.rs, evaluator.rs), gate_bash and *)
(* record_command_decision of crates/suis-agent/src/tools/executor.rs, and  *)
(* the /permissions screen of crates/suis-cli.                              *)
(*                                                                          *)
(* Any number of sessions run at once.  Each keeps the rules it loaded when *)
(* it started, and its screen the two files it read when it was opened;     *)
(* both write whole files, and neither looks at them again.                 *)
(***************************************************************************)
EXTENDS ShellCommands, Integers, FiniteSets

CONSTANTS
    Sessions, Projects,
    HandDenies,     \* patterns denied by hand in the global file
    MaxEvents       \* bound: prompts, sessions begun later, edits on a screen,
                    \* files broken by hand and saves with a failed write

GlobalFile == "global"

ASSUME PermissionsConstants ==
    /\ HandDenies \subseteq Patterns
    /\ Sessions \intersect Projects = {}
    /\ {GlobalFile, "everywhere"} \intersect (Sessions \union Projects) = {}
    /\ MaxEvents \in Nat

VARIABLES
    global,     \* rules in the global permissions.json
    project,    \* rules in each project's .suis/permissions.json
    unreadable, \* files that are there but do not parse
    sess,       \* each session: its project, PermissionStore and session denies
    prompt,     \* each session's open prompt: <<>> or <<[cmd, why]>>
    screen,     \* what each session's /permissions screen holds, once opened
    granted, denied, ran,   \* what the user said and what ran: see UserPolicy
    given,      \* denies the user has asked for: a pattern and a project
    kept,       \* those that reached the project's file and were not revoked
    revoked,    \* patterns whose global deny was revoked on a screen
    spent       \* how much of the bound is used up; whether a file was broken

files == <<global, project, unreadable>>
said == <<granted, given, kept, revoked>>
vars == <<files, sess, prompt, screen, granted, denied, ran, given, kept, revoked, spent>>

\* The bound on everything but runs and looks at a screen.
Event(n) ==
    /\ spent.events + n <= MaxEvents
    /\ spent' = [spent EXCEPT !.events = @ + n]

-----------------------------------------------------------------------------
(* Rules.                                                                  *)

Scopes == {"session", "project", "always", "deny"}
Rules == [pattern : Patterns, scope : Scopes]
GlobalRules == [pattern : Patterns, scope : {"always", "deny"}]
ProjectRules == [pattern : Patterns, scope : {"project", "deny"}]
Rule(pattern, scope) == [pattern |-> pattern, scope |-> scope]
DenyOf(pattern) == Rule(pattern, "deny")

Denies(rules) == {r \in rules : r.scope = "deny"}

\* is_persistent
Persistent(rules) == {r \in rules : r.scope \in {"project", "always", "deny"}}

-----------------------------------------------------------------------------
(* Reading.                                                                *)

\* Fault: entries of the other file's scope are read as grants of this project.
LoadedFromAll(p) ==
    IF {GlobalFile, p} \intersect unreadable = {}
    THEN Persistent(global \union UNION {project[q] : q \in Projects}) ELSE {}

\* PermissionStore::load, with Session::new's unwrap_or_default: one file that
\* does not parse leaves the session without any rule of the other either.
Loaded(p) ==
    IF {GlobalFile, p} \intersect unreadable = {}
    THEN Persistent(global \union project[p]) ELSE {}

NewSession(p) == [project |-> p, rules |-> Loaded(p), denies |-> {}]

ClosedScreen == [open |-> FALSE, global |-> {}, project |-> {}]

-----------------------------------------------------------------------------
(* Writing.                                                                *)

\* Each of the two writes may fail by itself; a file that was written parses.
WriteFiles(p, newGlobal, newProject, okGlobal, okProject) ==
    /\ global' = IF okGlobal THEN newGlobal ELSE global
    /\ project' = IF okProject THEN [project EXCEPT ![p] = newProject] ELSE project
    /\ unreadable' = unreadable \ ((IF okGlobal THEN {GlobalFile} ELSE {})
                                   \union (IF okProject THEN {p} ELSE {}))

\* Fault: the global file is replaced by what the session knows.
GlobalToSaveForgetful(rules) == {r \in rules : r.scope = "always"}

\* save_to: the denies found in the global file stay there ...
Existing == IF GlobalFile \in unreadable THEN {} ELSE global

GlobalToSave(rules) == Denies(Existing) \union {r \in rules : r.scope = "always"}

\* Fault: whatever is not global goes to the project file.
ProjectToSaveAll(rules) == {r \in rules : r.scope # "always" /\ r \notin Existing}

\* Fault: global denies are copied into the project file.
ProjectToSaveCopied(rules) == {r \in rules : r.scope \in {"project", "deny"}}

\* ... and are not copied into the project's.
ProjectToSave(rules) ==
    {r \in rules : r.scope = "project" \/ (r.scope = "deny" /\ r \notin Existing)}

Failures(okGlobal, okProject) == IF okGlobal /\ okProject THEN 0 ELSE 1

Save(p, rules, okGlobal, okProject) ==
    /\ WriteFiles(p, GlobalToSave(rules), ProjectToSave(rules), okGlobal, okProject)
    /\ Event(Failures(okGlobal, okProject))

-----------------------------------------------------------------------------
(* The evaluator.                                                          *)

Matching(s, cmd) == {r \in sess[s].rules : Matches(r.pattern, cmd)}

\* Fault: the danger of a command is not looked at.
VerdictUnguarded(s, cmd) ==
    IF cmd \in sess[s].denies \/ Denies(Matching(s, cmd)) # {} THEN "deny"
    ELSE IF Matching(s, cmd) # {} THEN "allow" ELSE "ask"

\* check_command
Verdict(s, cmd) ==
    IF cmd \in sess[s].denies \/ Denies(Matching(s, cmd)) # {} THEN "deny"
    ELSE IF Matching(s, cmd) # {} /\ ~IsDangerous(cmd) THEN "allow" ELSE "ask"

-----------------------------------------------------------------------------
(* Sessions.                                                               *)

Init ==
    /\ global = {DenyOf(p) : p \in HandDenies}
    /\ project = [p \in Projects |-> {}]
    /\ unreadable = {}
    /\ \E home \in [Sessions -> Projects] :
          sess = [s \in Sessions |-> NewSession(home[s])]
    /\ prompt = [s \in Sessions |-> <<>>]
    /\ screen = [s \in Sessions |-> ClosedScreen]
    /\ granted = {} /\ denied = {} /\ ran = <<>>
    /\ given = {} /\ kept = {} /\ revoked = {}
    /\ spent = [events |-> 0, broken |-> FALSE]

\* The program is started again, perhaps elsewhere, after an exit or a crash;
\* /model does the same to the session it replaces.
Start(s, p) ==
    /\ Event(1)
    /\ sess' = [sess EXCEPT ![s] = NewSession(p)]
    /\ prompt' = [prompt EXCEPT ![s] = <<>>]
    /\ screen' = [screen EXCEPT ![s] = ClosedScreen]
    /\ granted' = {g \in granted : g.in # s}
    /\ denied' = {d \in denied : d.session # s}
    /\ ran' = <<>>
    /\ UNCHANGED <<files, given, kept, revoked>>

\* Someone edits a file by hand and leaves it unparsable.
Break(f) ==
    /\ spent.events < MaxEvents
    /\ spent' = [events |-> spent.events + 1, broken |-> TRUE]
    /\ unreadable' = unreadable \union {f}
    /\ ran' = <<>>
    /\ UNCHANGED <<global, project, sess, prompt, screen, said, denied>>

\* gate_bash, up to its answer or its prompt.
RunAllowed(s, cmd) ==
    /\ prompt[s] = <<>>
    /\ Verdict(s, cmd) = "allow" /\ ~NamesHidden(cmd)
    /\ ran' = <<s, cmd, "unasked">>
    /\ UNCHANGED <<files, sess, prompt, screen, said, denied, spent>>

Ask(s, cmd, why) ==
    /\ prompt[s] = <<>>
    /\ Event(1)
    /\ CASE why = "approval" -> Verdict(s, cmd) = "ask"
         [] why = "hidden"   -> Verdict(s, cmd) = "allow" /\ NamesHidden(cmd)
    /\ prompt' = [prompt EXCEPT ![s] = <<[cmd |-> cmd, why |-> why]>>]
    /\ ran' = <<>>
    /\ UNCHANGED <<files, sess, screen, said, denied>>

-----------------------------------------------------------------------------
(* Answers: record_command_decision.                                       *)

Answering(s, cmd) ==
    /\ prompt[s] # <<>> /\ prompt[s][1].cmd = cmd
    /\ prompt' = [prompt EXCEPT ![s] = <<>>]
    /\ UNCHANGED <<screen, revoked>>

\* A yes that leaves nothing behind: a one-shot grant, any grant of a dangerous
\* command, and any answer about a hidden path.
AllowOnce(s, cmd) ==
    /\ Answering(s, cmd)
    /\ ran' = <<s, cmd, "asked">>
    /\ UNCHANGED <<files, sess, granted, given, kept, denied, spent>>

\* Where a recorded grant holds.
Reach(s, scope) ==
    CASE scope = "session" -> s
      [] scope = "project" -> sess[s].project
      [] scope = "always"  -> "everywhere"

\* A yes for the session is kept in memory; a wider one is saved as well, with
\* every other rule the session holds.
AllowFor(s, cmd, scope, wildcard, okGlobal, okProject) ==
    LET pattern == IF wildcard THEN Widened(cmd) ELSE cmd
        rules == sess[s].rules \union {Rule(pattern, scope)}
    IN /\ Answering(s, cmd)
       /\ prompt[s][1].why = "approval" /\ ~IsDangerous(cmd)
       /\ sess' = [sess EXCEPT ![s].rules = rules]
       /\ IF scope = "session" THEN UNCHANGED <<files, spent>>
          ELSE Save(sess[s].project, rules, okGlobal, okProject)
       /\ granted' = granted \union {[pattern |-> pattern, in |-> Reach(s, scope)]}
       /\ ran' = <<s, cmd, "asked">>
       /\ UNCHANGED <<given, kept, denied>>

\* A no that leaves nothing behind, or the dropped channel of a closed UI.
DenyOnce(s, cmd) ==
    /\ Answering(s, cmd)
    /\ ran' = <<>>
    /\ UNCHANGED <<files, sess, granted, given, kept, denied, spent>>

DenySession(s, cmd) ==
    /\ Answering(s, cmd) /\ prompt[s][1].why = "approval"
    /\ sess' = [sess EXCEPT ![s].denies = @ \union {cmd}]
    /\ denied' = denied \union {[session |-> s, cmd |-> cmd]}
    /\ ran' = <<>>
    /\ UNCHANGED <<files, granted, given, kept, spent>>

DenyProject(s, cmd, okGlobal, okProject) ==
    LET rules == sess[s].rules \union {DenyOf(cmd)}
        entry == [pattern |-> cmd, project |-> sess[s].project]
    IN /\ Answering(s, cmd) /\ prompt[s][1].why = "approval"
       /\ sess' = [sess EXCEPT ![s].rules = rules]
       /\ Save(sess[s].project, rules, okGlobal, okProject)
       /\ denied' = denied \union {[session |-> s, cmd |-> cmd]}
       /\ given' = given \union {entry}
       /\ kept' = IF okProject THEN kept \union {entry} ELSE kept
       /\ ran' = <<>>
       /\ UNCHANGED granted

-----------------------------------------------------------------------------
(* The /permissions screen.                                                *)

Shown(globalRules, projectRules) ==
    [open |-> TRUE, global |-> globalRules, project |-> projectRules]

\* open_permissions: both files are read, once; if one does not parse the
\* screen shows two empty lists.  Closing the screen changes nothing.
OpenScreen(s) ==
    /\ spent.events < MaxEvents
    /\ screen' = [screen EXCEPT ![s] =
                     IF {GlobalFile, sess[s].project} \intersect unreadable = {}
                     THEN Shown(Persistent(global), Persistent(project[sess[s].project]))
                     ELSE Shown({}, {})]
    /\ ran' = <<>>
    /\ UNCHANGED <<files, sess, prompt, said, denied, spent>>

\* save_split: the files become what the screen shows.
EditScreen(s, newGlobal, newProject, okGlobal, okProject) ==
    /\ screen[s].open
    /\ Event(1 + Failures(okGlobal, okProject))
    /\ screen' = [screen EXCEPT ![s] = Shown(newGlobal, newProject)]
    /\ WriteFiles(sess[s].project, Persistent(newGlobal), Persistent(newProject),
                  okGlobal, okProject)
    /\ ran' = <<>>
    /\ UNCHANGED <<sess, prompt, granted, denied>>

RevokeGlobal(s, r, okGlobal, okProject) ==
    /\ r \in screen[s].global
    /\ EditScreen(s, screen[s].global \ {r}, screen[s].project, okGlobal, okProject)
    /\ revoked' = IF r.scope = "deny" THEN revoked \union {r.pattern} ELSE revoked
    /\ UNCHANGED <<given, kept>>

RevokeProject(s, r, okGlobal, okProject) ==
    /\ r \in screen[s].project
    /\ EditScreen(s, screen[s].global, screen[s].project \ {r}, okGlobal, okProject)
    /\ kept' = IF r.scope = "deny"
               THEN kept \ {[pattern |-> r.pattern, project |-> sess[s].project]} ELSE kept
    /\ UNCHANGED <<given, revoked>>

AddDeny(s, pattern, okGlobal, okProject) ==
    LET entry == [pattern |-> pattern, project |-> sess[s].project]
    IN /\ DenyOf(pattern) \notin screen[s].project
       /\ EditScreen(s, screen[s].global, screen[s].project \union {DenyOf(pattern)},
                     okGlobal, okProject)
       /\ given' = given \union {entry}
       /\ kept' = IF okProject THEN kept \union {entry} ELSE kept
       /\ UNCHANGED revoked

-----------------------------------------------------------------------------
Next ==
    \/ \E s \in Sessions, p \in Projects : Start(s, p)
    \/ \E f \in Projects \union {GlobalFile} : Break(f)
    \/ \E s \in Sessions, cmd \in Commands :
          \/ RunAllowed(s, cmd)
          \/ \E why \in {"approval", "hidden"} : Ask(s, cmd, why)
          \/ AllowOnce(s, cmd) \/ DenyOnce(s, cmd) \/ DenySession(s, cmd)
          \/ \E okG, okP \in BOOLEAN :
                \/ \E scope \in Scopes \ {"deny"}, wildcard \in BOOLEAN :
                      AllowFor(s, cmd, scope, wildcard, okG, okP)
                \/ DenyProject(s, cmd, okG, okP)
    \/ \E s \in Sessions :
          \/ OpenScreen(s)
          \/ \E okG, okP \in BOOLEAN :
                \/ \E r \in screen[s].global : RevokeGlobal(s, r, okG, okP)
                \/ \E r \in screen[s].project : RevokeProject(s, r, okG, okP)
                \/ \E pattern \in Patterns : AddDeny(s, pattern, okG, okP)

Spec == Init /\ [][Next]_vars

-----------------------------------------------------------------------------
(* Properties.                                                             *)

SessionRecords == [project : Projects, rules : SUBSET Rules, denies : SUBSET Commands]
Prompts == {<<>>} \union {<<q>> : q \in [cmd : Commands, why : {"approval", "hidden"}]}
Screens == [open : BOOLEAN, global : SUBSET GlobalRules, project : SUBSET ProjectRules]
Grants == [pattern : Patterns, in : Sessions \union Projects \union {"everywhere"}]
SessionDenies == [session : Sessions, cmd : Commands]
ProjectDenies == [pattern : Patterns, project : Projects]
Spending == [events : Nat, broken : BOOLEAN]

\* Types, and which scope is stored where: the global file holds `Always` grants
\* and denies, a project's its own grants and denies, and neither a session's.
TypeOK ==
    /\ global \in SUBSET GlobalRules
    /\ project \in [Projects -> SUBSET ProjectRules]
    /\ unreadable \subseteq Projects \union {GlobalFile}
    /\ sess \in [Sessions -> SessionRecords]
    /\ prompt \in [Sessions -> Prompts]
    /\ screen \in [Sessions -> Screens]
    /\ granted \subseteq Grants
    /\ denied \subseteq SessionDenies
    /\ given \subseteq ProjectDenies
    /\ kept \subseteq given
    /\ revoked \subseteq Patterns
    /\ spent \in Spending

Policy == INSTANCE UserPolicy WITH home <- [s \in Sessions |-> sess[s].project]

\* Whatever is written, lost, broken or rewritten from a stale copy, a command
\* runs unasked only under a grant its user gave, of a scope that reaches the
\* session, never if it is dangerous or names a hidden path, and never after the
\* user denied it in that session: "An explicit `Deny` always wins", evaluator.rs.
PolicyHolds == Policy!PolicySpec

\* Denies written by hand in the global file outlive every save and bind every
\* session, until one is revoked on a screen or a file is broken by hand:
\* save_to, "keeps any `Deny` rules it already holds".
HandDeniesKept ==
    ~spent.broken =>
        \A p \in HandDenies \ revoked :
            /\ DenyOf(p) \in global
            /\ \A s \in Sessions : DenyOf(p) \in sess[s].rules

\* A project's file denies what was denied for that project, and nothing copied
\* from elsewhere, unless a screen or a broken file has taken it out of the
\* global file: save_to, "which stay global instead of being copied".
DeniesStayHome ==
    \A p \in Projects : \A r \in Denies(project[p]) :
        \/ [pattern |-> r.pattern, project |-> p] \in given
        \/ r.pattern \in HandDenies /\ (r.pattern \in revoked \/ spent.broken)

-----------------------------------------------------------------------------
(* A statement of the repository that the code does not keep.              *)

\* README.md: a Deny is "Durable policy", stored in the project file.  With no
\* file broken by hand, a deny that was written there stays until it is revoked.
DeniesDurable ==
    ~spent.broken =>
        \A d \in kept : DenyOf(d.pattern) \in project[d.project] \union global
=============================================================================
