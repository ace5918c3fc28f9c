-------------------------- MODULE PermissionsProofs --------------------------
(***************************************************************************)
(* Proofs about the files that several running programs read and write      *)
(* whole. Of Permissions, for any sessions, projects, commands and bounds:  *)
(* its types, and that it implements UserPolicy. After them, of             *)
(* Capabilities: what several processes record and say of the models of one *)
(* provider.                                                                *)
(***************************************************************************)
EXTENDS Permissions, Capabilities, SequenceTheorems, TLAPS

-----------------------------------------------------------------------------
(* Facts about the operators.                                              *)

\* A command is also a pattern, and so is its widening.
LEMMA CommandsArePatterns ==
    ASSUME NEW cmd \in Commands
    PROVE  cmd \in Patterns /\ Widened(cmd) \in Patterns /\ Matches(cmd, cmd)
  BY DEF Commands, Patterns, Widened, Matches

\* Parts of a typed state.
LEMMA SessionParts ==
    ASSUME TypeOK, NEW s \in Sessions
    PROVE  /\ sess[s] \in SessionRecords /\ sess[s].project \in Projects
           /\ sess[s].rules \in SUBSET Rules /\ sess[s].denies \in SUBSET Commands
           /\ screen[s] \in Screens
           /\ screen[s].global \in SUBSET GlobalRules
           /\ screen[s].project \in SUBSET ProjectRules
  <1>1. sess[s] \in SessionRecords /\ screen[s] \in Screens
    BY DEF TypeOK
  <1>2. QED
    BY <1>1 DEF SessionRecords, Screens

\* A session whose rules are replaced, and one whose denies are: nothing
\* else of it changes.
LEMMA ChangedRules ==
    ASSUME NEW rec \in [Sessions -> SessionRecords], NEW s \in Sessions,
           NEW rules \in SUBSET Rules, NEW new, new = [rec EXCEPT ![s].rules = rules]
    PROVE  /\ new \in [Sessions -> SessionRecords]
           /\ new[s].rules = rules /\ \A q \in Sessions \ {s} : new[q] = rec[q]
           /\ \A q \in Sessions : new[q].project = rec[q].project
                                  /\ new[q].denies = rec[q].denies
  BY DEF SessionRecords

LEMMA ChangedDenies ==
    ASSUME NEW rec \in [Sessions -> SessionRecords], NEW s \in Sessions,
           NEW denies \in SUBSET Commands, NEW new, new = [rec EXCEPT ![s].denies = denies]
    PROVE  /\ new \in [Sessions -> SessionRecords]
           /\ new[s].denies = denies /\ \A q \in Sessions \ {s} : new[q] = rec[q]
           /\ \A q \in Sessions : new[q].project = rec[q].project
                                  /\ new[q].rules = rec[q].rules
  BY DEF SessionRecords

LEMMA ShownType ==
    ASSUME NEW newGlobal \in SUBSET GlobalRules, NEW newProject \in SUBSET ProjectRules
    PROVE  Shown(newGlobal, newProject) \in Screens
  BY DEF Shown, Screens

\* What a session loads is typed.
LEMMA LoadedType ==
    ASSUME TypeOK, NEW p \in Projects
    PROVE  Loaded(p) \subseteq Rules
  <1>1. global \subseteq Rules /\ project[p] \subseteq Rules
    BY DEF TypeOK, GlobalRules, ProjectRules, Rules, Scopes
  <1>2. QED
    BY <1>1 DEF Loaded, Persistent

LEMMA NewSessionType ==
    ASSUME TypeOK, NEW p \in Projects
    PROVE  NewSession(p) \in SessionRecords
  BY LoadedType DEF NewSession, SessionRecords

\* A write leaves typed files behind, whichever of its halves fail.
LEMMA WriteType ==
    ASSUME TypeOK, NEW p \in Projects,
           NEW newGlobal \in SUBSET GlobalRules, NEW newProject \in SUBSET ProjectRules,
           NEW okG \in BOOLEAN, NEW okP \in BOOLEAN,
           WriteFiles(p, newGlobal, newProject, okG, okP)
    PROVE  /\ global' \in SUBSET GlobalRules
           /\ project' \in [Projects -> SUBSET ProjectRules]
           /\ unreadable' \subseteq Projects \union {GlobalFile}
  BY DEF TypeOK, WriteFiles

\* What save_to writes has the scopes of the file it goes to.
LEMMA SavedType ==
    ASSUME TypeOK, NEW rules \in SUBSET Rules
    PROVE  /\ GlobalToSave(rules) \in SUBSET GlobalRules
           /\ ProjectToSave(rules) \in SUBSET ProjectRules
  <1>1. Existing \subseteq GlobalRules
    BY DEF TypeOK, Existing
  <1>2. \A r \in Rules : /\ r.scope = "always" => r \in GlobalRules
                         /\ r.scope \in {"project", "deny"} => r \in ProjectRules
    BY DEF Rules, GlobalRules, ProjectRules
  <1>3. QED
    BY <1>1, <1>2 DEF GlobalToSave, ProjectToSave, Denies

LEMMA EventType ==
    ASSUME TypeOK, NEW n \in Nat, Event(n)
    PROVE  spent' \in Spending
  BY DEF TypeOK, Event, Spending

LEMMA FailuresNat ==
    ASSUME NEW okG \in BOOLEAN, NEW okP \in BOOLEAN
    PROVE  Failures(okG, okP) \in Nat /\ 1 + Failures(okG, okP) \in Nat
  BY DEF Failures

-----------------------------------------------------------------------------
(* Type correctness.                                                       *)

LEMMA InitType == ASSUME Init PROVE TypeOK
  <1> USE DEF Init
  <1>1. global \in SUBSET GlobalRules /\ project \in [Projects -> SUBSET ProjectRules]
    BY PermissionsConstants DEF DenyOf, Rule, GlobalRules
  <1>2. sess \in [Sessions -> SessionRecords]
    <2>1. PICK home \in [Sessions -> Projects] : sess = [s \in Sessions |-> NewSession(home[s])]
      OBVIOUS
    <2>2. \A p \in Projects : Loaded(p) \subseteq Rules
      BY <1>1 DEF Loaded, Persistent, GlobalRules, ProjectRules, Rules, Scopes
    <2>3. QED
      BY <2>1, <2>2 DEF NewSession, SessionRecords
  <1>3. prompt \in [Sessions -> Prompts]
    BY DEF Prompts
  <1>4. screen \in [Sessions -> Screens]
    BY DEF ClosedScreen, Screens
  <1>5. spent \in Spending
    BY DEF Spending
  <1>6. QED
    BY <1>1, <1>2, <1>3, <1>4, <1>5 DEF TypeOK

LEMMA AnsweringType ==
    ASSUME TypeOK, NEW s \in Sessions, NEW cmd \in Commands, Answering(s, cmd)
    PROVE  /\ prompt' \in [Sessions -> Prompts]
           /\ UNCHANGED <<screen, revoked>>
  BY DEF TypeOK, Answering, Prompts

\* An edit of a screen keeps the types, whatever it makes of the two lists.
LEMMA EditType ==
    ASSUME TypeOK, NEW s \in Sessions,
           NEW newGlobal \in SUBSET GlobalRules, NEW newProject \in SUBSET ProjectRules,
           NEW okG \in BOOLEAN, NEW okP \in BOOLEAN,
           EditScreen(s, newGlobal, newProject, okG, okP),
           given' \subseteq ProjectDenies,
           kept' \subseteq given', revoked' \subseteq Patterns
    PROVE  TypeOK'
  <1>1. sess[s].project \in Projects
    BY SessionParts
  <1>2. Persistent(newGlobal) \in SUBSET GlobalRules /\ Persistent(newProject) \in SUBSET ProjectRules
    BY DEF Persistent
  <1>3. /\ global' \in SUBSET GlobalRules
        /\ project' \in [Projects -> SUBSET ProjectRules]
        /\ unreadable' \subseteq Projects \union {GlobalFile}
    BY <1>1, <1>2, WriteType DEF EditScreen
  <1>4. spent' \in Spending
    BY EventType, FailuresNat DEF EditScreen
  <1>5. screen' \in [Sessions -> Screens]
    BY ShownType DEF EditScreen, TypeOK
  <1>6. UNCHANGED <<sess, prompt, granted, denied>>
    BY DEF EditScreen
  <1>7. QED
    BY <1>3, <1>4, <1>5, <1>6 DEF TypeOK

LEMMA NextType == ASSUME TypeOK, [Next]_vars PROVE TypeOK'
  <1>1. CASE UNCHANGED vars
    BY <1>1 DEF TypeOK, vars, files
  <1>2. ASSUME NEW s \in Sessions, NEW p \in Projects, Start(s, p) PROVE TypeOK'
    <2>1. NewSession(p) \in SessionRecords
      BY NewSessionType
    <2>2. spent' \in Spending
      BY <1>2, EventType DEF Start
    <2>3. ClosedScreen \in Screens
      BY DEF ClosedScreen, Screens
    <2>4. QED
      <3>1. sess' \in [Sessions -> SessionRecords] /\ screen' \in [Sessions -> Screens]
        BY <1>2, <2>1, <2>3 DEF TypeOK, Start
      <3>2. prompt' \in [Sessions -> Prompts]
        BY <1>2 DEF TypeOK, Start, Prompts
      <3>3. granted' \subseteq Grants /\ denied' \subseteq SessionDenies
        BY <1>2 DEF TypeOK, Start
      <3>4. UNCHANGED <<files, given, kept, revoked>>
        BY <1>2 DEF Start
      <3>5. QED
        BY <2>2, <3>1, <3>2, <3>3, <3>4 DEF TypeOK, files
  <1>3. ASSUME NEW f \in Projects \union {GlobalFile}, Break(f) PROVE TypeOK'
    <2>1. spent' \in Spending
      <3>1. spent.events \in Nat /\ spent \in Spending
        BY DEF TypeOK, Spending
      <3>2. spent' = [events |-> spent.events + 1, broken |-> TRUE]
        BY <1>3 DEF Break
      <3>3. QED
        BY <3>1, <3>2 DEF Spending
    <2>2. QED
      BY <1>3, <2>1 DEF TypeOK, Break, said
  <1>4. ASSUME NEW s \in Sessions, NEW cmd \in Commands, RunAllowed(s, cmd) PROVE TypeOK'
    BY <1>4 DEF TypeOK, RunAllowed, said, files
  <1>5. ASSUME NEW s \in Sessions, NEW cmd \in Commands, NEW why \in {"approval", "hidden"},
               Ask(s, cmd, why)
        PROVE  TypeOK'
    <2>1. spent' \in Spending
      BY <1>5, EventType DEF Ask
    <2>2. prompt' \in [Sessions -> Prompts]
      BY <1>5 DEF TypeOK, Ask, Prompts
    <2>3. QED
      BY <1>5, <2>1, <2>2 DEF TypeOK, Ask, said, files
  <1>6. ASSUME NEW s \in Sessions, NEW cmd \in Commands, AllowOnce(s, cmd) \/ DenyOnce(s, cmd)
        PROVE  TypeOK'
    BY <1>6, AnsweringType DEF TypeOK, AllowOnce, DenyOnce, files
  <1>7. ASSUME NEW s \in Sessions, NEW cmd \in Commands, DenySession(s, cmd) PROVE TypeOK'
    <2>1. sess' \in [Sessions -> SessionRecords]
      <3>1. sess[s].denies \union {cmd} \in SUBSET Commands
        BY SessionParts
      <3>2. QED
        BY <1>7, <3>1, ChangedDenies DEF TypeOK, DenySession
    <2>2. denied' \subseteq SessionDenies
      BY <1>7 DEF TypeOK, DenySession, SessionDenies
    <2>3. Answering(s, cmd) /\ UNCHANGED <<files, granted, given, kept, spent>>
      BY <1>7 DEF DenySession
    <2>4. QED
      BY <2>1, <2>2, <2>3, AnsweringType DEF TypeOK, files
  <1>8. ASSUME NEW s \in Sessions, NEW cmd \in Commands, NEW okG \in BOOLEAN, NEW okP \in BOOLEAN,
               NEW scope \in Scopes \ {"deny"}, NEW wildcard \in BOOLEAN,
               AllowFor(s, cmd, scope, wildcard, okG, okP)
        PROVE  TypeOK'
    <2> DEFINE pattern == IF wildcard THEN Widened(cmd) ELSE cmd
               rules == sess[s].rules \union {Rule(pattern, scope)}
    <2>1. pattern \in Patterns
      BY CommandsArePatterns
    <2>2. rules \in SUBSET Rules /\ sess[s].project \in Projects
      BY <2>1, SessionParts DEF Rules, Rule
    <2>3. sess' \in [Sessions -> SessionRecords]
      <3> HIDE DEF rules
      <3>1. sess' = [sess EXCEPT ![s].rules = rules]
        BY <1>8 DEF AllowFor, rules
      <3>2. QED
        BY <2>2, <3>1, ChangedRules DEF TypeOK
    <2>4. /\ global' \in SUBSET GlobalRules
          /\ project' \in [Projects -> SUBSET ProjectRules]
          /\ unreadable' \subseteq Projects \union {GlobalFile}
          /\ spent' \in Spending
      <3> HIDE DEF rules
      <3>1. CASE scope = "session"
        <4>1. UNCHANGED <<files, spent>>
          BY <1>8, <3>1 DEF AllowFor
        <4>2. QED
          BY <4>1 DEF TypeOK, files
      <3>2. CASE scope # "session"
        <4>1. Save(sess[s].project, rules, okG, okP)
          BY <1>8, <3>2 DEF AllowFor, rules
        <4>2. QED
          BY <2>2, <4>1, SavedType, WriteType, EventType, FailuresNat DEF Save
      <3>3. QED
        BY <3>1, <3>2
    <2>5. Reach(s, scope) \in Sessions \union Projects \union {"everywhere"}
      BY <2>2 DEF Reach, Scopes
    <2>6. granted' \subseteq Grants
      BY <1>8, <2>1, <2>5 DEF TypeOK, AllowFor, Grants
    <2>7. UNCHANGED <<given, kept, denied>> /\ Answering(s, cmd)
      BY <1>8 DEF AllowFor
    <2>8. QED
      BY <2>3, <2>4, <2>6, <2>7, AnsweringType DEF TypeOK
  <1>9. ASSUME NEW s \in Sessions, NEW cmd \in Commands, NEW okG \in BOOLEAN, NEW okP \in BOOLEAN,
               DenyProject(s, cmd, okG, okP)
        PROVE  TypeOK'
    <2> DEFINE rules == sess[s].rules \union {DenyOf(cmd)}
    <2>1. rules \in SUBSET Rules /\ sess[s].project \in Projects
      BY CommandsArePatterns, SessionParts DEF Rules, Scopes, Rule, DenyOf
    <2>2. /\ global' \in SUBSET GlobalRules
          /\ project' \in [Projects -> SUBSET ProjectRules]
          /\ unreadable' \subseteq Projects \union {GlobalFile}
          /\ spent' \in Spending
      <3>1. Save(sess[s].project, rules, okG, okP)
        BY <1>9 DEF DenyProject
      <3>2. QED
        BY <2>1, <3>1, SavedType, WriteType, EventType, FailuresNat DEF Save
    <2>3. sess' \in [Sessions -> SessionRecords]
      <3>1. sess' = [sess EXCEPT ![s].rules = rules]
        BY <1>9 DEF DenyProject
      <3> HIDE DEF rules
      <3>2. QED
        BY <2>1, <3>1, ChangedRules DEF TypeOK
    <2>4. /\ given' \subseteq ProjectDenies
          /\ kept' \subseteq given'
      BY <1>9, <2>1, CommandsArePatterns DEF TypeOK, DenyProject, ProjectDenies
    <2>5. /\ denied' \subseteq SessionDenies
          /\ granted' = granted /\ Answering(s, cmd)
      BY <1>9 DEF TypeOK, DenyProject, SessionDenies
    <2>6. QED
      BY <2>2, <2>3, <2>4, <2>5, AnsweringType DEF TypeOK
  <1>10. ASSUME NEW s \in Sessions, OpenScreen(s) PROVE TypeOK'
    <2>1. /\ Persistent(global) \in SUBSET GlobalRules
          /\ Persistent(project[sess[s].project]) \in SUBSET ProjectRules
      BY SessionParts DEF TypeOK, Persistent
    <2>2. screen' \in [Sessions -> Screens]
      <3>1. /\ Shown(Persistent(global), Persistent(project[sess[s].project])) \in Screens
            /\ Shown({}, {}) \in Screens
        BY <2>1, ShownType
      <3>2. QED
        BY <1>10, <3>1 DEF TypeOK, OpenScreen
    <2>3. UNCHANGED <<files, sess, prompt, said, denied, spent>>
      BY <1>10 DEF OpenScreen
    <2>4. QED
      BY <2>2, <2>3 DEF TypeOK, said, files
  <1>11. ASSUME NEW s \in Sessions, NEW okG \in BOOLEAN, NEW okP \in BOOLEAN,
                NEW r \in screen[s].global, RevokeGlobal(s, r, okG, okP)
         PROVE  TypeOK'
    <2>1. screen[s].global \ {r} \in SUBSET GlobalRules /\ screen[s].project \in SUBSET ProjectRules
      BY SessionParts
    <2>2. /\ given' \subseteq ProjectDenies
          /\ kept' \subseteq given' /\ revoked' \subseteq Patterns
      <3>1. r.pattern \in Patterns
        BY SessionParts DEF GlobalRules
      <3>2. QED
        BY <1>11, <3>1 DEF TypeOK, RevokeGlobal
    <2>3. QED
      BY <1>11, <2>1, <2>2, EditType DEF RevokeGlobal
  <1>12. ASSUME NEW s \in Sessions, NEW okG \in BOOLEAN, NEW okP \in BOOLEAN,
                NEW r \in screen[s].project, RevokeProject(s, r, okG, okP)
         PROVE  TypeOK'
    <2>1. screen[s].global \in SUBSET GlobalRules /\ screen[s].project \ {r} \in SUBSET ProjectRules
      BY SessionParts
    <2>2. /\ given' \subseteq ProjectDenies
          /\ kept' \subseteq given' /\ revoked' \subseteq Patterns
      BY <1>12 DEF TypeOK, RevokeProject
    <2>3. QED
      BY <1>12, <2>1, <2>2, EditType DEF RevokeProject
  <1>13. ASSUME NEW s \in Sessions, NEW okG \in BOOLEAN, NEW okP \in BOOLEAN,
                NEW pattern \in Patterns, AddDeny(s, pattern, okG, okP)
         PROVE  TypeOK'
    <2>1. /\ screen[s].global \in SUBSET GlobalRules
          /\ screen[s].project \union {DenyOf(pattern)} \in SUBSET ProjectRules
      BY SessionParts DEF DenyOf, Rule, ProjectRules
    <2>2. sess[s].project \in Projects
      BY SessionParts
    <2>3. /\ given' \subseteq ProjectDenies
          /\ kept' \subseteq given' /\ revoked' \subseteq Patterns
      BY <1>13, <2>2 DEF TypeOK, AddDeny, ProjectDenies
    <2>4. QED
      BY <1>13, <2>1, <2>3, EditType DEF AddDeny
  <1>14. QED
    BY <1>1, <1>2, <1>3, <1>4, <1>5, <1>6, <1>7, <1>8, <1>9, <1>10, <1>11, <1>12, <1>13 DEF Next

\* Rules of a session never reach a file, and each file holds only the scopes
\* that are its own, after any sequence of saves and screen edits.
THEOREM TypeCorrect == Spec => []TypeOK
  BY InitType, NextType, PTL DEF Spec

-----------------------------------------------------------------------------
(* The inductive invariant behind the policy.                              *)

Entry(pattern, where) == [pattern |-> pattern, in |-> where]

\* The granting rules of a set go back to grants that hold where the set has
\* effect: everywhere, in project p, in session s of project p.
GlobalJustified(rules, grants) ==
    \A r \in rules : r.scope = "always" => Entry(r.pattern, "everywhere") \in grants

ProjectJustified(rules, p, grants) ==
    \A r \in rules : r.scope = "project" => Entry(r.pattern, p) \in grants

SessionJustified(rules, s, p, grants) ==
    /\ GlobalJustified(rules, grants) /\ ProjectJustified(rules, p, grants)
    /\ \A r \in rules : r.scope = "session" => Entry(r.pattern, s) \in grants

FilesJustified ==
    /\ GlobalJustified(global, granted)
    /\ \A p \in Projects : ProjectJustified(project[p], p, granted)

SessionsJustified ==
    \A s \in Sessions : SessionJustified(sess[s].rules, s, sess[s].project, granted)

ScreensJustified ==
    \A s \in Sessions : /\ GlobalJustified(screen[s].global, granted)
                        /\ ProjectJustified(screen[s].project, sess[s].project, granted)

\* What the user denied in a session, the session still knows ...
DeniesHeld ==
    \A d \in denied : \/ d.cmd \in sess[d.session].denies
                      \/ DenyOf(d.cmd) \in sess[d.session].rules

\* ... and does not ask about again.
NothingDeniedAsked ==
    \A s \in Sessions :
        prompt[s] # <<>> => [session |-> s, cmd |-> prompt[s][1].cmd] \notin denied

IInv ==
    /\ TypeOK
    /\ FilesJustified /\ SessionsJustified /\ ScreensJustified
    /\ DeniesHeld /\ NothingDeniedAsked

\* What the user says only ever adds grants, except when a session begins.
LEMMA MoreGrants ==
    ASSUME NEW rules, NEW s, NEW p, NEW grants, NEW more, grants \subseteq more
    PROVE  /\ GlobalJustified(rules, grants) => GlobalJustified(rules, more)
           /\ ProjectJustified(rules, p, grants) => ProjectJustified(rules, p, more)
           /\ SessionJustified(rules, s, p, grants) => SessionJustified(rules, s, p, more)
  BY DEF GlobalJustified, ProjectJustified, SessionJustified

\* The grants of the session that ends are not the ones files rest on, nor those
\* of another session.
LEMMA FewerGrants ==
    ASSUME NEW rules, NEW s \in Sessions, NEW q \in Sessions \ {s}, NEW p \in Projects
    PROVE  LET rest == {g \in granted : g.in # s}
           IN /\ GlobalJustified(rules, granted) => GlobalJustified(rules, rest)
              /\ ProjectJustified(rules, p, granted) => ProjectJustified(rules, p, rest)
              /\ SessionJustified(rules, q, p, granted) => SessionJustified(rules, q, p, rest)
  <1>1. "everywhere" # s /\ p # s /\ q # s
    BY PermissionsConstants
  <1>2. QED
    BY <1>1 DEF Entry, GlobalJustified, ProjectJustified, SessionJustified

\* save_to writes only what its session could have been granted ...
LEMMA SavedJustified ==
    ASSUME NEW rules, NEW s, NEW p, NEW grants,
           GlobalJustified(global, granted), granted \subseteq grants,
           SessionJustified(rules, s, p, grants)
    PROVE  /\ GlobalJustified(GlobalToSave(rules), grants)
           /\ ProjectJustified(ProjectToSave(rules), p, grants)
  BY DEF GlobalToSave, ProjectToSave, Denies, SessionJustified, GlobalJustified, ProjectJustified

\* ... and a write, whole or partial, leaves files that are justified.
LEMMA WriteJustified ==
    ASSUME TypeOK, FilesJustified, NEW p \in Projects, NEW newGlobal, NEW newProject,
           NEW okG \in BOOLEAN, NEW okP \in BOOLEAN,
           WriteFiles(p, newGlobal, newProject, okG, okP), granted \subseteq granted',
           GlobalJustified(newGlobal, granted'), ProjectJustified(newProject, p, granted')
    PROVE  FilesJustified'
  <1>1. GlobalJustified(global, granted') /\ \A q \in Projects : ProjectJustified(project[q], q, granted')
    BY MoreGrants DEF FilesJustified
  <1>2. GlobalJustified(global', granted')
    BY <1>1 DEF WriteFiles
  <1>3. \A q \in Projects : ProjectJustified(project'[q], q, granted')
    BY <1>1 DEF WriteFiles, TypeOK
  <1>4. QED
    BY <1>2, <1>3 DEF FilesJustified

\* A new session has read justified files.
LEMMA LoadedJustified ==
    ASSUME FilesJustified, TypeOK, NEW s \in Sessions, NEW p \in Projects
    PROVE  LET rest == {g \in granted : g.in # s}
           IN SessionJustified(Loaded(p), s, p, rest)
  <1> DEFINE rest == {g \in granted : g.in # s}
  <1>1. "everywhere" # s /\ p # s
    BY PermissionsConstants
  <1>2. Loaded(p) \subseteq global \union project[p]
    BY DEF Loaded, Persistent
  <1>3. \A r \in global : r.scope \in {"always", "deny"}
    BY DEF TypeOK, GlobalRules
  <1>4. \A r \in project[p] : r.scope \in {"project", "deny"}
    BY DEF TypeOK, ProjectRules
  <1>5. \A r \in Loaded(p) : /\ r.scope # "session"
                             /\ r.scope = "always" => r \in global
                             /\ r.scope = "project" => r \in project[p]
    BY <1>2, <1>3, <1>4
  <1>6. QED
    BY <1>1, <1>5 DEF FilesJustified, SessionJustified, GlobalJustified, ProjectJustified, Entry

LEMMA InitInv == ASSUME Init PROVE IInv
  <1>1. TypeOK
    BY InitType
  <1>2. FilesJustified /\ ScreensJustified
    BY DEF Init, FilesJustified, ScreensJustified, GlobalJustified, ProjectJustified,
           DenyOf, Rule, ClosedScreen
  <1>3. SessionsJustified
    <2>1. \A p \in Projects : \A r \in Loaded(p) : r.scope = "deny"
      BY DEF Init, Loaded, Persistent, DenyOf, Rule
    <2>2. \A s \in Sessions : \A r \in sess[s].rules : r.scope = "deny"
      BY <2>1 DEF Init, NewSession
    <2>3. QED
      BY <2>2 DEF SessionsJustified, SessionJustified, GlobalJustified, ProjectJustified
  <1>4. DeniesHeld /\ NothingDeniedAsked
    BY DEF Init, DeniesHeld, NothingDeniedAsked
  <1>5. QED
    BY <1>1, <1>2, <1>3, <1>4 DEF IInv

\* What an answer leaves alone: the other sessions, every screen and, when
\* something is granted, every grant before it.
LEMMA AnswerKeepsScreens ==
    ASSUME IInv, UNCHANGED screen, granted \subseteq granted',
           \A q \in Sessions : sess'[q].project = sess[q].project
    PROVE  ScreensJustified'
  BY MoreGrants DEF IInv, ScreensJustified

LEMMA AnswerKeepsSessions ==
    ASSUME IInv, NEW s \in Sessions, granted \subseteq granted',
           \A q \in Sessions : sess'[q].project = sess[q].project,
           \A q \in Sessions \ {s} : sess'[q] = sess[q],
           SessionJustified(sess'[s].rules, s, sess[s].project, granted')
    PROVE  SessionsJustified'
  BY MoreGrants DEF IInv, SessionsJustified

\* An answered prompt is gone; the others were not about what is denied now.
LEMMA AnswerKeepsPrompts ==
    ASSUME IInv, NEW s \in Sessions, NEW cmd \in Commands, Answering(s, cmd),
           \A d \in denied' : d \in denied \/ d.session = s
    PROVE  NothingDeniedAsked'
  BY DEF IInv, TypeOK, NothingDeniedAsked, Answering

LEMMA AllowForInv ==
    ASSUME IInv, NEW s \in Sessions, NEW cmd \in Commands,
           NEW okG \in BOOLEAN, NEW okP \in BOOLEAN,
           NEW scope \in Scopes \ {"deny"}, NEW wildcard \in BOOLEAN,
           AllowFor(s, cmd, scope, wildcard, okG, okP)
    PROVE  /\ FilesJustified' /\ SessionsJustified' /\ ScreensJustified'
           /\ DeniesHeld' /\ NothingDeniedAsked'
  <1> DEFINE pattern == IF wildcard THEN Widened(cmd) ELSE cmd
             rules == sess[s].rules \union {Rule(pattern, scope)}
             p == sess[s].project
  <1>1. pattern \in Patterns /\ rules \in SUBSET Rules /\ p \in Projects
    BY CommandsArePatterns, SessionParts DEF IInv, Rules, Rule
  <1>2. /\ granted' = granted \union {Entry(pattern, Reach(s, scope))}
        /\ sess' = [sess EXCEPT ![s].rules = rules]
        /\ Answering(s, cmd) /\ denied' = denied
    BY DEF AllowFor, Entry
  <1>3. /\ sess'[s].rules = rules /\ \A q \in Sessions \ {s} : sess'[q] = sess[q]
        /\ \A q \in Sessions : sess'[q].project = sess[q].project
                               /\ sess'[q].denies = sess[q].denies
    BY <1>1, <1>2, ChangedRules DEF IInv, TypeOK
  <1>4. Reach(s, scope) = IF scope = "session" THEN s ELSE
                          IF scope = "project" THEN p ELSE "everywhere"
    BY DEF Reach, Scopes
  <1>5. SessionJustified(rules, s, p, granted')
    <2>1. SessionJustified(sess[s].rules, s, p, granted')
      BY <1>2, MoreGrants DEF IInv, SessionsJustified
    <2>2. SessionJustified({Rule(pattern, scope)}, s, p, granted')
      BY <1>2, <1>4 DEF Rule, SessionJustified, GlobalJustified, ProjectJustified
    <2>3. QED
      BY <2>1, <2>2 DEF SessionJustified, GlobalJustified, ProjectJustified
  <1> HIDE DEF pattern, rules, p
  <1>6. FilesJustified'
    <2>1. CASE scope = "session"
      <3>1. UNCHANGED <<global, project>>
        BY <2>1 DEF AllowFor, files
      <3>2. QED
        BY <1>2, <3>1, MoreGrants DEF IInv, FilesJustified
    <2>2. CASE scope # "session"
      <3>1. WriteFiles(p, GlobalToSave(rules), ProjectToSave(rules), okG, okP)
        BY <2>2 DEF AllowFor, Save, rules, p, pattern
      <3>2. /\ GlobalJustified(GlobalToSave(rules), granted')
            /\ ProjectJustified(ProjectToSave(rules), p, granted')
        BY <1>2, <1>5, SavedJustified DEF IInv, FilesJustified
      <3>3. QED
        BY <1>1, <1>2, <3>1, <3>2, WriteJustified DEF IInv
    <2>3. QED
      BY <2>1, <2>2
  <1>7. SessionsJustified' /\ ScreensJustified' /\ NothingDeniedAsked'
    <2>1. UNCHANGED screen
      BY <1>2 DEF Answering
    <2>2. QED
      BY <1>2, <1>3, <1>5, <2>1, AnswerKeepsSessions, AnswerKeepsScreens, AnswerKeepsPrompts DEF p
  <1>8. DeniesHeld'
    <2>1. \A q \in Sessions : sess[q].rules \subseteq sess'[q].rules
      BY <1>3 DEF rules
    <2>2. QED
      BY <1>2, <1>3, <2>1 DEF IInv, TypeOK, SessionDenies, DeniesHeld
  <1>9. QED
    BY <1>6, <1>7, <1>8

LEMMA DenyProjectInv ==
    ASSUME IInv, NEW s \in Sessions, NEW cmd \in Commands,
           NEW okG \in BOOLEAN, NEW okP \in BOOLEAN, DenyProject(s, cmd, okG, okP)
    PROVE  /\ FilesJustified' /\ SessionsJustified' /\ ScreensJustified'
           /\ DeniesHeld' /\ NothingDeniedAsked'
  <1> DEFINE rules == sess[s].rules \union {DenyOf(cmd)}
             p == sess[s].project
  <1>1. rules \in SUBSET Rules /\ p \in Projects
    BY CommandsArePatterns, SessionParts DEF IInv, Rules, Scopes, Rule, DenyOf
  <1>2. /\ granted' = granted
        /\ sess' = [sess EXCEPT ![s].rules = rules]
        /\ Answering(s, cmd)
        /\ denied' = denied \union {[session |-> s, cmd |-> cmd]}
        /\ WriteFiles(p, GlobalToSave(rules), ProjectToSave(rules), okG, okP)
    BY DEF DenyProject, Save
  <1>3. /\ sess'[s].rules = rules /\ \A q \in Sessions \ {s} : sess'[q] = sess[q]
        /\ \A q \in Sessions : sess'[q].project = sess[q].project
                               /\ sess'[q].denies = sess[q].denies
    BY <1>1, <1>2, ChangedRules DEF IInv, TypeOK
  <1>4. SessionJustified(rules, s, p, granted')
    BY <1>2 DEF IInv, SessionsJustified, SessionJustified, GlobalJustified, ProjectJustified,
               DenyOf, Rule
  <1> HIDE DEF rules, p
  <1>5. FilesJustified'
    <2>1. /\ GlobalJustified(GlobalToSave(rules), granted')
          /\ ProjectJustified(ProjectToSave(rules), p, granted')
      BY <1>2, <1>4, SavedJustified DEF IInv, FilesJustified
    <2>2. QED
      BY <1>1, <1>2, <2>1, WriteJustified DEF IInv
  <1>6. SessionsJustified' /\ ScreensJustified' /\ NothingDeniedAsked'
    <2>1. UNCHANGED screen
      BY <1>2 DEF Answering
    <2>2. QED
      BY <1>2, <1>3, <1>4, <2>1, AnswerKeepsSessions, AnswerKeepsScreens, AnswerKeepsPrompts DEF p
  <1>7. DeniesHeld'
    <2>1. \A q \in Sessions : sess[q].rules \subseteq sess'[q].rules
      BY <1>3 DEF rules
    <2>2. DenyOf(cmd) \in sess'[s].rules
      BY <1>3 DEF rules
    <2>3. QED
      BY <1>2, <1>3, <2>1, <2>2 DEF IInv, TypeOK, SessionDenies, DeniesHeld
  <1>8. QED
    BY <1>5, <1>6, <1>7

LEMMA StartInv ==
    ASSUME IInv, NEW s \in Sessions, NEW p \in Projects, Start(s, p)
    PROVE  /\ FilesJustified' /\ SessionsJustified' /\ ScreensJustified'
           /\ DeniesHeld' /\ NothingDeniedAsked'
  <1>1. /\ granted' = {g \in granted : g.in # s} /\ denied' = {d \in denied : d.session # s}
        /\ UNCHANGED <<global, project>>
    BY DEF Start, files
  <1>2. /\ sess'[s] = NewSession(p) /\ \A q \in Sessions \ {s} : sess'[q] = sess[q]
        /\ screen'[s] = ClosedScreen /\ \A q \in Sessions \ {s} : screen'[q] = screen[q]
        /\ prompt'[s] = <<>> /\ \A q \in Sessions \ {s} : prompt'[q] = prompt[q]
    BY DEF Start, IInv, TypeOK
  <1>3. /\ \A q \in Projects : ProjectJustified(project[q], q, granted')
        /\ GlobalJustified(global, granted')
    <2>1. GlobalJustified(global, granted')
      <3>1. GlobalJustified(global, granted)
        BY DEF IInv, FilesJustified
      <3>2. "everywhere" # s
        BY PermissionsConstants
      <3>3. QED
        BY <1>1, <3>1, <3>2 DEF GlobalJustified, Entry
    <2>2. \A q \in Projects : ProjectJustified(project[q], q, granted')
      <3>1. \A q \in Projects : q # s
        BY PermissionsConstants
      <3>2. QED
        BY <1>1, <3>1 DEF IInv, FilesJustified, ProjectJustified, Entry
    <2>3. QED
      BY <2>1, <2>2
  <1>4. FilesJustified'
    BY <1>1, <1>3 DEF FilesJustified
  <1>5. SessionsJustified'
    <2>1. SessionJustified(sess'[s].rules, s, sess'[s].project, granted')
      BY <1>1, <1>2, LoadedJustified DEF IInv, NewSession
    <2>2. ASSUME NEW q \in Sessions \ {s}
          PROVE  SessionJustified(sess'[q].rules, q, sess'[q].project, granted')
      BY <1>1, <1>2, SessionParts, FewerGrants DEF IInv, SessionsJustified
    <2>3. QED
      BY <2>1, <2>2 DEF SessionsJustified
  <1>6. ScreensJustified'
    <2>1. /\ GlobalJustified(screen'[s].global, granted')
          /\ ProjectJustified(screen'[s].project, sess'[s].project, granted')
      BY <1>2 DEF ClosedScreen, GlobalJustified, ProjectJustified
    <2>2. ASSUME NEW q \in Sessions \ {s}
          PROVE  /\ GlobalJustified(screen'[q].global, granted')
                 /\ ProjectJustified(screen'[q].project, sess'[q].project, granted')
      BY <1>1, <1>2, SessionParts, FewerGrants DEF IInv, ScreensJustified
    <2>3. QED
      BY <2>1, <2>2 DEF ScreensJustified
  <1>7. DeniesHeld' /\ NothingDeniedAsked'
    BY <1>1, <1>2 DEF IInv, TypeOK, SessionDenies, DeniesHeld, NothingDeniedAsked
  <1>8. QED
    BY <1>4, <1>5, <1>6, <1>7

LEMMA DenySessionInv ==
    ASSUME IInv, NEW s \in Sessions, NEW cmd \in Commands, DenySession(s, cmd)
    PROVE  /\ FilesJustified' /\ SessionsJustified' /\ ScreensJustified'
           /\ DeniesHeld' /\ NothingDeniedAsked'
  <1> DEFINE denies == sess[s].denies \union {cmd}
  <1>1. /\ UNCHANGED <<global, project, granted>> /\ Answering(s, cmd)
        /\ sess' = [sess EXCEPT ![s].denies = denies]
        /\ denied' = denied \union {[session |-> s, cmd |-> cmd]}
    BY DEF DenySession, files
  <1>2. /\ sess'[s].denies = denies /\ \A q \in Sessions \ {s} : sess'[q] = sess[q]
        /\ \A q \in Sessions : sess'[q].project = sess[q].project /\ sess'[q].rules = sess[q].rules
    <2>1. denies \in SUBSET Commands
      BY SessionParts DEF IInv
    <2> HIDE DEF denies
    <2>2. QED
      BY <1>1, <2>1, ChangedDenies DEF IInv, TypeOK
  <1>3. FilesJustified' /\ SessionsJustified'
    BY <1>1, <1>2 DEF IInv, FilesJustified, SessionsJustified
  <1>4. ScreensJustified' /\ NothingDeniedAsked'
    <2>1. UNCHANGED screen
      BY <1>1 DEF Answering
    <2>2. QED
      BY <1>1, <1>2, <2>1, AnswerKeepsScreens, AnswerKeepsPrompts
  <1>5. DeniesHeld'
    BY <1>1, <1>2 DEF IInv, TypeOK, SessionDenies, DeniesHeld
  <1>6. QED
    BY <1>3, <1>4, <1>5

\* A question is asked only of what is not denied.
LEMMA VerdictNotDenied ==
    ASSUME IInv, NEW s \in Sessions, NEW cmd \in Commands, Verdict(s, cmd) # "deny"
    PROVE  [session |-> s, cmd |-> cmd] \notin denied
  <1>1. cmd \notin sess[s].denies /\ Denies(Matching(s, cmd)) = {}
    BY DEF Verdict
  <1>2. DenyOf(cmd) \notin sess[s].rules
    BY <1>1, CommandsArePatterns DEF Denies, Matching, DenyOf, Rule
  <1>3. QED
    BY <1>1, <1>2 DEF IInv, DeniesHeld

LEMMA AskInv ==
    ASSUME IInv, NEW s \in Sessions, NEW cmd \in Commands, NEW why \in {"approval", "hidden"},
           Ask(s, cmd, why)
    PROVE  /\ FilesJustified' /\ SessionsJustified' /\ ScreensJustified'
           /\ DeniesHeld' /\ NothingDeniedAsked'
  <1>1. UNCHANGED <<global, project, sess, screen, granted, denied>>
    BY DEF Ask, files, said
  <1>2. prompt' = [prompt EXCEPT ![s] = <<[cmd |-> cmd, why |-> why]>>]
    BY DEF Ask
  <1>3. [session |-> s, cmd |-> cmd] \notin denied
    BY VerdictNotDenied DEF Ask
  <1>4. NothingDeniedAsked'
    BY <1>1, <1>2, <1>3 DEF IInv, TypeOK, NothingDeniedAsked
  <1>5. QED
    BY <1>1, <1>4 DEF IInv, FilesJustified, SessionsJustified, ScreensJustified, DeniesHeld

\* An edit writes what the screen shows, less or more a rule: a revoked row is
\* one fewer to justify, a deny needs no grant.
LEMMA EditInv ==
    ASSUME IInv, NEW s \in Sessions, NEW newGlobal, NEW newProject,
           NEW okG \in BOOLEAN, NEW okP \in BOOLEAN,
           EditScreen(s, newGlobal, newProject, okG, okP),
           \A r \in newGlobal : r \in screen[s].global \/ r.scope = "deny",
           \A r \in newProject : r \in screen[s].project \/ r.scope = "deny"
    PROVE  /\ FilesJustified' /\ SessionsJustified' /\ ScreensJustified'
           /\ DeniesHeld' /\ NothingDeniedAsked'
  <1>1. UNCHANGED <<sess, prompt, granted, denied>>
    BY DEF EditScreen
  <1>2. GlobalJustified(newGlobal, granted) /\ ProjectJustified(newProject, sess[s].project, granted)
    BY DEF IInv, ScreensJustified, GlobalJustified, ProjectJustified
  <1>3. FilesJustified'
    <2>1. /\ GlobalJustified(Persistent(newGlobal), granted')
          /\ ProjectJustified(Persistent(newProject), sess[s].project, granted')
      BY <1>1, <1>2 DEF Persistent, GlobalJustified, ProjectJustified
    <2>2. WriteFiles(sess[s].project, Persistent(newGlobal), Persistent(newProject), okG, okP)
      BY DEF EditScreen
    <2>3. sess[s].project \in Projects
      BY SessionParts DEF IInv
    <2>4. QED
      BY <1>1, <2>1, <2>2, <2>3, WriteJustified DEF IInv
  <1>4. ScreensJustified'
    <2>1. screen' = [screen EXCEPT ![s] = Shown(newGlobal, newProject)]
      BY DEF EditScreen
    <2>2. QED
      BY <1>1, <1>2, <2>1 DEF IInv, TypeOK, ScreensJustified, Shown
  <1>5. QED
    BY <1>1, <1>3, <1>4 DEF IInv, SessionsJustified, DeniesHeld, NothingDeniedAsked

LEMMA OpenInv ==
    ASSUME IInv, NEW s \in Sessions, OpenScreen(s)
    PROVE  /\ FilesJustified' /\ SessionsJustified' /\ ScreensJustified'
           /\ DeniesHeld' /\ NothingDeniedAsked'
  <1>1. UNCHANGED <<global, project, sess, prompt, granted, denied>>
    BY DEF OpenScreen, files, said
  <1>2. ScreensJustified'
    <2>1. PICK view : /\ screen' = [screen EXCEPT ![s] = view]
                      /\ GlobalJustified(view.global, granted)
                      /\ ProjectJustified(view.project, sess[s].project, granted)
      <3>1. /\ GlobalJustified(Persistent(global), granted)
            /\ ProjectJustified(Persistent(project[sess[s].project]), sess[s].project, granted)
        BY SessionParts DEF IInv, FilesJustified, Persistent, GlobalJustified, ProjectJustified
      <3>2. /\ GlobalJustified({}, granted)
            /\ ProjectJustified({}, sess[s].project, granted)
        BY DEF GlobalJustified, ProjectJustified
      <3> DEFINE full == Shown(Persistent(global), Persistent(project[sess[s].project]))
                 readable == {GlobalFile, sess[s].project} \intersect unreadable = {}
      <3>3. screen' = [screen EXCEPT ![s] = IF readable THEN full ELSE Shown({}, {})]
        BY DEF OpenScreen
      <3>4. /\ full.global = Persistent(global)
            /\ full.project = Persistent(project[sess[s].project])
            /\ Shown({}, {}).global = {} /\ Shown({}, {}).project = {}
        BY DEF Shown
      <3> HIDE DEF full, readable
      <3>5. CASE readable
        BY <3>1, <3>3, <3>4, <3>5
      <3>6. CASE ~readable
        BY <3>2, <3>3, <3>4, <3>6
      <3>7. QED
        BY <3>5, <3>6
    <2>2. QED
      BY <1>1, <2>1 DEF IInv, TypeOK, ScreensJustified
  <1>3. QED
    BY <1>1, <1>2 DEF IInv, FilesJustified, SessionsJustified, DeniesHeld, NothingDeniedAsked

LEMMA NextInv == ASSUME IInv, [Next]_vars PROVE IInv'
  <1> DEFINE Rest == /\ FilesJustified /\ SessionsJustified /\ ScreensJustified
                     /\ DeniesHeld /\ NothingDeniedAsked
  <1>1. TypeOK'
    BY NextType DEF IInv
  <1>2. Rest'
    <2>1. ASSUME UNCHANGED <<global, project, sess, prompt, screen, granted, denied>>
          PROVE  Rest'
      BY <2>1 DEF IInv, FilesJustified, SessionsJustified, ScreensJustified, DeniesHeld,
                  NothingDeniedAsked
    <2>2. CASE UNCHANGED vars
      BY <2>1, <2>2 DEF vars, files
    <2>3. ASSUME NEW s \in Sessions, NEW p \in Projects, Start(s, p) PROVE Rest'
      BY <2>3, StartInv
    <2>4. ASSUME NEW f \in Projects \union {GlobalFile}, Break(f) PROVE Rest'
      BY <2>1, <2>4 DEF Break, said
    <2>5. ASSUME NEW s \in Sessions, NEW cmd \in Commands, RunAllowed(s, cmd) PROVE Rest'
      BY <2>1, <2>5 DEF RunAllowed, said, files
    <2>6. ASSUME NEW s \in Sessions, NEW cmd \in Commands, NEW why \in {"approval", "hidden"},
                 Ask(s, cmd, why)
          PROVE  Rest'
      BY <2>6, AskInv
    <2>7. ASSUME NEW s \in Sessions, NEW cmd \in Commands, AllowOnce(s, cmd) \/ DenyOnce(s, cmd)
          PROVE  Rest'
      <3>1. UNCHANGED <<global, project, sess, screen, granted, denied>> /\ Answering(s, cmd)
        BY <2>7 DEF AllowOnce, DenyOnce, Answering, files
      <3>2. NothingDeniedAsked'
        BY <3>1, AnswerKeepsPrompts
      <3>3. QED
        BY <3>1, <3>2 DEF IInv, FilesJustified, SessionsJustified, ScreensJustified, DeniesHeld
    <2>8. ASSUME NEW s \in Sessions, NEW cmd \in Commands, DenySession(s, cmd) PROVE Rest'
      BY <2>8, DenySessionInv
    <2>9. ASSUME NEW s \in Sessions, NEW cmd \in Commands, NEW okG \in BOOLEAN, NEW okP \in BOOLEAN,
                 NEW scope \in Scopes \ {"deny"}, NEW wildcard \in BOOLEAN,
                 AllowFor(s, cmd, scope, wildcard, okG, okP)
          PROVE  Rest'
      BY <2>9, AllowForInv
    <2>10. ASSUME NEW s \in Sessions, NEW cmd \in Commands, NEW okG \in BOOLEAN, NEW okP \in BOOLEAN,
                  DenyProject(s, cmd, okG, okP)
           PROVE  Rest'
      BY <2>10, DenyProjectInv
    <2>11. ASSUME NEW s \in Sessions, OpenScreen(s) PROVE Rest'
      BY <2>11, OpenInv
    <2>12. ASSUME NEW s \in Sessions, NEW okG \in BOOLEAN, NEW okP \in BOOLEAN,
                  NEW r \in screen[s].global, RevokeGlobal(s, r, okG, okP)
           PROVE  Rest'
      <3>1. EditScreen(s, screen[s].global \ {r}, screen[s].project, okG, okP)
        BY <2>12 DEF RevokeGlobal
      <3>2. QED
        BY <3>1, EditInv
    <2>13. ASSUME NEW s \in Sessions, NEW okG \in BOOLEAN, NEW okP \in BOOLEAN,
                  NEW r \in screen[s].project, RevokeProject(s, r, okG, okP)
           PROVE  Rest'
      <3>1. EditScreen(s, screen[s].global, screen[s].project \ {r}, okG, okP)
        BY <2>13 DEF RevokeProject
      <3>2. QED
        BY <3>1, EditInv
    <2>14. ASSUME NEW s \in Sessions, NEW okG \in BOOLEAN, NEW okP \in BOOLEAN,
                  NEW pattern \in Patterns, AddDeny(s, pattern, okG, okP)
           PROVE  Rest'
      <3>1. EditScreen(s, screen[s].global, screen[s].project \union {DenyOf(pattern)}, okG, okP)
        BY <2>14 DEF AddDeny
      <3>2. DenyOf(pattern).scope = "deny"
        BY DEF DenyOf, Rule
      <3>3. QED
        BY <3>1, <3>2, EditInv
    <2>15. QED
      BY <2>2, <2>3, <2>4, <2>5, <2>6, <2>7, <2>8, <2>9, <2>10, <2>11, <2>12, <2>13, <2>14 DEF Next
  <1>3. QED
    BY <1>1, <1>2 DEF IInv

THEOREM Inductive == Spec => []IInv
  BY InitInv, NextInv, PTL DEF Spec

-----------------------------------------------------------------------------
(* Permissions implements UserPolicy.                                      *)

HomeOf == [s \in Sessions |-> sess[s].project]

\* The policy's commands and patterns are these.
LEMMA SameCommands ==
    /\ Policy!Commands = Commands /\ Policy!Patterns = Patterns
    /\ \A cmd \in Commands :
          /\ Policy!IsDangerous(cmd) <=> IsDangerous(cmd)
          /\ Policy!NamesHidden(cmd) <=> NamesHidden(cmd)
          /\ Policy!Widened(cmd) = Widened(cmd)
          /\ \A pattern \in Patterns : Policy!Matches(pattern, cmd) <=> Matches(pattern, cmd)
  BY DEF Policy!Commands, Commands, Policy!Patterns, Patterns, Policy!Star, Star,
         Policy!IsDangerous, IsDangerous, Policy!NamesHidden, NamesHidden,
         Policy!Widened, Widened, Policy!Matches, Matches

\* The policy's `Covered`: an allowed command is covered by a grant that reaches
\* the session, whatever file or session the granting rule came from.
LEMMA AllowedIsCovered ==
    ASSUME IInv, NEW s \in Sessions, NEW cmd \in Commands, Verdict(s, cmd) = "allow"
    PROVE  Policy!Covered(s, cmd) /\ ~IsDangerous(cmd)
  <1>1. Matching(s, cmd) # {} /\ ~IsDangerous(cmd) /\ Denies(Matching(s, cmd)) = {}
    BY DEF Verdict
  <1>2. PICK r \in sess[s].rules : Matches(r.pattern, cmd) /\ r.scope # "deny"
    BY <1>1 DEF Matching, Denies
  <1>3. r.scope \in {"session", "project", "always"}
    BY <1>2, SessionParts DEF IInv, Rules, Scopes
  <1>4. \/ Entry(r.pattern, s) \in granted
        \/ Entry(r.pattern, sess[s].project) \in granted
        \/ Entry(r.pattern, "everywhere") \in granted
    BY <1>2, <1>3 DEF IInv, SessionsJustified, SessionJustified, GlobalJustified, ProjectJustified
  <1>5. PICK where \in {s, sess[s].project, "everywhere"} : Entry(r.pattern, where) \in granted
    BY <1>4
  <1>6. Entry(r.pattern, where).pattern = r.pattern /\ Entry(r.pattern, where).in = where
    BY DEF Entry
  <1>7. Policy!Matches(r.pattern, cmd)
    BY <1>2, SessionParts, SameCommands DEF IInv, Rules
  <1>8. QED
    BY <1>1, <1>5, <1>6, <1>7 DEF Policy!Covered, Policy!Everywhere

\* An answered prompt was about something not denied.
LEMMA AskedMayRun ==
    ASSUME IInv, NEW s \in Sessions, NEW cmd \in Commands, Answering(s, cmd)
    PROVE  Policy!MayRun(s, cmd)
  BY DEF IInv, NothingDeniedAsked, Answering, Policy!MayRun

LEMMA QuietStep ==
    ASSUME UNCHANGED <<HomeOf, granted, denied>>, ran' = <<>>
    PROVE  Policy!PolicyNext
  BY DEF HomeOf, Policy!PolicyNext, Policy!Quiet

LEMMA NextImplements == ASSUME IInv, [Next]_vars PROVE [Policy!PolicyNext]_(Policy!policy)
  <1> USE DEF HomeOf
  <1>1. CASE UNCHANGED vars
    BY <1>1 DEF vars, Policy!policy
  <1>2. ASSUME NEW s \in Sessions, NEW p \in Projects, Start(s, p) PROVE Policy!PolicyNext
    <2>1. HomeOf' = [HomeOf EXCEPT ![s] = p]
      BY <1>2 DEF Start, IInv, TypeOK, NewSession
    <2>2. Policy!Begin(s, p)
      BY <1>2, <2>1 DEF Start, Policy!Begin
    <2>3. QED
      BY <2>2 DEF Policy!PolicyNext
  <1>3. ASSUME NEW f \in Projects \union {GlobalFile}, Break(f) PROVE Policy!PolicyNext
    BY <1>3, QuietStep DEF Break, said
  <1>4. ASSUME NEW s \in Sessions, NEW cmd \in Commands, RunAllowed(s, cmd)
        PROVE  Policy!PolicyNext
    <2>1. /\ Verdict(s, cmd) = "allow" /\ ~NamesHidden(cmd)
          /\ ran' = <<s, cmd, "unasked">> /\ UNCHANGED <<sess, granted, denied>>
      BY <1>4 DEF RunAllowed, said
    <2>2. Policy!MayRun(s, cmd)
      BY <2>1, VerdictNotDenied DEF Policy!MayRun
    <2>3. Policy!RunUnasked(s, cmd)
      BY <2>1, <2>2, AllowedIsCovered, SameCommands DEF Policy!RunUnasked
    <2>4. QED
      BY <2>3, SameCommands DEF Policy!PolicyNext
  <1>5. ASSUME NEW s \in Sessions, NEW cmd \in Commands, NEW why \in {"approval", "hidden"},
               Ask(s, cmd, why)
        PROVE  Policy!PolicyNext
    BY <1>5, QuietStep DEF Ask, said
  <1>6. ASSUME NEW s \in Sessions, NEW cmd \in Commands, AllowOnce(s, cmd)
        PROVE  Policy!PolicyNext
    <2>1. Policy!Approve(s, cmd)
      BY <1>6, AskedMayRun DEF AllowOnce, Policy!Approve
    <2>2. QED
      BY <2>1, SameCommands DEF Policy!PolicyNext
  <1>7. ASSUME NEW s \in Sessions, NEW cmd \in Commands, DenyOnce(s, cmd)
        PROVE  Policy!PolicyNext
    BY <1>7, QuietStep DEF DenyOnce
  <1>8. ASSUME NEW s \in Sessions, NEW cmd \in Commands, DenySession(s, cmd)
        PROVE  Policy!PolicyNext
    <2>1. sess' = [sess EXCEPT ![s].denies = sess[s].denies \union {cmd}]
      BY <1>8 DEF DenySession
    <2>2. sess[s].denies \union {cmd} \in SUBSET Commands
      BY SessionParts DEF IInv
    <2>3. \A q \in Sessions : sess'[q].project = sess[q].project
      BY <2>1, <2>2, ChangedDenies DEF IInv, TypeOK
    <2>4. Policy!Refuse(s, cmd, TRUE)
      BY <1>8, <2>3 DEF DenySession, Policy!Refuse
    <2>5. QED
      BY <2>4, SameCommands DEF Policy!PolicyNext
  <1>9. ASSUME NEW s \in Sessions, NEW cmd \in Commands, NEW okG \in BOOLEAN, NEW okP \in BOOLEAN,
               NEW scope \in Scopes \ {"deny"}, NEW wildcard \in BOOLEAN,
               AllowFor(s, cmd, scope, wildcard, okG, okP)
        PROVE  Policy!PolicyNext
    <2> DEFINE pattern == IF wildcard THEN Widened(cmd) ELSE cmd
               rules == sess[s].rules \union {Rule(pattern, scope)}
    <2>1. /\ Answering(s, cmd) /\ ~IsDangerous(cmd) /\ denied' = denied
          /\ granted' = granted \union {Entry(pattern, Reach(s, scope))}
          /\ sess' = [sess EXCEPT ![s].rules = rules]
          /\ ran' = <<s, cmd, "asked">>
      BY <1>9 DEF AllowFor, Entry
    <2>2. pattern \in Patterns /\ pattern \in {cmd, Widened(cmd)}
      BY CommandsArePatterns
    <2>3. Reach(s, scope) \in {s, sess[s].project, "everywhere"} /\ sess[s].project \in Projects
      BY SessionParts DEF IInv, Reach, Scopes
    <2>4. Entry(pattern, Reach(s, scope)) \in Policy!Grants
      BY <2>2, <2>3, SameCommands DEF Entry, Policy!Grants, Policy!Everywhere
    <2>5. rules \in SUBSET Rules
      BY <2>2, SessionParts DEF IInv, Rules, Rule
    <2> HIDE DEF rules, pattern
    <2>6. \A q \in Sessions : sess'[q].project = sess[q].project
      BY <2>1, <2>5, ChangedRules DEF IInv, TypeOK
    <2>7. Policy!Grant(s, cmd, Entry(pattern, Reach(s, scope)))
      <3>1. Entry(pattern, Reach(s, scope)).pattern = pattern
            /\ Entry(pattern, Reach(s, scope)).in = Reach(s, scope)
        BY DEF Entry
      <3>2. QED
        BY <2>1, <2>2, <2>3, <2>6, <3>1, AskedMayRun, SameCommands DEF Policy!Grant, Policy!Everywhere
    <2>8. QED
      BY <2>4, <2>7, SameCommands DEF Policy!PolicyNext
  <1>10. ASSUME NEW s \in Sessions, NEW cmd \in Commands, NEW okG \in BOOLEAN, NEW okP \in BOOLEAN,
                DenyProject(s, cmd, okG, okP)
         PROVE  Policy!PolicyNext
    <2> DEFINE rules == sess[s].rules \union {DenyOf(cmd)}
    <2>1. sess' = [sess EXCEPT ![s].rules = rules]
      BY <1>10 DEF DenyProject
    <2>2. rules \in SUBSET Rules
      BY CommandsArePatterns, SessionParts DEF IInv, Rules, Scopes, Rule, DenyOf
    <2> HIDE DEF rules
    <2>3. \A q \in Sessions : sess'[q].project = sess[q].project
      BY <2>1, <2>2, ChangedRules DEF IInv, TypeOK
    <2>4. Policy!Refuse(s, cmd, TRUE)
      BY <1>10, <2>3 DEF DenyProject, Policy!Refuse
    <2>5. QED
      BY <2>4, SameCommands DEF Policy!PolicyNext
  <1>11. ASSUME NEW s \in Sessions, OpenScreen(s) PROVE Policy!PolicyNext
    BY <1>11, QuietStep DEF OpenScreen, said
  <1>12. ASSUME NEW s \in Sessions, NEW newGlobal, NEW newProject,
                NEW okG \in BOOLEAN, NEW okP \in BOOLEAN,
                EditScreen(s, newGlobal, newProject, okG, okP)
         PROVE  Policy!PolicyNext
    BY <1>12, QuietStep DEF EditScreen
  <1>13. ASSUME NEW s \in Sessions, NEW okG \in BOOLEAN, NEW okP \in BOOLEAN,
                \/ \E r \in screen[s].global : RevokeGlobal(s, r, okG, okP)
                \/ \E r \in screen[s].project : RevokeProject(s, r, okG, okP)
                \/ \E pattern \in Patterns : AddDeny(s, pattern, okG, okP)
         PROVE  Policy!PolicyNext
    BY <1>12, <1>13 DEF RevokeGlobal, RevokeProject, AddDeny
  <1>14. QED
    BY <1>1, <1>2, <1>3, <1>4, <1>5, <1>6, <1>7, <1>8, <1>9, <1>10, <1>11, <1>13 DEF Next

LEMMA InitImplements == ASSUME Init PROVE Policy!PolicyInit
  BY DEF Init, NewSession, Policy!PolicyInit

\* Whatever is saved, lost, broken or rewritten from a stale copy, by any number
\* of sessions, nothing runs unasked that the user has not allowed there, and
\* nothing that the user has denied in the session.
THEOREM PolicyImplemented == Spec => PolicyHolds
  <1>1. Init => Policy!PolicyInit
    BY InitImplements
  <1>2. IInv /\ [Next]_vars => [Policy!PolicyNext]_(Policy!policy)
    BY NextImplements
  <1>3. QED
    BY <1>1, <1>2, Inductive, PTL DEF Spec, PolicyHolds, Policy!PolicySpec

-----------------------------------------------------------------------------
(* The denies of the global file.                                          *)

AtHome(pattern, p, asked, gone, broken) ==
    \/ [pattern |-> pattern, project |-> p] \in asked
    \/ pattern \in HandDenies /\ (pattern \in gone \/ broken)

\* Nothing is broken before something was broken, and until then an open screen
\* shows every deny that was not revoked.
Intact ==
    ~spent.broken =>
        /\ unreadable = {}
        /\ \A p \in HandDenies \ revoked : \A s \in Sessions :
              screen[s].open => DenyOf(p) \in screen[s].global

\* Where a deny can come from, in each copy of it.
DenyOrigins ==
    /\ \A r \in Denies(global) : r.pattern \in HandDenies
    /\ \A s \in Sessions :
          /\ \A r \in Denies(screen[s].global) : r.pattern \in HandDenies
          /\ \A r \in Denies(screen[s].project) :
                AtHome(r.pattern, sess[s].project, given, revoked, spent.broken)
          /\ \A r \in Denies(sess[s].rules) :
                \/ r.pattern \in HandDenies
                \/ [pattern |-> r.pattern, project |-> sess[s].project] \in given

HInv == TypeOK /\ Intact /\ HandDeniesKept /\ DenyOrigins /\ DeniesStayHome

LEMMA StaysHome ==
    DeniesStayHome <=>
        \A p \in Projects : \A r \in Denies(project[p]) :
            AtHome(r.pattern, p, given, revoked, spent.broken)
  BY DEF DeniesStayHome, AtHome

LEMMA InitHInv == ASSUME Init PROVE HInv
  <1>1. TypeOK
    BY InitType
  <1>2. unreadable = {} /\ \A s \in Sessions : screen[s] = ClosedScreen
    BY DEF Init
  <1>3. Intact
    BY <1>2 DEF Intact, ClosedScreen
  <1>4. \A s \in Sessions : sess[s].rules = global
    <2>1. \A p \in Projects : Loaded(p) = global
      BY <1>2 DEF Init, Loaded, Persistent, DenyOf, Rule
    <2>2. QED
      BY <2>1 DEF Init, NewSession
  <1>5. HandDeniesKept
    BY <1>4 DEF Init, HandDeniesKept
  <1>6. \A r \in global : r.pattern \in HandDenies
    BY DEF Init, DenyOf, Rule
  <1>7. DenyOrigins
    BY <1>2, <1>4, <1>6 DEF DenyOrigins, Denies, ClosedScreen
  <1>8. DeniesStayHome
    BY DEF Init, DeniesStayHome, Denies
  <1>9. QED
    BY <1>1, <1>3, <1>5, <1>7, <1>8 DEF HInv

\* Denies are given, revoked and broken for good: what is at home stays so.
LEMMA HomeGrows ==
    ASSUME given \subseteq given', revoked \subseteq revoked', spent.broken => spent'.broken,
           NEW pattern, NEW p, AtHome(pattern, p, given, revoked, spent.broken)
    PROVE  AtHome(pattern, p, given', revoked', spent'.broken)
  BY DEF AtHome

\* A step that saves a session's rules: the denies found in the global file stay,
\* and of the session's denies only those not found there go to the project.
LEMMA SaveHInv ==
    ASSUME HInv, NEW s \in Sessions, NEW rules \in SUBSET Rules,
           NEW okG \in BOOLEAN, NEW okP \in BOOLEAN,
           Save(sess[s].project, rules, okG, okP), sess' = [sess EXCEPT ![s].rules = rules],
           UNCHANGED <<screen, revoked>>, given \subseteq given',
           sess[s].rules \subseteq rules,
           \A r \in Denies(rules) : r.pattern \in HandDenies
               \/ [pattern |-> r.pattern, project |-> sess[s].project] \in given'
    PROVE  Intact' /\ HandDeniesKept' /\ DenyOrigins' /\ DeniesStayHome'
  <1> DEFINE p == sess[s].project
  <1>1. p \in Projects
    BY SessionParts DEF HInv
  <1>2. /\ sess'[s].rules = rules /\ \A q \in Sessions \ {s} : sess'[q] = sess[q]
        /\ \A q \in Sessions : sess'[q].project = sess[q].project
    BY ChangedRules DEF HInv, TypeOK
  <1>3. WriteFiles(p, GlobalToSave(rules), ProjectToSave(rules), okG, okP)
        /\ spent'.broken = spent.broken
    BY DEF Save, Event, HInv, TypeOK, Spending
  <1>4. unreadable' \subseteq unreadable
    BY <1>3 DEF WriteFiles
  <1>5. Intact'
    BY <1>3, <1>4 DEF HInv, Intact
  <1>6. Denies(global') \subseteq Denies(global)
        /\ (~spent.broken => Denies(global) \subseteq global')
    <2>1. ~spent.broken => Existing = global
      BY DEF HInv, Intact, Existing
    <2>2. Denies(GlobalToSave(rules)) = Denies(Existing) /\ Denies(Existing) \subseteq Denies(global)
      BY DEF GlobalToSave, Denies, Existing
    <2>3. Denies(Existing) \subseteq GlobalToSave(rules)
      BY DEF GlobalToSave
    <2>4. global' = GlobalToSave(rules) \/ global' = global
      BY <1>3 DEF WriteFiles
    <2>5. Denies(global) \subseteq global
      BY DEF Denies
    <2>6. QED
      BY <2>1, <2>2, <2>3, <2>4, <2>5
  <1>7. HandDeniesKept'
    <2> SUFFICES ASSUME ~spent.broken, NEW h \in HandDenies \ revoked
                 PROVE  DenyOf(h) \in global' /\ \A q \in Sessions : DenyOf(h) \in sess'[q].rules
      BY <1>3 DEF HandDeniesKept
    <2>1. DenyOf(h) \in Denies(global) /\ \A q \in Sessions : DenyOf(h) \in sess[q].rules
      BY DEF HInv, HandDeniesKept, Denies, DenyOf, Rule
    <2>2. QED
      BY <1>2, <1>6, <2>1
  <1>8. DenyOrigins'
    <2>1. \A q \in Sessions : \A r \in Denies(screen[q].project) :
           AtHome(r.pattern, sess[q].project, given', revoked', spent'.broken)
      BY <1>2, <1>3, HomeGrows DEF HInv, DenyOrigins
    <2>2. QED
      BY <1>2, <1>6, <2>1 DEF HInv, DenyOrigins
  <1>9. DeniesStayHome'
    <2> SUFFICES ASSUME NEW q \in Projects, NEW r \in Denies(project'[q])
                 PROVE  AtHome(r.pattern, q, given', revoked', spent'.broken)
      BY DEF DeniesStayHome, AtHome
    <2>1. CASE r \in Denies(project[q])
      BY <1>3, <2>1, HomeGrows, StaysHome DEF HInv
    <2>2. CASE r \notin Denies(project[q])
      <3>1. q = p /\ r \in ProjectToSave(rules) /\ r.scope = "deny"
        BY <1>1, <1>3, <2>2 DEF WriteFiles, Denies, HInv, TypeOK
      <3>2. r \in Denies(rules) /\ r \notin Existing
        BY <3>1 DEF ProjectToSave, Denies
      <3>3. CASE [pattern |-> r.pattern, project |-> p] \in given'
        BY <3>1, <3>3 DEF AtHome
      <3>4. CASE r.pattern \in HandDenies
        <4>1. r = DenyOf(r.pattern)
          BY <3>1, <3>2 DEF Denies, DenyOf, Rule, Rules
        <4>2. spent.broken \/ r.pattern \in revoked
          BY <3>2, <3>4, <4>1 DEF HInv, Intact, HandDeniesKept, Existing
        <4>3. QED
          BY <1>3, <3>4, <4>2 DEF AtHome
      <3>5. QED
        BY <3>2, <3>3, <3>4
    <2>3. QED
      BY <2>1, <2>2
  <1>10. QED
    BY <1>5, <1>7, <1>8, <1>9

\* A step that writes a screen: a row is gone only if it was revoked, and a deny
\* is new in the project only if it was given.
LEMMA EditHInv ==
    ASSUME HInv, NEW s \in Sessions,
           NEW newGlobal \in SUBSET GlobalRules, NEW newProject \in SUBSET ProjectRules,
           NEW okG \in BOOLEAN, NEW okP \in BOOLEAN,
           EditScreen(s, newGlobal, newProject, okG, okP),
           given \subseteq given', revoked \subseteq revoked',
           newGlobal \subseteq screen[s].global,
           \A r \in screen[s].global \ newGlobal : r.scope = "deny" => r.pattern \in revoked',
           \A r \in Denies(newProject) : r \in screen[s].project
               \/ [pattern |-> r.pattern, project |-> sess[s].project] \in given'
    PROVE  Intact' /\ HandDeniesKept' /\ DenyOrigins' /\ DeniesStayHome'
  <1> DEFINE p == sess[s].project
  <1>1. p \in Projects
    BY SessionParts DEF HInv
  <1>2. /\ screen[s].open
        /\ screen' = [screen EXCEPT ![s] = Shown(newGlobal, newProject)]
        /\ WriteFiles(p, Persistent(newGlobal), Persistent(newProject), okG, okP)
        /\ UNCHANGED <<sess, denied>>
    BY DEF EditScreen
  <1>3. spent'.broken = spent.broken
    BY DEF EditScreen, Event, HInv, TypeOK, Spending
  <1>4. /\ screen'[s].global = newGlobal /\ screen'[s].project = newProject
        /\ \A q \in Sessions \ {s} : screen'[q] = screen[q]
    BY <1>2 DEF HInv, TypeOK, Shown
  <1>5. \A h \in HandDenies \ revoked' : ~spent.broken => DenyOf(h) \in newGlobal
    <2> SUFFICES ASSUME NEW h \in HandDenies \ revoked', ~spent.broken
                 PROVE  DenyOf(h) \in newGlobal
      OBVIOUS
    <2>1. DenyOf(h) \in screen[s].global
      BY <1>2 DEF HInv, Intact
    <2>2. DenyOf(h).scope = "deny" /\ DenyOf(h).pattern = h
      BY DEF DenyOf, Rule
    <2>3. QED
      BY <2>1, <2>2
  <1>6. Intact'
    <2>1. unreadable' \subseteq unreadable
      BY <1>2 DEF WriteFiles
    <2>2. QED
      BY <1>2, <1>3, <1>4, <1>5, <2>1 DEF HInv, Intact
  <1>7. HandDeniesKept'
    <2> SUFFICES ASSUME ~spent.broken, NEW h \in HandDenies \ revoked'
                 PROVE  DenyOf(h) \in global' /\ \A q \in Sessions : DenyOf(h) \in sess'[q].rules
      BY <1>3 DEF HandDeniesKept
    <2>1. DenyOf(h) \in global /\ \A q \in Sessions : DenyOf(h) \in sess[q].rules
      BY DEF HInv, HandDeniesKept
    <2>2. DenyOf(h) \in Persistent(newGlobal)
      BY <1>5 DEF Persistent, DenyOf, Rule
    <2>3. QED
      BY <1>2, <2>1, <2>2 DEF WriteFiles
  <1>8. \A r \in Denies(newProject) : AtHome(r.pattern, p, given', revoked', spent'.broken)
    <2> SUFFICES ASSUME NEW r \in Denies(newProject)
                 PROVE  AtHome(r.pattern, p, given', revoked', spent'.broken)
      OBVIOUS
    <2>1. CASE r \in screen[s].project
      <3>1. AtHome(r.pattern, p, given, revoked, spent.broken)
        BY <2>1 DEF HInv, DenyOrigins, Denies
      <3>2. QED
        BY <1>3, <3>1, HomeGrows
    <2>2. CASE [pattern |-> r.pattern, project |-> p] \in given'
      BY <2>2 DEF AtHome
    <2>3. QED
      BY <2>1, <2>2
  <1>9. DenyOrigins'
    <2>1. \A r \in Denies(global') : r.pattern \in HandDenies
      BY <1>2 DEF HInv, DenyOrigins, WriteFiles, Persistent, Denies
    <2>2. \A q \in Sessions : \A r \in Denies(screen'[q].global) : r.pattern \in HandDenies
      BY <1>4 DEF HInv, DenyOrigins, Denies
    <2>3. \A q \in Sessions : \A r \in Denies(screen'[q].project) :
           AtHome(r.pattern, sess[q].project, given', revoked', spent'.broken)
      BY <1>2, <1>3, <1>4, <1>8, HomeGrows DEF HInv, DenyOrigins
    <2>4. QED
      BY <1>2, <2>1, <2>2, <2>3 DEF HInv, DenyOrigins
  <1>10. DeniesStayHome'
    <2> SUFFICES ASSUME NEW q \in Projects, NEW r \in Denies(project'[q])
                 PROVE  AtHome(r.pattern, q, given', revoked', spent'.broken)
      BY DEF DeniesStayHome, AtHome
    <2>1. CASE r \in Denies(project[q])
      BY <1>3, <2>1, HomeGrows, StaysHome DEF HInv
    <2>2. CASE r \notin Denies(project[q])
      <3>1. q = p /\ r \in Denies(newProject)
        BY <1>1, <1>2, <2>2 DEF WriteFiles, Denies, Persistent, HInv, TypeOK
      <3>2. QED
        BY <1>8, <3>1
    <2>3. QED
      BY <2>1, <2>2
  <1>11. QED
    BY <1>6, <1>7, <1>9, <1>10

\* A step that reads the files: what is read intact holds every deny, and a
\* project's denies are at home there.
LEMMA StartHInv ==
    ASSUME HInv, NEW s \in Sessions, NEW p \in Projects, Start(s, p)
    PROVE  Intact' /\ HandDeniesKept' /\ DenyOrigins' /\ DeniesStayHome'
  <1>1. /\ UNCHANGED <<global, project, unreadable, given, revoked>>
        /\ spent'.broken = spent.broken
    BY DEF Start, files, Event, HInv, TypeOK, Spending
  <1>2. /\ sess'[s] = NewSession(p) /\ \A q \in Sessions \ {s} : sess'[q] = sess[q]
        /\ screen'[s] = ClosedScreen /\ \A q \in Sessions \ {s} : screen'[q] = screen[q]
    BY DEF Start, HInv, TypeOK
  <1>3. sess'[s].rules = Loaded(p) /\ sess'[s].project = p
    BY <1>2 DEF NewSession
  <1>4. Intact'
    BY <1>1, <1>2 DEF HInv, Intact, ClosedScreen
  <1>5. HandDeniesKept'
    <2> SUFFICES ASSUME ~spent.broken, NEW h \in HandDenies \ revoked
                 PROVE  DenyOf(h) \in global /\ \A q \in Sessions : DenyOf(h) \in sess'[q].rules
      BY <1>1 DEF HandDeniesKept
    <2>1. DenyOf(h) \in global /\ unreadable = {}
      BY DEF HInv, HandDeniesKept, Intact
    <2>2. DenyOf(h) \in Loaded(p)
      BY <2>1 DEF Loaded, Persistent, DenyOf, Rule
    <2>3. QED
      BY <1>2, <1>3, <2>1, <2>2 DEF HInv, HandDeniesKept
  <1>6. DenyOrigins'
    <2>1. \A r \in Denies(Loaded(p)) : \/ r.pattern \in HandDenies
                                       \/ [pattern |-> r.pattern, project |-> p] \in given
      <3>1. \A r \in Denies(Loaded(p)) : r \in Denies(global) \/ r \in Denies(project[p])
        BY DEF Denies, Loaded, Persistent
      <3>2. QED
        BY <3>1, StaysHome DEF HInv, DenyOrigins, AtHome
    <2>2. \A q \in Sessions : \A r \in Denies(screen'[q].project) :
           AtHome(r.pattern, sess'[q].project, given, revoked, spent.broken)
      BY <1>2 DEF HInv, DenyOrigins, ClosedScreen, Denies
    <2>3. \A q \in Sessions : \A r \in Denies(screen'[q].project) :
           AtHome(r.pattern, sess'[q].project, given', revoked', spent'.broken)
      BY <1>1, <2>2, HomeGrows
    <2>4. \A q \in Sessions : \A r \in Denies(screen'[q].global) : r.pattern \in HandDenies
      BY <1>2 DEF HInv, DenyOrigins, ClosedScreen, Denies
    <2>5. QED
      BY <1>1, <1>2, <1>3, <2>1, <2>3, <2>4 DEF HInv, DenyOrigins
  <1>7. DeniesStayHome'
    BY <1>1 DEF HInv, DeniesStayHome
  <1>8. QED
    BY <1>4, <1>5, <1>6, <1>7

LEMMA OpenHInv ==
    ASSUME HInv, NEW s \in Sessions, OpenScreen(s)
    PROVE  Intact' /\ HandDeniesKept' /\ DenyOrigins' /\ DeniesStayHome'
  <1>1. UNCHANGED <<global, project, unreadable, sess, given, revoked, spent>>
    BY DEF OpenScreen, files, said
  <1> DEFINE readable == {GlobalFile, sess[s].project} \intersect unreadable = {}
             g == IF readable THEN Persistent(global) ELSE {}
             l == IF readable THEN Persistent(project[sess[s].project]) ELSE {}
  <1>2. /\ screen' = [screen EXCEPT ![s] = Shown(g, l)]
        /\ g \subseteq global /\ l \subseteq project[sess[s].project]
        /\ ~spent.broken => Persistent(global) \subseteq g
    <2>1. ~spent.broken => readable
      BY DEF HInv, Intact
    <2>2. screen' = [screen EXCEPT ![s] = Shown(g, l)]
      <3>1. CASE readable
        BY <3>1 DEF OpenScreen
      <3>2. CASE ~readable
        BY <3>2 DEF OpenScreen
      <3>3. QED
        BY <3>1, <3>2
    <2>3. QED
      BY <2>1, <2>2 DEF Persistent
  <1> HIDE DEF readable, g, l
  <1>3. /\ screen'[s].global = g /\ screen'[s].project = l
        /\ \A q \in Sessions \ {s} : screen'[q] = screen[q]
    BY <1>2 DEF HInv, TypeOK, Shown
  <1>4. Intact'
    <2> SUFFICES ASSUME ~spent.broken, NEW h \in HandDenies \ revoked, NEW q \in Sessions,
                        screen'[q].open
                 PROVE  DenyOf(h) \in screen'[q].global
      BY <1>1 DEF HInv, Intact
    <2>1. DenyOf(h) \in Persistent(global)
      BY DEF HInv, HandDeniesKept, Persistent, DenyOf, Rule
    <2>2. QED
      BY <1>2, <1>3, <2>1 DEF HInv, Intact
  <1>5. DenyOrigins'
    <2>1. \A r \in Denies(g) : r \in Denies(global)
      BY <1>2 DEF Denies
    <2>2. \A r \in Denies(l) : r \in Denies(project[sess[s].project])
      BY <1>2 DEF Denies
    <2>3. \A r \in Denies(l) : AtHome(r.pattern, sess[s].project, given, revoked, spent.broken)
      BY <2>2, StaysHome, SessionParts DEF HInv
    <2>4. \A q \in Sessions : \A r \in Denies(screen'[q].project) :
           AtHome(r.pattern, sess[q].project, given, revoked, spent.broken)
      BY <1>3, <2>3 DEF HInv, DenyOrigins
    <2>5. \A q \in Sessions : \A r \in Denies(screen'[q].project) :
           AtHome(r.pattern, sess[q].project, given', revoked', spent'.broken)
      BY <1>1, <2>4, HomeGrows
    <2>6. \A q \in Sessions : \A r \in Denies(screen'[q].global) : r.pattern \in HandDenies
      BY <1>3, <2>1 DEF HInv, DenyOrigins
    <2>7. QED
      BY <1>1, <2>5, <2>6 DEF HInv, DenyOrigins
  <1>6. HandDeniesKept' /\ DeniesStayHome'
    BY <1>1 DEF HInv, HandDeniesKept, DeniesStayHome
  <1>7. QED
    BY <1>4, <1>5, <1>6

LEMMA NextHInv == ASSUME HInv, [Next]_vars PROVE HInv'
  <1> DEFINE Rest == Intact /\ HandDeniesKept /\ DenyOrigins /\ DeniesStayHome
  <1>1. TypeOK'
    BY NextType DEF HInv
  <1>2. Rest'
    <2>1. ASSUME UNCHANGED <<global, project, unreadable, screen, given, revoked>>,
                 \A q \in Sessions : sess'[q].project = sess[q].project,
                 \A q \in Sessions : sess[q].rules \subseteq sess'[q].rules,
                 \A q \in Sessions : Denies(sess'[q].rules) \subseteq Denies(sess[q].rules),
                 spent'.broken = spent.broken
          PROVE  Rest'
      BY <2>1 DEF HInv, Intact, HandDeniesKept, DenyOrigins, DeniesStayHome
    <2>2. \A n \in Nat : Event(n) => spent'.broken = spent.broken
      BY DEF Event, HInv, TypeOK, Spending
    <2>3. CASE UNCHANGED vars
      BY <2>1, <2>3 DEF vars, files
    <2>4. ASSUME NEW s \in Sessions, NEW p \in Projects, Start(s, p) PROVE Rest'
      BY <2>4, StartHInv
    <2>5. ASSUME NEW f \in Projects \union {GlobalFile}, Break(f) PROVE Rest'
      <3>1. /\ UNCHANGED <<global, project, sess, screen, given, revoked>>
            /\ spent'.broken
        BY <2>5 DEF Break, said
      <3>2. \A p \in Projects : \A pattern :
               AtHome(pattern, p, given, revoked, spent.broken)
                  => AtHome(pattern, p, given', revoked', spent'.broken)
        BY <3>1, HomeGrows
      <3>3. QED
        BY <3>1, <3>2, StaysHome, SessionParts
           DEF HInv, Intact, HandDeniesKept, DenyOrigins, DeniesStayHome
    <2>6. ASSUME NEW s \in Sessions, NEW cmd \in Commands,
                 \/ RunAllowed(s, cmd)
                 \/ \E why \in {"approval", "hidden"} : Ask(s, cmd, why)
                 \/ AllowOnce(s, cmd) \/ DenyOnce(s, cmd)
          PROVE  Rest'
      BY <2>1, <2>2, <2>6 DEF RunAllowed, Ask, AllowOnce, DenyOnce, Answering, files, said
    <2>7. ASSUME NEW s \in Sessions, NEW cmd \in Commands, DenySession(s, cmd) PROVE Rest'
      <3>1. sess' = [sess EXCEPT ![s].denies = sess[s].denies \union {cmd}]
        BY <2>7 DEF DenySession
      <3>2. sess[s].denies \union {cmd} \in SUBSET Commands
        BY SessionParts DEF HInv
      <3>3. \A q \in Sessions : sess'[q].project = sess[q].project /\ sess'[q].rules = sess[q].rules
        BY <3>1, <3>2, ChangedDenies DEF HInv, TypeOK
      <3>4. UNCHANGED <<global, project, unreadable, screen, given, revoked, spent>>
        BY <2>7 DEF DenySession, Answering, files
      <3>5. QED
        BY <2>1, <3>3, <3>4
    <2>8. ASSUME NEW s \in Sessions, NEW cmd \in Commands, NEW okG \in BOOLEAN, NEW okP \in BOOLEAN,
                 NEW scope \in Scopes \ {"deny"}, NEW wildcard \in BOOLEAN,
                 AllowFor(s, cmd, scope, wildcard, okG, okP)
          PROVE  Rest'
      <3> DEFINE rule == Rule(IF wildcard THEN Widened(cmd) ELSE cmd, scope)
                 rules == sess[s].rules \union {rule}
      <3>1. rules \in SUBSET Rules
        BY CommandsArePatterns, SessionParts DEF HInv, Rules, Rule
      <3>2. Denies(rules) = Denies(sess[s].rules)
        BY DEF Denies, Rule
      <3>3. /\ sess' = [sess EXCEPT ![s].rules = rules]
            /\ UNCHANGED <<screen, given, revoked>>
        BY <2>8 DEF AllowFor, Answering
      <3>4. CASE scope = "session"
        <4>1. UNCHANGED <<global, project, unreadable, spent>>
          BY <2>8, <3>4 DEF AllowFor, files
        <4> HIDE DEF rules
        <4>2. /\ sess'[s].rules = rules
              /\ \A q \in Sessions \ {s} : sess'[q] = sess[q]
              /\ \A q \in Sessions : sess'[q].project = sess[q].project
          BY <3>1, <3>3, ChangedRules DEF HInv, TypeOK
        <4>3. \A q \in Sessions : /\ sess[q].rules \subseteq sess'[q].rules
                                  /\ Denies(sess'[q].rules) \subseteq Denies(sess[q].rules)
          BY <3>2, <4>2 DEF rules
        <4>4. QED
          BY <2>1, <3>3, <4>1, <4>2, <4>3
      <3>5. CASE scope # "session"
        <4>1. Save(sess[s].project, rules, okG, okP)
          BY <2>8, <3>5 DEF AllowFor
        <4>2. \A r \in Denies(rules) : r.pattern \in HandDenies
                 \/ [pattern |-> r.pattern, project |-> sess[s].project] \in given'
          BY <3>2, <3>3 DEF HInv, DenyOrigins
        <4>3. sess[s].rules \subseteq rules
          OBVIOUS
        <4> HIDE DEF rules
        <4>4. QED
          BY <3>1, <3>3, <4>1, <4>2, <4>3, SaveHInv
      <3>6. QED
        BY <3>4, <3>5
    <2>9. ASSUME NEW s \in Sessions, NEW cmd \in Commands, NEW okG \in BOOLEAN, NEW okP \in BOOLEAN,
                 DenyProject(s, cmd, okG, okP)
          PROVE  Rest'
      <3> DEFINE rules == sess[s].rules \union {DenyOf(cmd)}
      <3>1. rules \in SUBSET Rules
        BY CommandsArePatterns, SessionParts DEF HInv, Rules, Scopes, Rule, DenyOf
      <3>2. /\ sess' = [sess EXCEPT ![s].rules = rules]
            /\ Save(sess[s].project, rules, okG, okP)
            /\ UNCHANGED <<screen, revoked>>
            /\ given' = given \union {[pattern |-> cmd, project |-> sess[s].project]}
        BY <2>9 DEF DenyProject, Answering
      <3>3. \A r \in Denies(rules) : r.pattern \in HandDenies
               \/ [pattern |-> r.pattern, project |-> sess[s].project] \in given'
        BY <3>2 DEF HInv, DenyOrigins, Denies, DenyOf, Rule
      <3>4. sess[s].rules \subseteq rules
        OBVIOUS
      <3> HIDE DEF rules
      <3>5. QED
        BY <3>1, <3>2, <3>3, <3>4, SaveHInv
    <2>10. ASSUME NEW s \in Sessions, OpenScreen(s) PROVE Rest'
      BY <2>10, OpenHInv
    <2>11. ASSUME NEW s \in Sessions, NEW okG \in BOOLEAN, NEW okP \in BOOLEAN,
                  NEW r \in screen[s].global, RevokeGlobal(s, r, okG, okP)
           PROVE  Rest'
      <3>1. /\ EditScreen(s, screen[s].global \ {r}, screen[s].project, okG, okP)
            /\ given' = given /\ revoked \subseteq revoked'
            /\ r.scope = "deny" => r.pattern \in revoked'
        BY <2>11 DEF RevokeGlobal
      <3>2. screen[s].global \ {r} \in SUBSET GlobalRules /\ screen[s].project \in SUBSET ProjectRules
        BY SessionParts DEF HInv
      <3>3. Denies(screen[s].project) \subseteq screen[s].project
        BY DEF Denies
      <3>4. QED
        BY <3>1, <3>2, <3>3, EditHInv
    <2>12. ASSUME NEW s \in Sessions, NEW okG \in BOOLEAN, NEW okP \in BOOLEAN,
                  NEW r \in screen[s].project, RevokeProject(s, r, okG, okP)
           PROVE  Rest'
      <3>1. /\ EditScreen(s, screen[s].global, screen[s].project \ {r}, okG, okP)
            /\ given' = given /\ revoked' = revoked
        BY <2>12 DEF RevokeProject
      <3>2. screen[s].global \in SUBSET GlobalRules /\ screen[s].project \ {r} \in SUBSET ProjectRules
        BY SessionParts DEF HInv
      <3>3. Denies(screen[s].project \ {r}) \subseteq screen[s].project
        BY DEF Denies
      <3>4. QED
        BY <3>1, <3>2, <3>3, EditHInv
    <2>13. ASSUME NEW s \in Sessions, NEW okG \in BOOLEAN, NEW okP \in BOOLEAN,
                  NEW pattern \in Patterns, AddDeny(s, pattern, okG, okP)
           PROVE  Rest'
      <3> DEFINE newProject == screen[s].project \union {DenyOf(pattern)}
      <3>1. /\ EditScreen(s, screen[s].global, newProject, okG, okP)
            /\ given' = given \union {[pattern |-> pattern, project |-> sess[s].project]}
            /\ revoked' = revoked
        BY <2>13 DEF AddDeny
      <3>2. screen[s].global \in SUBSET GlobalRules /\ newProject \in SUBSET ProjectRules
        BY SessionParts DEF HInv, DenyOf, Rule, ProjectRules
      <3>3. \A d \in Denies(newProject) : d \in screen[s].project
               \/ [pattern |-> d.pattern, project |-> sess[s].project] \in given'
        BY <3>1 DEF Denies, DenyOf, Rule
      <3> HIDE DEF newProject
      <3>4. QED
        BY <3>1, <3>2, <3>3, EditHInv
    <2>14. QED
      BY <2>3, <2>4, <2>5, <2>6, <2>7, <2>8, <2>9, <2>10, <2>11, <2>12, <2>13 DEF Next
  <1>3. QED
    BY <1>1, <1>2 DEF HInv

\* Until a file is broken by hand, the denies of the global file that nobody has
\* revoked stay there and bind every session, however many sessions and screens
\* save over one another.
THEOREM HandDeniesPersist == Spec => []HandDeniesKept
  <1>1. HInv => HandDeniesKept
    BY DEF HInv
  <1>2. QED
    BY <1>1, InitHInv, NextHInv, PTL DEF Spec

\* And they are not copied into the projects: what a project's file denies was
\* denied there, or had been taken out of the global file.
THEOREM DeniesNotCopied == Spec => []DeniesStayHome
  <1>1. HInv => DeniesStayHome
    BY DEF HInv
  <1>2. QED
    BY <1>1, InitHInv, NextHInv, PTL DEF Spec

-----------------------------------------------------------------------------
(* Detection: its inductive invariant.                                       *)

Entries == [caps : STRING, at : Nat] \union {Unknown}
Files == [Models -> Entries]

\* A file as somebody might have written it by this time.
FileSound(file, time) ==
    /\ file \in Files
    /\ \A m \in Models : file[m] # Unknown =>
          file[m].caps \in {Able[m], Told[m]} /\ file[m].at <= time

\* One file has every record of another, and none that is older.
Keeps(new, old) ==
    \A m \in Models : old[m] # Unknown => new[m] # Unknown /\ new[m].at >= old[m].at

Runs == [at : {"idle", "asked", "probing", "writing"}, single : BOOLEAN,
         advertised : SUBSET Models, models : Seq(Models), asked : SUBSET Nat,
         cache : Files, waiting : SUBSET Nat,
         landed : Seq([place : Nat, came : STRING \union {Unknown}]),
         needed : BOOLEAN, upset : BOOLEAN, outrun : BOOLEAN,
         before : (Files \union {Torn}) \X Nat]

\* A place whose model takes a probe, if this is what is in the file.
TakesProbe(r, i, file, time) ==
    r.models[i] \notin r.advertised /\ ~FreshAt(file, r.models[i], time)

\* Between a look at the file and its load: "needed" is what the look said.
AskedSound(r) ==
    /\ r.landed = <<>>
    /\ r.needed = \E i \in r.asked : TakesProbe(r, i, r.before[1], r.before[2])

\* While probes are made: each place waits, is probed or was known; a probe found
\* what there is to find out about the model in its place.
ProbingSound(r, time) ==
    /\ r.waiting \subseteq r.asked
    /\ \A i \in r.waiting : ~FreshAt(r.cache, r.models[i], time)
    /\ \A k \in DOMAIN r.landed :
          /\ r.landed[k].place \in r.asked
          /\ r.landed[k].came \in {Unknown, Able[r.models[r.landed[k].place]]}
    /\ \A i \in r.asked : \/ i \in r.waiting
                          \/ \E k \in DOMAIN r.landed : r.landed[k].place = i
                          \/ r.cache[r.models[i]] # Unknown
    /\ r.upset \/ r.needed = (r.waiting # {} \/ r.landed # <<>>)

\* The copy is one that may be saved; it is no older than the file, unless
\* somebody saved meanwhile.
CopySound(r, file, time) ==
    /\ FileSound(r.cache, time)
    /\ r.outrun \/ Keeps(r.cache, file)

RunSound(r, file, time) ==
    /\ r.asked \subseteq DOMAIN r.models
    /\ r.at = "asked" => AskedSound(r)
    /\ r.at = "probing" => ProbingSound(r, time)
    /\ r.at \in {"probing", "writing"} => CopySound(r, file, time)

Answers == STRING \union {Unknown}

DetectionInv ==
    /\ now \in Nat
    /\ records \in {Torn, whole} /\ FileSound(whole, now)
    /\ run \in [Detectors -> Runs]
    /\ \A d \in Detectors : RunSound(run[d], whole, now)
    /\ told \in [Detectors -> [Models -> Answers]]
    /\ \A d \in Detectors, m \in Models : told[d][m] \in {Unknown, Able[m], Told[m], Fallback}

-----------------------------------------------------------------------------
(* The file and the clock.                                                   *)

\* A file that is written whole is what load_cache finds; any other is an empty one.
LEMMA ParsedFiles ==
    ASSUME NEW f \in Files \union {Torn}
    PROVE  /\ Parsed(f) \in Files
           /\ f \in Files => f # Torn /\ Parsed(f) = f
  <1>1. NoRecords \in Files
    BY DEF NoRecords, Files, Entries
  <1>2. Torn \notin Files
    BY CapabilitiesAssumption DEF Files, Entries
  <1> QED BY <1>1, <1>2 DEF Parsed

\* An entry is no record, or one that tells what and when.
LEMMA EntryTypes ==
    ASSUME NEW f \in Files, NEW m \in Models, f[m] # Unknown
    PROVE  f[m] \in [caps : STRING, at : Nat] /\ f[m].at \in Nat /\ f[m].caps \in STRING
  <1> f[m] \in Entries BY DEF Files
  <1> f[m] \in [caps : STRING, at : Nat] BY DEF Entries
  <1> QED OBVIOUS

\* A copy is no newer than the file it was made of, and an empty one is sound.
LEMMA ParsedSound ==
    ASSUME NEW time \in Nat, NEW w, FileSound(w, time), NEW f \in {Torn, w}
    PROVE  /\ FileSound(Parsed(f), time)
           /\ f # Torn => Keeps(Parsed(f), w)
  <1> w \in Files BY DEF FileSound
  <1>1. CASE f = Torn
    <2>1. Parsed(f) = NoRecords BY <1>1 DEF Parsed
    <2>2. Parsed(f) \in Files BY <1>1, ParsedFiles
    <2>3. \A m \in Models : Parsed(f)[m] = Unknown BY <2>1 DEF NoRecords
    <2> QED BY <1>1, <2>2, <2>3 DEF FileSound
  <1>2. CASE f = w
    <2>1. Parsed(f) = w BY <1>2, ParsedFiles
    <2>2. \A m \in Models : w[m] # Unknown => w[m].at \in Nat BY EntryTypes
    <2> QED BY <2>1, <2>2 DEF FileSound, Keeps
  <1> QED BY <1>1, <1>2

\* What is stale stays so, and what was sound is.
LEMMA Later ==
    ASSUME NEW r \in Runs, NEW f, NEW time \in Nat, NEW after \in Nat, time <= after,
           RunSound(r, f, time)
    PROVE  RunSound(r, f, after)
  <1>1. ASSUME NEW g, FileSound(g, time) PROVE FileSound(g, after)
    <2>1. ASSUME NEW m \in Models, g[m] # Unknown PROVE g[m].at <= after
      <3>1. g[m].at \in Nat /\ g[m].at <= time BY <1>1, <2>1, EntryTypes DEF FileSound
      <3> QED BY <3>1
    <2> QED BY <1>1, <2>1 DEF FileSound
  <1>2. ASSUME r.at = "probing" PROVE ProbingSound(r, after)
    <2>1. ProbingSound(r, time) BY <1>2 DEF RunSound
    <2>2. r.cache \in Files /\ r.models \in Seq(Models) /\ r.asked \subseteq DOMAIN r.models
      BY DEF Runs, RunSound
    <2>3. Parsed(r.cache) = r.cache BY <2>2, ParsedFiles
    <2>4. ASSUME NEW i \in r.waiting PROVE ~FreshAt(r.cache, r.models[i], after)
      <3>1. r.models[i] \in Models BY <2>1, <2>2 DEF ProbingSound
      <3>2. ~FreshAt(r.cache, r.models[i], time) BY <2>1 DEF ProbingSound
      <3>3. CASE r.cache[r.models[i]] = Unknown BY <2>3, <3>3 DEF FreshAt
      <3>4. CASE r.cache[r.models[i]] # Unknown
        <4>1. r.cache[r.models[i]].at \in Nat BY <2>2, <3>1, <3>4, EntryTypes
        <4>2. ~(time - r.cache[r.models[i]].at < Ttl) BY <2>3, <3>2, <3>4 DEF FreshAt
        <4>3. Ttl \in Nat BY CapabilitiesAssumption
        <4>4. ~(after - r.cache[r.models[i]].at < Ttl) BY <4>1, <4>2, <4>3
        <4> QED BY <2>3, <4>4 DEF FreshAt
      <3> QED BY <3>3, <3>4
    <2> QED BY <2>1, <2>4 DEF ProbingSound
  <1>3. ASSUME r.at \in {"probing", "writing"} PROVE CopySound(r, f, after)
    BY <1>1, <1>3 DEF RunSound, CopySound
  <1> QED BY <1>2, <1>3 DEF RunSound

-----------------------------------------------------------------------------
(* One resolution.                                                           *)

LEMMA NoRunSound ==
    ASSUME NEW f, NEW time
    PROVE  NoRun \in Runs /\ RunSound(NoRun, f, time)
  <1>1. NoRecords \in Files BY DEF NoRecords, Files, Entries
  <1>2. NoRun.before \in (Files \union {Torn}) \X Nat BY <1>1 DEF NoRun
  <1>3. <<>> \in Seq(Models) /\ <<>> \in Seq([place : Nat, came : STRING \union {Unknown}])
    OBVIOUS
  <1>4. NoRun \in Runs BY <1>1, <1>2, <1>3 DEF NoRun, Runs
  <1>5. NoRun.at = "idle" /\ NoRun.asked = {} BY DEF NoRun
  <1> QED BY <1>4, <1>5 DEF RunSound

\* A resolution that another process outruns keeps what it knows, but not what the
\* file has become.
LEMMA Outrun ==
    ASSUME NEW r \in Runs, NEW f, NEW g, NEW time, RunSound(r, f, time)
    PROVE  /\ [r EXCEPT !.outrun = r.at # "idle"] \in Runs
           /\ RunSound([r EXCEPT !.outrun = r.at # "idle"], g, time)
  <1> DEFINE s == [r EXCEPT !.outrun = r.at # "idle"]
  <1>1. s \in Runs BY DEF Runs
  <1>2. /\ s.at = r.at /\ s.asked = r.asked /\ s.models = r.models /\ s.cache = r.cache
        /\ s.waiting = r.waiting /\ s.landed = r.landed /\ s.needed = r.needed
        /\ s.upset = r.upset /\ s.before = r.before /\ s.advertised = r.advertised
        /\ s.outrun = (r.at # "idle")
    BY DEF Runs
  <1> HIDE DEF s
  <1>3. r.at = "asked" => AskedSound(s)
    BY <1>2 DEF RunSound, AskedSound, TakesProbe
  <1>4. r.at = "probing" => ProbingSound(s, time)
    BY <1>2 DEF RunSound, ProbingSound
  <1>5. r.at \in {"probing", "writing"} => CopySound(s, g, time)
    BY <1>2 DEF RunSound, CopySound
  <1>6. RunSound(s, g, time) BY <1>2, <1>3, <1>4, <1>5 DEF RunSound
  <1> QED BY <1>1, <1>6 DEF s

\* A step of one process that leaves the file and the clock.
LEMMA OneRun ==
    ASSUME DetectionInv, NEW d \in Detectors, NEW r \in Runs, RunSound(r, whole, now),
           run' = [run EXCEPT ![d] = r], UNCHANGED <<now, whole>>
    PROVE  run' \in [Detectors -> Runs] /\ \A e \in Detectors : RunSound(run'[e], whole', now')
  <1>1. run \in [Detectors -> Runs] BY DEF DetectionInv
  <1>2. run' \in [Detectors -> Runs] BY <1>1
  <1>3. \A e \in Detectors : run'[e] = IF e = d THEN r ELSE run[e] BY <1>1
  <1> QED BY <1>2, <1>3 DEF DetectionInv

-----------------------------------------------------------------------------
(* Each action keeps the invariant.                                          *)

LEMMA InitHolds == DetectionInit => DetectionInv
  <1> SUFFICES ASSUME DetectionInit PROVE DetectionInv OBVIOUS
  <1> USE DEF DetectionInit
  <1>1. FileSound(whole, now)
    <2>1. NoRecords \in Files BY DEF NoRecords, Files, Entries
    <2>2. \A m \in Models : NoRecords[m] = Unknown BY DEF NoRecords
    <2> QED BY <2>1, <2>2 DEF FileSound
  <1>2. run \in [Detectors -> Runs] /\ \A d \in Detectors : RunSound(run[d], whole, now)
    BY NoRunSound
  <1> QED BY <1>1, <1>2 DEF DetectionInv, Answers

LEMMA ResolveHolds ==
    ASSUME DetectionInv, NEW d \in Detectors, ResolveModels(d)
    PROVE  DetectionInv'
  <1>1. PICK offer \in Offers :
           LET places == DOMAIN offer.models
               open == {i \in places : /\ offer.models[i] \notin offer.advertised
                                       /\ ~Fresh(records, offer.models[i])}
           IN  run' = [run EXCEPT ![d] =
                  [NoRun EXCEPT !.at = "asked", !.advertised = offer.advertised,
                      !.models = offer.models,
                      !.asked = IF offer.keyed THEN places \ open ELSE places,
                      !.needed = ~offer.keyed /\ open # {},
                      !.before = <<records, now>>]]
    BY DEF ResolveModels
  <1> DEFINE places == DOMAIN offer.models
             open == {i \in places : /\ offer.models[i] \notin offer.advertised
                                     /\ ~Fresh(records, offer.models[i])}
             r == [NoRun EXCEPT !.at = "asked", !.advertised = offer.advertised,
                      !.models = offer.models,
                      !.asked = IF offer.keyed THEN places \ open ELSE places,
                      !.needed = ~offer.keyed /\ open # {},
                      !.before = <<records, now>>]
  <1>2. run' = [run EXCEPT ![d] = r] BY <1>1
  <1>3. /\ offer.models \in Seq(Models) /\ offer.advertised \subseteq Models /\ offer.keyed \in BOOLEAN
    BY CapabilitiesAssumption
  <1>4. places \subseteq Nat BY <1>3
  <1>5. <<records, now>> \in (Files \union {Torn}) \X Nat BY DEF DetectionInv, FileSound
  <1>6. NoRun \in Runs BY NoRunSound
  <1>7. (IF offer.keyed THEN places \ open ELSE places) \in SUBSET Nat BY <1>4
  <1>8. r \in Runs BY <1>3, <1>5, <1>6, <1>7 DEF Runs
  <1>9. /\ r.at = "asked" /\ r.advertised = offer.advertised /\ r.models = offer.models
        /\ r.asked = (IF offer.keyed THEN places \ open ELSE places)
        /\ r.needed = (~offer.keyed /\ open # {}) /\ r.before = <<records, now>>
        /\ r.landed = <<>>
    BY DEF NoRun
  <1>10. \A i \in places : i \in open <=> TakesProbe(r, i, records, now)
    BY <1>9 DEF TakesProbe, Fresh
  <1> HIDE DEF r, places
  <1>11. AskedSound(r)
    <2>1. r.before[1] = records /\ r.before[2] = now BY <1>9
    <2>2. open \subseteq places OBVIOUS
    <2> HIDE DEF open
    <2>3. CASE offer.keyed
      BY <1>9, <1>10, <2>1, <2>3 DEF AskedSound
    <2>4. CASE ~offer.keyed
      BY <1>9, <1>10, <2>1, <2>2, <2>4 DEF AskedSound
    <2> QED BY <2>3, <2>4
  <1>12. RunSound(r, whole, now)
    BY <1>9, <1>11 DEF RunSound, places
  <1>13. UNCHANGED <<records, told, now, whole>> BY DEF ResolveModels
  <1>14. run' \in [Detectors -> Runs] /\ \A e \in Detectors : RunSound(run'[e], whole', now')
    BY <1>2, <1>8, <1>12, <1>13, OneRun
  <1> QED BY <1>13, <1>14 DEF DetectionInv

LEMMA LoadHolds ==
    ASSUME DetectionInv, NEW d \in Detectors, Load(d)
    PROVE  DetectionInv'
  <1> DEFINE r == run[d]
             cache == StartingWith(r)
             waiting == {i \in r.asked : TakesProbe(r, i, records, now)}
             s == [r EXCEPT !.at = "probing", !.cache = cache, !.waiting = waiting,
                            !.upset = r.before # <<records, now>>, !.before = NoRun.before,
                            !.outrun = records = Torn]
  <1>1. r.at = "asked" /\ UNCHANGED <<records, told, now, runs, whole>> BY DEF Load
  <1>2. r \in Runs /\ RunSound(r, whole, now) /\ AskedSound(r)
    BY <1>1 DEF DetectionInv, RunSound
  <1>3. run' = [run EXCEPT ![d] = s]
    <2>1. waiting = {i \in r.asked : r.models[i] \notin r.advertised /\ ~Fresh(records, r.models[i])}
      BY DEF TakesProbe, Fresh
    <2>2. run \in [Detectors -> Runs] BY DEF DetectionInv
    <2> QED BY <2>1, <2>2 DEF Load
  <1>4. records \in Files \union {Torn} /\ FileSound(whole, now) /\ now \in Nat
    BY DEF DetectionInv, FileSound
  <1>5. FileSound(Parsed(records), now) /\ (records # Torn => Keeps(Parsed(records), whole))
    BY <1>4, ParsedSound DEF DetectionInv
  <1>6. cache \in Files
    <2>1. \A m \in Models : Record(Told[m], now) \in Entries
      BY <1>4, CapabilitiesAssumption DEF Record, Entries
    <2>2. Parsed(records) \in Files BY <1>5 DEF FileSound
    <2> QED BY <2>1, <2>2 DEF StartingWith, Files
  <1>7. \A m \in Models : cache[m] = IF m \in r.advertised \intersect Asked(r)
                                     THEN Record(Told[m], now) ELSE Parsed(records)[m]
    BY DEF StartingWith
  <1>8. \A m \in Models : /\ Record(Told[m], now) # Unknown
                            /\ Record(Told[m], now).caps = Told[m]
                            /\ Record(Told[m], now).at = now
    BY <1>4, CapabilitiesAssumption DEF Record
  <1>9. FileSound(cache, now)
    <2> SUFFICES ASSUME NEW m \in Models, cache[m] # Unknown
                 PROVE  cache[m].caps \in {Able[m], Told[m]} /\ cache[m].at <= now
      BY <1>6 DEF FileSound
    <2>1. CASE m \in r.advertised \intersect Asked(r) BY <1>4, <1>7, <1>8, <2>1
    <2>2. CASE m \notin r.advertised \intersect Asked(r)
      BY <1>5, <1>7, <2>2 DEF FileSound
    <2> QED BY <2>1, <2>2
  <1>10. records # Torn => Keeps(cache, whole)
    <2> SUFFICES ASSUME records # Torn, NEW m \in Models, whole[m] # Unknown
                 PROVE  cache[m] # Unknown /\ cache[m].at >= whole[m].at
      BY DEF Keeps
    <2>1. whole[m].at \in Nat /\ whole[m].at <= now BY <1>4, EntryTypes DEF FileSound
    <2>2. CASE m \in r.advertised \intersect Asked(r)
      BY <1>4, <1>7, <1>8, <2>1, <2>2
    <2>3. CASE m \notin r.advertised \intersect Asked(r)
      BY <1>5, <1>7, <2>3 DEF Keeps
    <2> QED BY <2>2, <2>3
  <1>11. /\ s.at = "probing" /\ s.models = r.models /\ s.asked = r.asked /\ s.cache = cache
         /\ s.waiting = waiting /\ s.landed = r.landed /\ s.needed = r.needed
         /\ s.advertised = r.advertised /\ s.upset = (r.before # <<records, now>>)
         /\ s.outrun = (records = Torn)
    BY <1>2 DEF Runs
  <1>12. s \in Runs
    <2>1. NoRun.before \in (Files \union {Torn}) \X Nat BY NoRunSound DEF Runs
    <2>2. waiting \in SUBSET Nat BY <1>2 DEF Runs
    <2> HIDE DEF cache, waiting
    <2> QED BY <1>2, <1>6, <2>1, <2>2 DEF Runs
  <1> HIDE DEF s, cache
  <1>13. ASSUME NEW i \in r.asked
         PROVE  /\ r.models[i] \in Models
                /\ i \in waiting => ~FreshAt(cache, r.models[i], now)
                /\ i \notin waiting => cache[r.models[i]] # Unknown
    <2>1. r.models[i] \in Models BY <1>2 DEF Runs, RunSound
    <2>2. r.models[i] \in Asked(r) BY DEF Asked
    <2>3. Parsed(cache) = cache BY <1>6, ParsedFiles
    <2>4. CASE r.models[i] \in r.advertised
      BY <1>7, <1>8, <2>1, <2>2, <2>4 DEF TakesProbe
    <2>5. CASE r.models[i] \notin r.advertised
      BY <1>7, <2>1, <2>3, <2>5 DEF TakesProbe, FreshAt
    <2> QED BY <2>1, <2>4, <2>5
  <1>14. s.upset \/ s.needed = (s.waiting # {} \/ s.landed # <<>>)
    <2> SUFFICES ASSUME r.before = <<records, now>>
                 PROVE  r.needed = (waiting # {})
      BY <1>2, <1>11 DEF AskedSound
    <2>1. r.needed = \E i \in r.asked : TakesProbe(r, i, records, now)
      BY <1>2 DEF AskedSound
    <2> QED BY <2>1
  <1> HIDE DEF waiting
  <1>15. waiting \subseteq r.asked BY DEF waiting
  <1>16. ProbingSound(s, now)
    <2>1. DOMAIN s.landed = {} BY <1>2, <1>11 DEF AskedSound
    <2> QED BY <1>11, <1>13, <1>14, <1>15, <2>1 DEF ProbingSound
  <1>17. CopySound(s, whole, now) BY <1>9, <1>10, <1>11 DEF CopySound
  <1>18. RunSound(s, whole, now) BY <1>2, <1>11, <1>16, <1>17 DEF RunSound
  <1>19. run' \in [Detectors -> Runs] /\ \A e \in Detectors : RunSound(run'[e], whole', now')
    BY <1>1, <1>3, <1>12, <1>18, OneRun
  <1> QED BY <1>1, <1>19 DEF DetectionInv

LEMMA DetectHolds ==
    ASSUME DetectionInv, NEW d \in Detectors, NEW m \in Models, Detect(d, m)
    PROVE  DetectionInv'
  <1>1. UNCHANGED <<records, now, whole>> BY DEF Detect
  <1>2. records \in Files \union {Torn} /\ FileSound(whole, now) /\ now \in Nat
    BY DEF DetectionInv, FileSound
  <1>3. CASE Fresh(records, m)
    <2>1. told' = [told EXCEPT ![d][m] = records[m].caps] /\ run' = run BY <1>3 DEF Detect
    <2>2. records # Torn
      <3> SUFFICES ASSUME records = Torn PROVE FALSE OBVIOUS
      <3>1. Parsed(records)[m] = Unknown BY DEF Parsed, NoRecords
      <3> QED BY <1>3, <3>1 DEF Fresh, FreshAt
    <2>3. records = whole /\ Parsed(records) = records BY <2>2 DEF DetectionInv, Parsed
    <2>4. records[m] # Unknown BY <1>3, <2>3 DEF Fresh, FreshAt
    <2>5. records[m].caps \in {Able[m], Told[m]} BY <1>2, <2>3, <2>4 DEF FileSound
    <2>6. records[m].caps \in STRING BY <1>2, <2>3, <2>4, EntryTypes DEF FileSound
    <2>7. told \in [Detectors -> [Models -> Answers]] BY DEF DetectionInv
    <2>8. told' \in [Detectors -> [Models -> Answers]]
      BY <2>1, <2>6, <2>7 DEF Answers
    <2>9. ASSUME NEW e \in Detectors, NEW n \in Models
          PROVE  told'[e][n] \in {Unknown, Able[n], Told[n], Fallback}
      <3>1. told'[e][n] = IF e = d /\ n = m THEN records[m].caps ELSE told[e][n]
        BY <2>1, <2>7
      <3> QED BY <2>5, <3>1 DEF DetectionInv
    <2> QED BY <1>1, <2>1, <2>8, <2>9 DEF DetectionInv
  <1>4. CASE ~Fresh(records, m)
    <2> DEFINE s == [NoRun EXCEPT !.at = "probing", !.single = TRUE, !.models = <<m>>, !.asked = {1},
                        !.cache = Parsed(records), !.waiting = {1}, !.needed = TRUE,
                        !.outrun = records = Torn]
    <2>1. run' = [run EXCEPT ![d] = s] /\ told' = told BY <1>4 DEF Detect
    <2>2. /\ s.at = "probing" /\ s.models = <<m>> /\ s.asked = {1} /\ s.waiting = {1}
          /\ s.cache = Parsed(records) /\ s.needed = TRUE /\ s.landed = <<>> /\ s.upset = FALSE
          /\ s.outrun = (records = Torn)
      BY DEF NoRun
    <2>3. Parsed(records) \in Files BY <1>2, ParsedFiles
    <2>4. s \in Runs
      <3>1. <<m>> \in Seq(Models) OBVIOUS
      <3>2. NoRun \in Runs BY NoRunSound
      <3>3. {1} \in SUBSET Nat OBVIOUS
      <3> QED BY <2>3, <3>1, <3>2, <3>3 DEF Runs
    <2> HIDE DEF s
    <2>5. ~FreshAt(s.cache, s.models[1], now)
      BY <1>4, <2>2, <2>3, ParsedFiles DEF Fresh, FreshAt
    <2>6. ProbingSound(s, now)
      <3>1. DOMAIN s.landed = {} BY <2>2
      <3>2. \A i \in {1} : ~FreshAt(s.cache, s.models[i], now) BY <2>5
      <3> QED BY <2>2, <3>1, <3>2 DEF ProbingSound
    <2>7. CopySound(s, whole, now)
      <3>1. records \in {Torn, whole} BY DEF DetectionInv
      <3>2. FileSound(s.cache, now) BY <1>2, <2>2, <3>1, ParsedSound
      <3>3. records # Torn => Keeps(s.cache, whole) BY <1>2, <2>2, <3>1, ParsedSound
      <3> QED BY <2>2, <3>2, <3>3 DEF CopySound
    <2>8. RunSound(s, whole, now) BY <2>2, <2>6, <2>7 DEF RunSound
    <2>9. run' \in [Detectors -> Runs] /\ \A e \in Detectors : RunSound(run'[e], whole', now')
      BY <1>1, <2>1, <2>4, <2>8, OneRun
    <2> QED BY <1>1, <2>1, <2>9 DEF DetectionInv
  <1> QED BY <1>3, <1>4

LEMMA ProbeEndsHolds ==
    ASSUME DetectionInv, NEW d \in Detectors, ProbeEnds(d)
    PROVE  DetectionInv'
  <1> DEFINE r == run[d]
  <1>1. r.at = "probing" /\ UNCHANGED <<records, told, now, runs, whole>> BY DEF ProbeEnds
  <1>2. r \in Runs /\ RunSound(r, whole, now) /\ ProbingSound(r, now) /\ CopySound(r, whole, now)
    BY <1>1 DEF DetectionInv, RunSound
  <1>0. PICK i \in r.waiting : \E caps \in {Able[r.models[i]], Unknown} :
           run' = [run EXCEPT ![d].waiting = @ \ {i},
                              ![d].landed = Append(@, [place |-> i, came |-> caps])]
    BY DEF ProbeEnds
  <1>3. PICK caps \in {Able[r.models[i]], Unknown} :
           run' = [run EXCEPT ![d].waiting = @ \ {i},
                              ![d].landed = Append(@, [place |-> i, came |-> caps])]
    BY <1>0
  <1> DEFINE probe == [place |-> i, came |-> caps]
             s == [r EXCEPT !.waiting = @ \ {i}, !.landed = Append(@, probe)]
  <1>4. run' = [run EXCEPT ![d] = s]
    BY <1>3 DEF DetectionInv
  <1>5. i \in r.asked /\ r.models[i] \in Models /\ i \in Nat
    <2>1. r.waiting \subseteq r.asked BY <1>2 DEF ProbingSound
    <2>2. r.asked \subseteq DOMAIN r.models BY <1>1, <1>2 DEF RunSound
    <2>3. r.models \in Seq(Models) /\ r.asked \in SUBSET Nat BY <1>2 DEF Runs
    <2> HIDE DEF r
    <2>4. i \in r.asked /\ i \in DOMAIN r.models BY <1>0, <2>1, <2>2
    <2> QED BY <2>3, <2>4, ElementOfSeq, LenProperties
  <1>6. probe \in [place : Nat, came : STRING \union {Unknown}]
    BY <1>5, CapabilitiesAssumption
  <1>7. s \in Runs
    <2>1. Append(r.landed, probe) \in Seq([place : Nat, came : STRING \union {Unknown}])
      BY <1>2, <1>6 DEF Runs
    <2>2. r.waiting \ {i} \in SUBSET Nat BY <1>2 DEF Runs
    <2> HIDE DEF probe
    <2> QED BY <1>2, <2>1, <2>2 DEF Runs
  <1>8. /\ s.at = "probing" /\ s.models = r.models /\ s.asked = r.asked /\ s.cache = r.cache
        /\ s.waiting = r.waiting \ {i} /\ s.landed = Append(r.landed, probe)
        /\ s.needed = r.needed /\ s.upset = r.upset /\ s.outrun = r.outrun
    BY <1>1, <1>2 DEF Runs
  <1>9. /\ DOMAIN s.landed = DOMAIN r.landed \union {Len(r.landed) + 1}
        /\ s.landed[Len(r.landed) + 1] = probe
        /\ \A k \in DOMAIN r.landed : s.landed[k] = r.landed[k]
        /\ s.landed # <<>>
    <2> DEFINE L == [place : Nat, came : STRING \union {Unknown}]
    <2>1. r.landed \in Seq(L) /\ probe \in L BY <1>2, <1>6 DEF Runs
    <2>2. s.landed = Append(r.landed, probe) BY <1>8
    <2> HIDE DEF s, r, probe, L
    <2>3. /\ s.landed \in Seq(L) /\ s.landed # <<>> /\ Len(s.landed) = Len(r.landed) + 1
          /\ \A k \in 1 .. Len(r.landed) : s.landed[k] = r.landed[k]
          /\ s.landed[Len(r.landed) + 1] = probe
      BY <2>1, <2>2, AppendProperties
    <2>4. /\ DOMAIN s.landed = 1 .. Len(s.landed) /\ DOMAIN r.landed = 1 .. Len(r.landed)
          /\ Len(r.landed) \in Nat
      BY <2>1, <2>3, LenProperties
    <2> QED BY <2>3, <2>4
  <1>10. probe.place = i /\ probe.came \in {Unknown, Able[r.models[i]]} OBVIOUS
  <1> HIDE DEF s, probe
  <1>11. ProbingSound(s, now)
    <2>1. s.waiting \subseteq s.asked /\ \A j \in s.waiting : ~FreshAt(s.cache, s.models[j], now)
      BY <1>2, <1>8 DEF ProbingSound
    <2>2. \A k \in DOMAIN s.landed :
             /\ s.landed[k].place \in s.asked
             /\ s.landed[k].came \in {Unknown, Able[s.models[s.landed[k].place]]}
      BY <1>2, <1>5, <1>8, <1>9, <1>10 DEF ProbingSound
    <2>3. ASSUME NEW j \in s.asked
          PROVE  \/ j \in s.waiting
                 \/ \E k \in DOMAIN s.landed : s.landed[k].place = j
                 \/ s.cache[s.models[j]] # Unknown
      <3>1. CASE j = i BY <1>9, <1>10, <3>1
      <3>2. CASE j # i
        <4>1. j \in r.asked BY <1>8
        <4>2. CASE j \in r.waiting BY <1>8, <3>2, <4>2
        <4>3. CASE \E k \in DOMAIN r.landed : r.landed[k].place = j
          <5>1. PICK k \in DOMAIN r.landed : r.landed[k].place = j BY <4>3
          <5>2. k \in DOMAIN s.landed /\ s.landed[k] = r.landed[k] BY <1>9
          <5> QED BY <5>1, <5>2
        <4>4. CASE r.cache[r.models[j]] # Unknown BY <1>8, <4>4
        <4> QED BY <1>2, <4>1, <4>2, <4>3, <4>4 DEF ProbingSound
      <3> QED BY <3>1, <3>2
    <2>4. s.upset \/ s.needed = (s.waiting # {} \/ s.landed # <<>>)
      BY <1>2, <1>3, <1>8, <1>9 DEF ProbingSound
    <2> QED BY <2>1, <2>2, <2>3, <2>4 DEF ProbingSound
  <1>12. RunSound(s, whole, now)
    BY <1>2, <1>8, <1>11 DEF RunSound, CopySound
  <1>13. run' \in [Detectors -> Runs] /\ \A e \in Detectors : RunSound(run'[e], whole', now')
    BY <1>1, <1>4, <1>7, <1>12, OneRun
  <1> QED BY <1>1, <1>13 DEF DetectionInv

\* What was found out about a model is what there is to find out about it.
LEMMA FoundTrue ==
    ASSUME NEW r \in Runs, NEW time, ProbingSound(r, time), NEW m \in Models, FoundOut(r, m) # {}
    PROVE  (CHOOSE caps \in FoundOut(r, m) : TRUE) = Able[m]
  <1>1. \A caps \in FoundOut(r, m) : caps = Able[m]
    BY DEF FoundOut, Probes, ProbingSound
  <1> QED BY <1>1

\* The copy with the answers is one that may be saved, too.
LEMMA RecordedSound ==
    ASSUME NEW r \in Runs, NEW f, FileSound(f, now), now \in Nat, ProbingSound(r, now), CopySound(r, f, now)
    PROVE  FileSound(Recorded(r), now) /\ (r.outrun \/ Keeps(Recorded(r), f))
  <1> DEFINE g == Recorded(r)
             new(m) == Record(Able[m], now)
  <1>1. \A m \in Models : g[m] = IF FoundOut(r, m) = {} THEN r.cache[m] ELSE new(m)
    <2> SUFFICES ASSUME NEW m \in Models
                 PROVE  g[m] = IF FoundOut(r, m) = {} THEN r.cache[m] ELSE new(m)
      OBVIOUS
    <2>1. FoundOut(r, m) # {} => (CHOOSE caps \in FoundOut(r, m) : TRUE) = Able[m] BY FoundTrue
    <2> QED BY <2>1 DEF Recorded
  <1>2. \A m \in Models : new(m) \in Entries /\ new(m) # Unknown /\ new(m).caps = Able[m] /\ new(m).at = now
    BY CapabilitiesAssumption DEF Record, Entries
  <1>3. r.cache \in Files BY DEF Runs
  <1>4. g = [m \in Models |-> g[m]] BY DEF Recorded
  <1> HIDE DEF g, new
  <1>5. g \in Files BY <1>1, <1>2, <1>3, <1>4 DEF Files
  <1>6. FileSound(g, now)
    BY <1>1, <1>2, <1>5 DEF FileSound, CopySound
  <1>7. ASSUME ~r.outrun, NEW m \in Models, f[m] # Unknown
        PROVE  g[m] # Unknown /\ g[m].at >= f[m].at
    <2>1. f[m].at \in Nat /\ f[m].at <= now BY <1>7, EntryTypes DEF FileSound
    <2>2. CASE FoundOut(r, m) = {} BY <1>1, <1>7, <2>2 DEF CopySound, Keeps
    <2>3. CASE FoundOut(r, m) # {} BY <1>1, <1>2, <2>1, <2>3
    <2> QED BY <2>2, <2>3
  <1> QED BY <1>6, <1>7 DEF g, Keeps

\* So is what is said of the models, once no probe is out.
LEMMA SaidTrue ==
    ASSUME NEW r \in Runs, RunSound(r, whole, now), r.at = "probing", r.waiting = {},
           NEW known \in [Models -> Answers],
           \A m \in Models : known[m] \in {Unknown, Able[m], Told[m], Fallback}
    PROVE  /\ Said(r, known) \in [Models -> Answers]
           /\ \A m \in Models : Said(r, known)[m] \in {Unknown, Able[m], Told[m], Fallback}
  <1>1. ProbingSound(r, now) /\ FileSound(r.cache, now) BY DEF RunSound, CopySound
  <1>2. ASSUME NEW m \in Models
        PROVE  Said(r, known)[m] \in {Unknown, Able[m], Told[m], Fallback}
    <2>1. CASE m \notin Asked(r) BY <2>1 DEF Said
    <2>2. CASE m \in Asked(r) /\ FoundOut(r, m) # {}
      <3>1. Probes(r, m) # {} BY <2>2 DEF FoundOut
      <3> QED BY <1>1, <2>2, <3>1, FoundTrue DEF Said
    <2>3. CASE m \in Asked(r) /\ Probes(r, m) # {} /\ FoundOut(r, m) = {}
      BY <2>3 DEF Said
    <2>4. CASE m \in Asked(r) /\ Probes(r, m) = {}
      <3>1. PICK i \in r.asked : r.models[i] = m BY <2>4 DEF Asked
      <3>2. r.cache[m] # Unknown BY <1>1, <2>4, <3>1 DEF ProbingSound, Probes
      <3>3. r.cache[m].caps \in {Able[m], Told[m]} BY <1>1, <3>2 DEF FileSound
      <3> QED BY <2>4, <3>3 DEF Said
    <2> QED BY <2>1, <2>2, <2>3, <2>4
  <1>3. \A m \in Models : {Unknown, Able[m], Told[m], Fallback} \subseteq Answers
    BY CapabilitiesAssumption DEF Answers
  <1>4. Said(r, known) = [m \in Models |-> Said(r, known)[m]] BY DEF Said
  <1> QED BY <1>2, <1>3, <1>4

LEMMA StoreHolds ==
    ASSUME DetectionInv, NEW d \in Detectors, StoreAnswers(d)
    PROVE  DetectionInv'
  <1> DEFINE r == run[d]
             s == [r EXCEPT !.at = "writing", !.cache = Recorded(r)]
             answered == [told EXCEPT ![d] = Said(r, @)]
  <1>1. r.at = "probing" /\ r.waiting = {} /\ UNCHANGED <<now, whole>> BY DEF StoreAnswers
  <1>2. r \in Runs /\ RunSound(r, whole, now) /\ ProbingSound(r, now) /\ CopySound(r, whole, now)
    BY <1>1 DEF DetectionInv, RunSound
  <1>3. told \in [Detectors -> [Models -> Answers]] BY DEF DetectionInv
  <1>4. /\ told' \in [Detectors -> [Models -> Answers]]
        /\ \A e \in Detectors, m \in Models : told'[e][m] \in {Unknown, Able[m], Told[m], Fallback}
    <2>1. told' \in {told, answered} BY DEF StoreAnswers
    <2>2. /\ Said(r, told[d]) \in [Models -> Answers]
          /\ \A m \in Models : Said(r, told[d])[m] \in {Unknown, Able[m], Told[m], Fallback}
      BY <1>1, <1>2, <1>3, SaidTrue DEF DetectionInv
    <2>3. CASE told' = told BY <2>3 DEF DetectionInv
    <2>4. CASE told' = answered BY <1>3, <2>2, <2>4 DEF DetectionInv
    <2> QED BY <2>1, <2>3, <2>4
  <1>5. CASE records' = Torn /\ run' = [run EXCEPT ![d].at = "writing", ![d].cache = Recorded(r)]
    <2>1. run' = [run EXCEPT ![d] = s] BY <1>5 DEF DetectionInv
    <2>2. FileSound(Recorded(r), now) /\ (r.outrun \/ Keeps(Recorded(r), whole))
      BY <1>2, RecordedSound DEF DetectionInv
    <2>3. /\ s.at = "writing" /\ s.cache = Recorded(r) /\ s.outrun = r.outrun
          /\ s.asked = r.asked /\ s.models = r.models
      BY <1>2 DEF Runs
    <2>4. s \in Runs
      <3>1. Recorded(r) \in Files BY <2>2 DEF FileSound
      <3> QED BY <1>2, <3>1 DEF Runs
    <2>5. RunSound(s, whole, now)
      BY <1>2, <2>2, <2>3 DEF RunSound, CopySound
    <2>6. run' \in [Detectors -> Runs] /\ \A e \in Detectors : RunSound(run'[e], whole', now')
      BY <1>1, <2>1, <2>4, <2>5, OneRun
    <2> QED BY <1>1, <1>4, <1>5, <2>6 DEF DetectionInv
  <1>6. CASE run' = [run EXCEPT ![d] = NoRun] /\ UNCHANGED records
    <2>1. run' \in [Detectors -> Runs] /\ \A e \in Detectors : RunSound(run'[e], whole', now')
      BY <1>1, <1>6, NoRunSound, OneRun
    <2> QED BY <1>1, <1>4, <1>6, <2>1 DEF DetectionInv
  <1> QED BY <1>5, <1>6 DEF StoreAnswers

LEMMA WriteHolds ==
    ASSUME DetectionInv, NEW d \in Detectors, Write(d)
    PROVE  DetectionInv'
  <1> DEFINE next(e) == IF e = d THEN NoRun ELSE [run[e] EXCEPT !.outrun = run[e].at # "idle"]
  <1>1. run[d].at = "writing" /\ UNCHANGED <<told, now, runs>> BY DEF Write
  <1>2. records' \in {Torn, run[d].cache} /\ whole' = IF records' = Torn THEN whole ELSE records'
    BY DEF Write
  <1>3. FileSound(run[d].cache, now) BY <1>1 DEF DetectionInv, RunSound, CopySound
  <1>4. records' \in {Torn, whole'} /\ FileSound(whole', now)
    BY <1>2, <1>3 DEF DetectionInv
  <1>5. run' = [e \in Detectors |-> next(e)] BY DEF Write
  <1>6. ASSUME NEW e \in Detectors PROVE next(e) \in Runs /\ RunSound(next(e), whole', now)
    <2>1. run[e] \in Runs /\ RunSound(run[e], whole, now) BY DEF DetectionInv
    <2>2. CASE e = d BY <2>2, NoRunSound
    <2>3. CASE e # d BY <2>1, <2>3, Outrun
    <2> QED BY <2>2, <2>3
  <1> HIDE DEF next
  <1> QED BY <1>1, <1>4, <1>5, <1>6 DEF DetectionInv

LEMMA DieHolds ==
    ASSUME DetectionInv, NEW d \in Detectors, Die(d)
    PROVE  DetectionInv'
  <1>1. UNCHANGED <<records, now, whole>> /\ run' = [run EXCEPT ![d] = NoRun] BY DEF Die
  <1>2. told' = [told EXCEPT ![d] = [m \in Models |-> Unknown]] BY DEF Die
  <1>3. run' \in [Detectors -> Runs] /\ \A e \in Detectors : RunSound(run'[e], whole', now')
    BY <1>1, NoRunSound, OneRun
  <1>4. [m \in Models |-> Unknown] \in [Models -> Answers] BY DEF Answers
  <1>5. told' \in [Detectors -> [Models -> Answers]] BY <1>2, <1>4 DEF DetectionInv
  <1>6. \A e \in Detectors, m \in Models : told'[e][m] \in {Unknown, Able[m], Told[m], Fallback}
    BY <1>2 DEF DetectionInv
  <1> QED BY <1>1, <1>3, <1>5, <1>6 DEF DetectionInv

LEMMA TickHolds ==
    ASSUME DetectionInv, Tick
    PROVE  DetectionInv'
  <1>1. now \in Nat /\ now' = now + 1 /\ UNCHANGED <<records, run, told, runs, whole>> BY DEF Tick, DetectionInv
  <1>2. now' \in Nat /\ now <= now' BY <1>1
  <1>3. FileSound(whole, now')
    <2>1. FileSound(whole, now) BY DEF DetectionInv
    <2>2. \A m \in Models : whole[m] # Unknown => whole[m].at \in Nat BY <2>1, EntryTypes DEF FileSound
    <2> QED BY <1>1, <2>1, <2>2 DEF FileSound
  <1>4. \A d \in Detectors : RunSound(run[d], whole, now')
    BY <1>1, <1>2, Later DEF DetectionInv
  <1> QED BY <1>1, <1>2, <1>3, <1>4 DEF DetectionInv

LEMMA NextHolds == DetectionInv /\ [DetectionNext]_detectionVars => DetectionInv'
  <1> SUFFICES ASSUME DetectionInv, [DetectionNext]_detectionVars PROVE DetectionInv' OBVIOUS
  <1>1. CASE UNCHANGED detectionVars BY <1>1 DEF DetectionInv, detectionVars
  <1>2. CASE Tick BY <1>2, TickHolds
  <1>3. ASSUME NEW d \in Detectors,
               ResolveModels(d) \/ Load(d) \/ ProbeEnds(d) \/ StoreAnswers(d) \/ Write(d) \/ Die(d)
        PROVE  DetectionInv'
    BY <1>3, ResolveHolds, LoadHolds, ProbeEndsHolds, StoreHolds, WriteHolds, DieHolds
  <1>4. ASSUME NEW d \in Detectors, NEW m \in Models, Detect(d, m) PROVE DetectionInv'
    BY <1>4, DetectHolds
  <1> QED BY <1>1, <1>2, <1>3, <1>4 DEF DetectionNext

-----------------------------------------------------------------------------
(* What follows.                                                             *)

\* The invariant holds always: the file and every copy of it are sound, and a
\* process that was not outrun has all there is in the file.
THEOREM RunsSound == DetectionSpec => []DetectionInv
  <1>1. DetectionInit => DetectionInv BY InitHolds
  <1>2. DetectionInv /\ [DetectionNext]_detectionVars => DetectionInv' BY NextHolds
  <1> QED BY <1>1, <1>2, PTL DEF DetectionSpec

LEMMA RecordsAreTrue == DetectionInv => RecordsTrue /\ ProbesHonest
  <1> SUFFICES ASSUME DetectionInv PROVE RecordsTrue /\ ProbesHonest OBVIOUS
  <1>1. FileSound(Parsed(records), now)
    <2>1. records \in {Torn, whole} /\ FileSound(whole, now) /\ now \in Nat BY DEF DetectionInv
    <2> QED BY <2>1, ParsedSound
  <1>2. RecordsTrue BY <1>1 DEF RecordsTrue, FileSound, DetectionInv
  <1>3. ProbesHonest BY DEF ProbesHonest, Fresh, ProbingSound, RunSound, DetectionInv
  <1> QED BY <1>2, <1>3

\* Only a write changes what was last written whole, and the one that writes is
\* the only one that stops writing with it.
LEMMA SavesKeep == DetectionInv /\ [DetectionNext]_detectionVars => RecordsKept
  <1> SUFFICES ASSUME DetectionInv, DetectionNext, whole' # whole PROVE RecordsKept
    BY DEF RecordsKept, detectionVars
  <1>1. PICK d \in Detectors : Write(d)
    BY ZenonT(60) DEF DetectionNext, ResolveModels, Load, Detect, ProbeEnds, StoreAnswers, Die, Tick
  <1>2. run[d].at = "writing" /\ whole' = run[d].cache
    BY <1>1 DEF Write
  <1>3. \A e \in Detectors : run'[e].at = IF e = d THEN "idle" ELSE run[e].at
    BY <1>1 DEF Write, NoRun, DetectionInv, Runs
  <1>4. (CHOOSE e \in Detectors : run[e].at = "writing" /\ run'[e].at # "writing") = d
    <2>1. \A e \in Detectors : (run[e].at = "writing" /\ run'[e].at # "writing") <=> e = d
      BY <1>2, <1>3
    <2> QED BY <2>1
  <1>5. run[d].outrun \/ Keeps(run[d].cache, whole)
    BY <1>2 DEF DetectionInv, RunSound, CopySound
  <1> QED BY <1>2, <1>4, <1>5 DEF RecordsKept, Keeps

\* What several processes record and say of a model was found out about it, what
\* is fresh is not probed, and a save takes no record away and sets none back
\* unless another save came in between: with any number of processes, models and
\* probes at a time, whatever the providers offer and whoever dies when.
THEOREM DetectionIsSound == DetectionSpec => Detected
  <1>1. DetectionInv => RecordsTrue /\ ProbesHonest BY RecordsAreTrue
  <1>2. DetectionInv /\ [DetectionNext]_detectionVars => RecordsKept BY SavesKeep
  <1> QED BY <1>1, <1>2, RunsSound, PTL DEF DetectionSpec, Detected
=============================================================================
