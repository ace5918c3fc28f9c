----------------------------- MODULE UserPolicy ------------------------------
(***************************************************************************)
(* What the permission system promises its user, without files, caches or   *)
(* screens: a shell command runs unasked only under a grant the user gave   *)
(* for it, of a scope that reaches this session, and a command the user has *)
(* denied in a session does not run in it.  Permissions implements this.    *)
(***************************************************************************)
EXTENDS ShellCommands

CONSTANTS Sessions, Projects

Everywhere == "everywhere"

VARIABLES
    home,       \* the project each session works in
    granted,    \* the user's standing grants: a pattern and where it holds
    denied,     \* what the user has denied, in the session it was asked in
    ran         \* what this step ran: <<>>, or <<session, command, how>>

policy == <<home, granted, denied, ran>>

\* A session grant holds in its session, a project grant in every session of
\* its project, an `Always` grant everywhere.
Grants == [pattern : Patterns, in : Sessions \union Projects \union {Everywhere}]

Covered(s, cmd) ==
    \E g \in granted : Matches(g.pattern, cmd) /\ g.in \in {s, home[s], Everywhere}

MayRun(s, cmd) == [session |-> s, cmd |-> cmd] \notin denied

PolicyInit ==
    /\ home \in [Sessions -> Projects]
    /\ granted = {}
    /\ denied = {}
    /\ ran = <<>>

\* A session ends and another begins: what held "for this session" is over.
Begin(s, p) ==
    /\ home' = [home EXCEPT ![s] = p]
    /\ granted' = {g \in granted : g.in # s}
    /\ denied' = {d \in denied : d.session # s}
    /\ ran' = <<>>

\* The user is asked and says yes, this once.
Approve(s, cmd) ==
    /\ MayRun(s, cmd)
    /\ ran' = <<s, cmd, "asked">>
    /\ UNCHANGED <<home, granted, denied>>

\* The user is asked and says yes for later times too; a dangerous command is
\* never approved for later.
Grant(s, cmd, g) ==
    /\ MayRun(s, cmd) /\ ~IsDangerous(cmd)
    /\ g.pattern \in {cmd, Widened(cmd)}
    /\ g.in \in {s, home[s], Everywhere}
    /\ granted' = granted \union {g}
    /\ ran' = <<s, cmd, "asked">>
    /\ UNCHANGED <<home, denied>>

\* The user is asked and says no, once or for longer.
Refuse(s, cmd, lasting) ==
    /\ denied' = IF lasting THEN denied \union {[session |-> s, cmd |-> cmd]} ELSE denied
    /\ ran' = <<>>
    /\ UNCHANGED <<home, granted>>

\* Nobody is asked.  A dangerous command, and one that names a hidden path,
\* always needs an answer.
RunUnasked(s, cmd) ==
    /\ Covered(s, cmd) /\ MayRun(s, cmd)
    /\ ~IsDangerous(cmd) /\ ~NamesHidden(cmd)
    /\ ran' = <<s, cmd, "unasked">>
    /\ UNCHANGED <<home, granted, denied>>

Quiet == ran' = <<>> /\ UNCHANGED <<home, granted, denied>>

PolicyNext ==
    \/ \E s \in Sessions, p \in Projects : Begin(s, p)
    \/ \E s \in Sessions, cmd \in Commands :
          \/ Approve(s, cmd)
          \/ \E g \in Grants : Grant(s, cmd, g)
          \/ \E lasting \in BOOLEAN : Refuse(s, cmd, lasting)
          \/ RunUnasked(s, cmd)
    \/ Quiet

PolicySpec == PolicyInit /\ [][PolicyNext]_policy
=============================================================================
