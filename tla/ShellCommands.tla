---------------------------- MODULE ShellCommands ----------------------------
(***************************************************************************)
(* Shell commands and the patterns that stored permissions match them by:  *)
(* crates/suis-core/src/permissions/evaluator.rs.  A command is the word    *)
(* it starts with and the rest of it, "" when there is none; the pattern    *)
(* "cargo *" is the pattern of head "cargo" whose rest is a star.           *)
(***************************************************************************)

CONSTANTS
    Heads,          \* the words commands start with
    Rests,          \* what follows the first word
    DangerousWords, \* DANGEROUS_COMMANDS, among Heads and Rests
    HiddenWords     \* words that name a hidden path of the project

Star == "*"

Commands == [head : Heads, rest : Rests]

Patterns == [head : Heads, rest : Rests \union {Star}]

\* is_dangerous looks at every word of the command, not just the first.
IsDangerous(cmd) == cmd.head \in DangerousWords \/ cmd.rest \in DangerousWords

NamesHidden(cmd) == cmd.head \in HiddenWords \/ cmd.rest \in HiddenWords

\* command_matches, with a star only at the end of a pattern.
Matches(pattern, cmd) ==
    \/ pattern = cmd
    \/ pattern.rest = Star /\ pattern.head = cmd.head /\ cmd.rest # ""

\* The pattern a wildcard grant of `cmd` stores.
Widened(cmd) == [head |-> cmd.head, rest |-> Star]
=============================================================================
