---------------------------- MODULE MCPermissions ----------------------------
(* Values for the model-checking runs of Permissions.                       *)
EXTENDS Permissions, TLC

MCHandDenies == {[head |-> "cargo", rest |-> "rm"]}

Swaps == Permutations(Sessions) \union Permutations(Projects)

\* What a state's future depends on: not on the step that led to it.
Future == <<files, sess, prompt, screen, said, denied, spent>>
=============================================================================
