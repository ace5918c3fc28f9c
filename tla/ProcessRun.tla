------------------------------ MODULE ProcessRun ------------------------------
(***************************************************************************)
(* How the bash and git tools run a child process:                         *)
(* run_process_with_timeout in crates/suis-agent/src/tools/mod.rs.         *)
(*                                                                         *)
(* The child leads a process group and inherits two pipes, which reader    *)
(* threads drain until no process holds them open.  The tool polls the     *)
(* child until it has exited or the deadline has passed, and in the second *)
(* case kills the group.  A command may leave a background process behind, *)
(* which holds the pipes too; it may have left the group ("detached").     *)
(***************************************************************************)
EXTENDS FiniteSets

CONSTANT
    Runners         \* who may be running a command: agent sessions

VARIABLE
    proc            \* per runner, the process it waits for

procVars == <<proc>>

\* "idle": no command.  "polling": the try_wait loop.  "joining": the child has
\* exited and the tool waits for the readers.  "returned": the result is there.
Idle == [at |-> "idle", leader |-> "none", background |-> "none",
         late |-> FALSE, result |-> "none"]

ProcTypeOK ==
    proc \in [Runners -> [at : {"idle", "polling", "joining", "returned"},
                          leader : {"none", "running", "exited", "killed"},
                          background : {"none", "grouped", "detached", "ended"},
                          late : BOOLEAN,
                          result : {"none", "output", "timeout", "unspawned", "failed"}]]

ProcInit == proc = [s \in Runners |-> Idle]

-----------------------------------------------------------------------------

\* Spawning fails at once, or the child runs in a group of its own.
Spawn(s) ==
    /\ proc[s] = Idle
    /\ \/ proc' = [proc EXCEPT ![s].at = "polling", ![s].leader = "running"]
       \/ proc' = [proc EXCEPT ![s].at = "returned", ![s].result = "unspawned"]

\* The command starts something in the background: `server &`, `setsid server &`.
Background(s) ==
    /\ proc[s].leader = "running"
    /\ proc[s].background = "none"
    /\ \E b \in {"grouped", "detached"} : proc' = [proc EXCEPT ![s].background = b]

LeaderExits(s) ==
    /\ proc[s].leader = "running"
    /\ proc' = [proc EXCEPT ![s].leader = "exited"]

BackgroundEnds(s) ==
    /\ proc[s].background \in {"grouped", "detached"}
    /\ proc' = [proc EXCEPT ![s].background = "ended"]

\* The clock passes the deadline.
Deadline(s) ==
    /\ proc[s].at = "polling"
    /\ ~proc[s].late
    /\ proc' = [proc EXCEPT ![s].late = TRUE]

\* What is left of a process group after SIGKILL: only what has left the group.
GroupKilled(p) ==
    [p EXCEPT !.leader = IF @ = "running" THEN "killed" ELSE @,
              !.background = IF @ = "grouped" THEN "ended" ELSE @]

\* try_wait finds the child gone, whether or not the deadline has passed too.
PollExited(s) ==
    /\ proc[s].at = "polling"
    /\ proc[s].leader = "exited"
    /\ proc' = [proc EXCEPT ![s].at = "joining"]

\* Fault: the readers are joined after a timeout too.
PollLateJoining(s) ==
    /\ proc[s].at = "polling"
    /\ proc[s].leader = "running"
    /\ proc[s].late
    /\ proc' = [proc EXCEPT ![s] = [GroupKilled(@) EXCEPT !.at = "joining"]]

\* try_wait finds the child running past the deadline: the group is killed and
\* the tool returns without waiting for the readers.
PollLate(s) ==
    /\ proc[s].at = "polling"
    /\ proc[s].leader = "running"
    /\ proc[s].late
    /\ proc' = [proc EXCEPT ![s] = [GroupKilled(@) EXCEPT !.at = "returned",
                                                          !.result = "timeout"]]

\* try_wait itself fails: the group is killed and the tool returns the error.
PollFails(s) ==
    /\ proc[s].at = "polling"
    /\ proc' = [proc EXCEPT ![s] = [GroupKilled(@) EXCEPT !.at = "returned",
                                                          !.result = "failed"]]

\* A reader ends when no process holds its pipe any more.
PipesOpen(p) == p.leader = "running" \/ p.background \in {"grouped", "detached"}

Joined(s) ==
    /\ proc[s].at = "joining"
    /\ ~PipesOpen(proc[s])
    /\ proc' = [proc EXCEPT ![s].at = "returned", ![s].result = "output"]

\* The tool's result is taken; what still runs in the background is forgotten.
Collect(s) ==
    /\ proc[s].at = "returned"
    /\ proc' = [proc EXCEPT ![s] = Idle]

\* What the tool and the clock do by themselves.
ProcToolStep(s) == PollExited(s) \/ PollLate(s) \/ Joined(s) \/ Deadline(s)
\* What the command does: it need not do any of it.
ProcCommandStep(s) == Background(s) \/ LeaderExits(s) \/ BackgroundEnds(s)

ProcNext == \E s \in Runners : Spawn(s) \/ ProcToolStep(s) \/ PollFails(s) \/ ProcCommandStep(s) \/ Collect(s)

\* Fairness: the poll loop sleeps 20 ms at a time and the clock runs; PollFails
\* need not happen.  Nothing is assumed of the command.
ProcFairness == \A s \in Runners : WF_procVars(ProcToolStep(s)) /\ WF_procVars(Collect(s))

ProcSpec == ProcInit /\ [][ProcNext]_procVars /\ ProcFairness

-----------------------------------------------------------------------------

\* A command that was started returns, whatever it does, unless its child has
\* exited and left a background process that keeps the pipes open.
CommandReturns ==
    \A s \in Runners :
        (proc[s].at = "polling") ~>
            (\/ proc[s].at \in {"idle", "returned"}
             \/ proc[s].at = "joining" /\ proc[s].leader = "exited" /\ PipesOpen(proc[s]))
=============================================================================
