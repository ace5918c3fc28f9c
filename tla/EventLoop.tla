------------------------------ MODULE EventLoop ------------------------------
(* The tasks of a session and the channels between them (event_loop.rs,      *)
(* agent_bridge.rs): the thread that reads keys, the loop that takes one key *)
(* or one event at a time and draws, and the task of every agent that was    *)
(* started.  All channels are bounded and a full one blocks its sender, the  *)
(* loop among them.                                                          *)
(*                                                                           *)
(* A prompt waits for its answer on a channel of its own; when the half that *)
(* answers is dropped, what asked goes on with a refusal (Freed).            *)
EXTENDS Integers, Sequences

CONSTANTS
    TERM_CAP, INBOX_CAP, EVENTS_CAP,        \* 64, 64 and 256
    MaxKeysRead,            \* bound on the keys
    MaxEvents,              \* bound on the events of a turn
    Bridges                 \* the bridges, in the order they are spawned: 1 .. n

ASSUME EventLoopAssumption ==
    /\ {TERM_CAP, INBOX_CAP, EVENTS_CAP, MaxKeysRead, MaxEvents} \subseteq Nat \ {0}
    /\ Bridges \subseteq Nat \ {0}

VARIABLES
    unread, keysRead,       \* term_rx; how many keys there were
    loop,                   \* the loop: selecting, sending a message, or ended
    bridge,                 \* the bridge it holds, 0 for none
    mailbox, stream,        \* to_agent and the events, of each bridge
    worker,                 \* the task of each bridge
    pending,                \* pending_permission and pending_plan: the bridge that asks
    probing,                \* a probe of capabilities is in flight
    sent, taken, said,      \* how many messages and events, of each bridge
    applied                 \* the events the loop took: of which bridge, and its number

wires == <<mailbox, stream, sent, taken, said>>
loopVars == <<unread, keysRead, loop, bridge, wires, worker, pending, probing, applied>>

Selecting == [at |-> "select", message |-> 0]
Sending(n) == [at |-> "send", message |-> n]
NoOne == 0
Asks == {"permission", "plan"}
Resting == [at |-> "waits", left |-> 0]

LoopInit ==
    /\ unread = <<>> /\ keysRead = 0
    /\ loop = Selecting /\ bridge = 0
    /\ mailbox = [b \in Bridges |-> <<>>] /\ stream = mailbox
    /\ sent = [b \in Bridges |-> 0] /\ taken = sent /\ said = sent
    /\ worker = [b \in Bridges |-> Resting]
    /\ pending = [kind \in Asks |-> NoOne] /\ probing = FALSE
    /\ applied = <<>>

Runs == loop.at # "ended"

-----------------------------------------------------------------------------
(* The thread that reads keys.                                             *)

ReadKey ==
    /\ Runs /\ Len(unread) < TERM_CAP /\ keysRead < MaxKeysRead
    /\ \E key \in {"submit", "select", "answer", "quit"} : unread' = Append(unread, key)
    /\ keysRead' = keysRead + 1
    /\ UNCHANGED <<loop, bridge, wires, worker, pending, probing, applied>>

-----------------------------------------------------------------------------
(* An agent's task.                                                        *)

\* recv: a task whose bridge is gone takes what is left in its mailbox first.
TakeNext(b) ==
    /\ Runs /\ worker[b].at = "waits" /\ mailbox[b] # <<>>
    /\ mailbox' = [mailbox EXCEPT ![b] = Tail(@)]
    /\ taken' = [taken EXCEPT ![b] = @ + 1]
    /\ \E n \in 0 .. MaxEvents : worker' = [worker EXCEPT ![b] = [at |-> "works", left |-> n]]
    /\ UNCHANGED <<unread, keysRead, loop, bridge, stream, sent, said, pending, probing, applied>>

\* What is sent on a channel nobody receives from is lost.
Emit(b, kind) ==
    /\ Runs /\ worker[b].at = "works" /\ worker[b].left > 0
    /\ IF b = bridge
       THEN /\ Len(stream[b]) < EVENTS_CAP
            /\ said' = [said EXCEPT ![b] = @ + 1]
            /\ stream' = [stream EXCEPT ![b] = Append(@, [n |-> said'[b], kind |-> kind])]
       ELSE UNCHANGED <<said, stream>>

Report(b) ==
    /\ Emit(b, "progress")
    /\ worker' = [worker EXCEPT ![b].left = @ - 1]
    /\ UNCHANGED <<unread, keysRead, loop, bridge, mailbox, sent, taken, pending, probing, applied>>

\* request and gate_plan: without anybody who listens the answer is no.
Request(b, kind) ==
    /\ Emit(b, kind)
    /\ worker' = [worker EXCEPT ![b] = [at |-> IF b = bridge THEN kind ELSE "works", left |-> @.left - 1]]
    /\ UNCHANGED <<unread, keysRead, loop, bridge, mailbox, sent, taken, pending, probing, applied>>

FinishTurn(b) ==
    /\ Runs /\ worker[b] = [at |-> "works", left |-> 0]
    /\ worker' = [worker EXCEPT ![b] = Resting]
    /\ UNCHANGED <<unread, keysRead, loop, bridge, wires, pending, probing, applied>>

\* A prompt was answered, or dropped: who asked it goes on.
Freed(askers) ==
    worker' = [b \in Bridges |-> IF b \in askers THEN [worker[b] EXCEPT !.at = "works"] ELSE worker[b]]

AsksIn(events) == \E i \in DOMAIN events : events[i].kind \in Asks

-----------------------------------------------------------------------------
(* The loop.                                                               *)

\* The mailbox takes the message the loop waits with.
Deliver ==
    /\ loop.at = "send" /\ Len(mailbox[bridge]) < INBOX_CAP
    /\ mailbox' = [mailbox EXCEPT ![bridge] = Append(@, loop.message)]
    /\ loop' = Selecting
    /\ UNCHANGED <<unread, keysRead, bridge, stream, worker, pending, probing, sent, taken, said, applied>>

\* Fault: the loop does not wait for room, and the message is lost.
SendTrying ==
    /\ IF bridge = 0 THEN UNCHANGED <<sent, mailbox>>
       ELSE /\ sent' = [sent EXCEPT ![bridge] = @ + 1]
            /\ mailbox' = IF Len(mailbox[bridge]) < INBOX_CAP
                          THEN [mailbox EXCEPT ![bridge] = Append(@, sent'[bridge])] ELSE mailbox
    /\ UNCHANGED <<loop, bridge, stream, worker, pending, probing, taken, said>>

\* submit, clear and the other actions that tell the agent something.
Send ==
    /\ IF bridge = 0 THEN UNCHANGED <<loop, sent>>
       ELSE /\ sent' = [sent EXCEPT ![bridge] = @ + 1]
            /\ loop' = Sending(sent'[bridge])
    /\ UNCHANGED <<bridge, mailbox, stream, worker, pending, probing, taken, said>>

\* spawn_session: the receiver of the bridge before is dropped with the events in
\* it and the plan review is closed; a permission prompt stays.
SpawnBridge ==
    /\ bridge + 1 \in Bridges /\ bridge' = bridge + 1
    /\ pending' = [pending EXCEPT !["plan"] = NoOne]
    /\ stream' = IF bridge = 0 THEN stream ELSE [stream EXCEPT ![bridge] = <<>>]
    /\ Freed({pending["plan"]} \union {b \in {bridge} \ {0} : AsksIn(stream[b])})
    /\ UNCHANGED <<mailbox, sent, taken, said>>

\* SelectModel: a model that was never probed may be, with the user's consent.
ChooseModel ==
    /\ IF bridge + 1 \in Bridges THEN SpawnBridge ELSE UNCHANGED <<bridge, pending, worker, wires>>
    /\ probing' \in (IF bridge' = bridge THEN {probing} ELSE BOOLEAN)
    /\ UNCHANGED loop

\* answer_permission or answer_plan.
Answer ==
    LET kind == IF pending["permission"] # NoOne THEN "permission" ELSE "plan"
    IN  /\ Freed({pending[kind]})
        /\ pending' = [pending EXCEPT ![kind] = NoOne]
        /\ UNCHANGED <<loop, bridge, wires, probing>>

Ignore == UNCHANGED <<loop, bridge, wires, worker, pending, probing>>

\* Quit: every task ends with the program.
Quit == loop' = [loop EXCEPT !.at = "ended"] /\ UNCHANGED <<bridge, wires, worker, pending, probing>>

\* handle_key and apply_action: a prompt takes every key.
ApplyAction(key) ==
    LET prompted == \E kind \in Asks : pending[kind] # NoOne
    IN  CASE key = "quit"                  -> Quit
          [] key = "answer" /\ prompted    -> Answer
          [] key = "submit" /\ ~prompted   -> Send
          [] key = "select" /\ ~prompted   -> ChooseModel
          [] OTHER                         -> Ignore

HandleKey ==
    /\ loop.at = "select" /\ unread # <<>>
    /\ unread' = Tail(unread)
    /\ ApplyAction(Head(unread))
    /\ UNCHANGED <<keysRead, applied>>

\* A prompt takes the place of the one before, which is dropped.
Show(kind) ==
    /\ pending' = [pending EXCEPT ![kind] = bridge]
    /\ Freed({pending[kind]} \ {bridge})

\* apply_event, of the events that matter here.
TakeEvent ==
    /\ loop.at = "select" /\ bridge # 0 /\ stream[bridge] # <<>>
    /\ LET event == Head(stream[bridge])
       IN  /\ applied' = Append(applied, [from |-> bridge, n |-> event.n])
           /\ IF event.kind \in Asks
              THEN Show(event.kind)
              ELSE UNCHANGED <<pending, worker>>
    /\ stream' = [stream EXCEPT ![bridge] = Tail(@)]
    /\ UNCHANGED <<unread, keysRead, loop, bridge, mailbox, probing, sent, taken, said>>

\* apply_caps_result: the agent is spawned again, whatever it was doing.
TakeCaps ==
    /\ loop.at = "select" /\ probing
    /\ probing' = FALSE
    /\ SpawnBridge
    /\ UNCHANGED <<unread, keysRead, loop, applied>>

LoopNext ==
    \/ ReadKey \/ HandleKey \/ Deliver \/ TakeEvent \/ TakeCaps
    \/ \E b \in Bridges :
          TakeNext(b) \/ Report(b) \/ FinishTurn(b) \/ \E kind \in Asks : Request(b, kind)

LoopSpec == LoopInit /\ [][LoopNext]_loopVars

-----------------------------------------------------------------------------
FirstNumbers(n) == [i \in 1 .. n |-> i]
Waiting(b) == IF b = bridge /\ loop.at = "send" THEN <<loop.message>> ELSE <<>>

\* How many events of its bridge the loop has taken.
Heard ==
    LET last == Len(applied)
    IN  IF last > 0 /\ applied[last].from = bridge THEN applied[last].n ELSE 0

\* The loop takes the events of each agent from the first one on, one agent after
\* the other, and of its own it has taken all but what is still in the channel.
EventsAgree ==
    /\ \A i \in DOMAIN applied :
          LET event == applied[i]
          IN  /\ event.n <= said[event.from]
              /\ \/ event.n = 1 /\ (i > 1 => applied[i - 1].from < event.from)
                 \/ i > 1 /\ applied[i - 1] = [event EXCEPT !.n = @ - 1]
    /\ \A b \in Bridges :
          IF b = bridge
          THEN /\ said[b] = Heard + Len(stream[b])
               /\ \A i \in DOMAIN stream[b] : stream[b][i].n = Heard + i
          ELSE stream[b] = <<>>

\* Each agent took, in order, the messages that are not in its mailbox or waited with.
MessagesAgree ==
    \A b \in Bridges : FirstNumbers(taken[b]) \o mailbox[b] \o Waiting(b) = FirstNumbers(sent[b])

\* An agent that waits for an answer waits for a prompt that is shown or on its way,
\* whoever was spawned since.
PromptsAgree ==
    \A b \in Bridges :
        worker[b].at \in Asks =>
            pending[worker[b].at] = b \/ (b = bridge /\ AsksIn(stream[b]))

\* The loop is kept from the keys by more than INBOX_CAP messages not taken, by
\* nothing less.
InboxAgrees ==
    loop.at = "send" =>
        LET behind == sent[bridge] - taken[bridge]
        IN  behind > 0 /\ (behind <= INBOX_CAP => Len(mailbox[bridge]) < INBOX_CAP)

\* Between the tasks nothing is lost, doubled or reordered, nobody waits for an
\* answer that cannot come, and the loop waits only behind a full inbox.
TasksAgree == EventsAgree /\ MessagesAgree /\ PromptsAgree /\ InboxAgrees
=============================================================================
