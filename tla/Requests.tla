------------------------------ MODULE Requests ------------------------------
(***************************************************************************)
(* The conversation of one session and the request made of it: context/    *)
(* of crates/suis-agent (assembler, budget, work package) and the lowering *)
(* of messages in crates/suis-providers/src/transport.                     *)
(*                                                                         *)
(* The history grows a turn at a time.  Every request is a pruned copy of  *)
(* it; the invariants speak of the request each state would send.  A text  *)
(* is abstracted to what kind of message it is, and costs that kind's      *)
(* estimate.  A tool result carries, as `of`, the call it really answers,  *)
(* which the code does not record.                                         *)
(***************************************************************************)
EXTENDS Integers, Sequences, FiniteSets, SequencesExt

CONSTANTS
    Args,               \* arguments of a call
    Nobody,
    ServerIds,          \* whether the provider gives each call an id of its own
    Cost,               \* estimated tokens per kind of message
    Budget,             \* the session's context_budget
    ProtectedTurns,     \* PROTECTED_TURNS (4)
    RecentTurns,        \* the turns whose tool results stay (2)
    MaxMessages         \* bound: messages of the history

Kinds == {"system", "task", "prompt", "text", "silent", "package", "summary", "ledger", "note",
          "result", "pruned", "superseded", "notice"}

ASSUME RequestConstants ==
    /\ ServerIds \in BOOLEAN
    /\ Cost \in [Kinds -> Nat \ {0}]
    /\ {Budget, ProtectedTurns, RecentTurns, MaxMessages} \subseteq Nat
    /\ 0 < RecentTurns /\ RecentTurns < ProtectedTurns

VARIABLES
    history,            \* the session's messages
    implement,          \* whether an implementation target is set
    active              \* whether a task of the session's list is in progress

requestVars == <<history, implement, active>>

Message(role, kind) ==
    [role |-> role, kind |-> kind, calls |-> <<>>, answers |-> Nobody, of |-> Nobody]

CallsAs(kind, calls) == [Message("assistant", kind) EXCEPT !.calls = calls]
Answer(call) == [Message("tool", "result") EXCEPT !.answers = call.id, !.of = call]

IsReadOnly(name) == name = "read"

RequestsInit ==
    /\ history = <<>>
    /\ implement = FALSE
    /\ active \in BOOLEAN

-----------------------------------------------------------------------------
(* The conversation.                                                       *)

Say(messages) ==
    /\ history' = history \o messages
    /\ Len(history') <= MaxMessages

\* A turn runs: its last message is not an assistant's final text.
InTurn ==
    /\ history # <<>>
    /\ \/ Last(history).kind \in {"prompt", "result"}
       \/ Last(history).kind = "note"

\* run_turn: the user's input opens a turn, also after one that failed.
Prompt ==
    /\ Say(<<Message("user", "prompt")>>)
    /\ UNCHANGED <<implement, active>>

\* The ids of a reply's calls.  Ollama's transport and the recovery of calls
\* from text number the calls, in each chunk of the stream and in each text anew.
IdsFor(n) ==
    IF ServerIds THEN {[k \in 1 .. n |-> <<Len(history), k>>]}
    ELSE {[k \in 1 .. n |-> k], [k \in 1 .. n |-> 1]}

Replies == UNION {[1 .. n -> [name : {"read", "edit"}, arg : Args]] : n \in 1 .. 2}

\* A reply with calls and the results of all of them, executed or not.
\* The repetition guard may append its note after them.
Round ==
    /\ InTurn
    /\ \E reply \in Replies : \E ids \in IdsFor(Len(reply)) : \E noted \in BOOLEAN :
          LET calls == [k \in DOMAIN reply |->
                            [id |-> ids[k], name |-> reply[k].name, arg |-> reply[k].arg]]
          IN Say(<<CallsAs("text", calls)>> \o [k \in DOMAIN calls |-> Answer(calls[k])]
                 \o (IF noted THEN <<Message("system", "note")>> ELSE <<>>))
    /\ UNCHANGED <<implement, active>>

\* A reply without calls, perhaps without text: the turn's end, or a failed
\* verification's note.
Settle ==
    /\ InTurn
    /\ \E failed \in BOOLEAN, kind \in {"text", "silent"} :
          Say(<<Message("assistant", kind)>>
              \o (IF failed THEN <<Message("system", "note")>> ELSE <<>>))
    /\ UNCHANGED <<implement, active>>

\* seed_implement_context: the work package, if the plan could be read, and the
\* ledger, if there is one.
Seed(found, ledger) ==
    (IF found THEN <<Message("user", "package")>> ELSE <<>>)
        \o (IF ledger THEN <<Message("system", "ledger")>> ELSE <<>>)

\* The driver begins a task: a fresh history, then the turn's prompt.
SeedTask ==
    /\ implement' = TRUE
    /\ \E found, ledger \in BOOLEAN :
          history' = Seed(found, ledger) \o <<Message("user", "prompt")>>
    /\ UNCHANGED active

\* /compact that came to its end: the summary, and the seed again.
Compact ==
    /\ history # <<>>
    /\ \E found, ledger \in BOOLEAN :
          history' = <<Message("system", "summary")>>
                        \o (IF implement THEN Seed(found, ledger) ELSE <<>>)
    /\ UNCHANGED <<implement, active>>

\* /clear.
ClearHistory ==
    /\ history # <<>>
    /\ history' = <<>> /\ implement' = FALSE
    /\ UNCHANGED active

\* The task tool moves a task of the list to or from `doing`.
ToggleActive ==
    /\ InTurn
    /\ active' = ~active
    /\ UNCHANGED <<history, implement>>

RequestsNext ==
    \/ Prompt \/ Round \/ Settle \/ SeedTask \/ Compact \/ ClearHistory \/ ToggleActive

RequestsSpec == RequestsInit /\ [][RequestsNext]_requestVars

-----------------------------------------------------------------------------
(* The request: ContextAssembler::build and budget::prune.  Indices count   *)
(* from 1; `first` is the number of messages that are never pruned.         *)

Total(ms) == FoldLeft(LAMBDA sum, m : sum + Cost[m.kind], 0, ms)
Fits(ms) == Total(ms) <= Budget

\* Positions in their order.
InOrder(places) ==
    [n \in 1 .. Cardinality(places) |->
        CHOOSE i \in places : Cardinality({j \in places : j <= i}) = n]

\* user_turn_starts.
TurnStarts(ms, prefix) == InOrder({i \in DOMAIN ms : i > prefix /\ ms[i].role = "user"})

\* The call made last, of calls given by message and position.
Latest(calls) ==
    CHOOSE p \in calls : \A q \in calls : q[1] < p[1] \/ (q[1] = p[1] /\ q[2] <= p[2])

\* The read-only calls with an id, and what the last of them asked for.
ReadCalls(ms, id) ==
    {p \in UNION {{<<i, k>> : k \in DOMAIN ms[i].calls} : i \in DOMAIN ms} :
        LET call == ms[p[1]].calls[p[2]] IN call.id = id /\ IsReadOnly(call.name)}

Signature(ms, m) ==
    LET calls == ReadCalls(ms, m.answers)
        last == Latest(calls)
    IN IF m.role # "tool" \/ calls = {} THEN Nobody
       ELSE <<ms[last[1]].calls[last[2]].name, ms[last[1]].calls[last[2]].arg>>

\* A stub takes the place of the messages at these positions.
Stubbed(ms, at, kind) ==
    [i \in DOMAIN ms |-> IF i \in at THEN [ms[i] EXCEPT !.kind = kind] ELSE ms[i]]

\* The results of read-only calls past the first messages, and what each was for.
Signed(ms, first) ==
    {r \in {[at |-> i, of |-> Signature(ms, ms[i])] : i \in (first + 1) .. Len(ms)} : r.of # Nobody}

\* Fault: the first of the results of a call stays, and not the last.
CoalesceKeepingFirst(ms, first) ==
    LET signed == Signed(ms, first)
    IN  Stubbed(ms, {r.at : r \in {r \in signed : \E o \in signed : o.of = r.of /\ o.at < r.at}}, "superseded")

\* coalesce_read_only: of the results of one call, all but the last are stubs.
Coalesce(ms, first) ==
    LET signed == Signed(ms, first)
    IN  Stubbed(ms, {r.at : r \in {r \in signed : \E o \in signed : o.of = r.of /\ o.at > r.at}}, "superseded")

\* Pass 1: stubs for the results older than the last turns.
StubOld(ms, prefix, first) ==
    LET starts == TurnStarts(ms, prefix)
        recent == IF Len(starts) <= RecentTurns THEN 0 ELSE starts[Len(starts) - RecentTurns + 1]
    IN Stubbed(ms, {i \in DOMAIN ms : first < i /\ i < recent /\ ms[i].role = "tool"}, "pruned")

\* Fault: messages are dropped one by one.
WithoutMessages(ms, prefix, pin, n) ==
    LET from == prefix + (IF pin THEN 1 ELSE 0)
    IN SubSeq(ms, 1, from) \o SubSeq(ms, from + n + 1, Len(ms))

\* Without its n oldest turns, but for the pinned one.
WithoutTurns(ms, prefix, pin, n) ==
    LET starts == Append(TurnStarts(ms, prefix), Len(ms) + 1)
        oldest == IF pin THEN 2 ELSE 1
    IN IF n = 0 THEN ms
       ELSE SubSeq(ms, 1, starts[oldest] - 1) \o SubSeq(ms, starts[oldest + n], Len(ms))

\* Pass 2: whole turns go until the rest fits or only the protected ones are left.
DropOld(ms, prefix, pin, first) ==
    LET turns == Len(TurnStarts(ms, prefix))
        most == turns - ProtectedTurns - (IF pin THEN 1 ELSE 0)
        enough == {n \in 0 .. most : Fits(WithoutTurns(ms, prefix, pin, n)) \/ n = most}
        n == CHOOSE n \in enough : \A m \in enough : n <= m
        rest == WithoutTurns(ms, prefix, pin, n)
    IN IF most <= 0 \/ n = 0 THEN ms
       ELSE SubSeq(rest, 1, first) \o <<Message("system", "notice")>>
                \o SubSeq(rest, first + 1, Len(rest))

Prune(ms, prefix, pin) ==
    LET whole == prefix + (IF pin THEN 1 ELSE 0)
        first == IF whole <= Len(ms) THEN whole ELSE Len(ms)
        coalesced == Coalesce(ms, first)
        stubbed == StubOld(coalesced, prefix, first)
    IN IF Fits(ms) THEN ms
       ELSE IF Fits(coalesced) THEN coalesced
       ELSE IF Fits(stubbed) THEN stubbed
       ELSE DropOld(stubbed, prefix, pin, first)

\* The system prompt and the note of the active task.
Pinned == <<Message("system", "system")>>
            \o (IF active THEN <<Message("system", "task")>> ELSE <<>>)

Request == Prune(Pinned \o history, Len(Pinned), implement)

-----------------------------------------------------------------------------
(* On the wire.                                                            *)

\* OpenAI: message by message, a call by its id and a result by that of its call.
OutMessage(m) == [uses |-> [k \in DOMAIN m.calls |-> m.calls[k].id], answers |-> m.answers]
OpenAiMessages(ms) == [i \in DOMAIN ms |-> OutMessage(ms[i])]

\* Ollama: a result carries the name that its id is mapped to, the last one.
ToolName(ms, m) ==
    LET calls == {p \in UNION {{<<i, k>> : k \in DOMAIN ms[i].calls} : i \in DOMAIN ms} :
                    ms[p[1]].calls[p[2]].id = m.answers}
        last == Latest(calls)
    IN IF calls = {} THEN Nobody ELSE ms[last[1]].calls[last[2]].name

\* Anthropic: system texts are hoisted; the rest become blocks of user and
\* assistant messages, and neighbours of one role are merged.
Blocks(m) ==
    (IF m.role = "tool" \/ m.kind = "silent" THEN <<>> ELSE <<[kind |-> "text", id |-> Nobody]>>)
        \o [k \in DOMAIN m.calls |-> [kind |-> "use", id |-> m.calls[k].id]]
        \o (IF m.role = "tool" THEN <<[kind |-> "result", id |-> m.answers]>> ELSE <<>>)

RoleOnWire(m) == IF m.role = "assistant" THEN "assistant" ELSE "user"

\* Fault: neighbours of one role stay apart.
LowerApart(ms) ==
    LET said == SelectSeq(ms, LAMBDA m : m.role # "system" /\ Blocks(m) # <<>>)
    IN [i \in DOMAIN said |-> [role |-> RoleOnWire(said[i]), blocks |-> Blocks(said[i])]]

\* One message more: none if it is the system's or empty, part of the last one if
\* that has its role, or else one of its own.
WithMessage(out, m) ==
    IF m.role = "system" \/ Blocks(m) = <<>> THEN out
    ELSE IF out # <<>> /\ out[Len(out)].role = RoleOnWire(m)
    THEN [out EXCEPT ![Len(out)].blocks = @ \o Blocks(m)]
    ELSE Append(out, [role |-> RoleOnWire(m), blocks |-> Blocks(m)])

Lower(ms) ==
    LET low[i \in 0 .. Len(ms)] == IF i = 0 THEN <<>> ELSE WithMessage(low[i - 1], ms[i])
    IN  low[Len(ms)]

-----------------------------------------------------------------------------
(* Properties of the request.                                              *)

IdsOf(blocks, kind) == {blocks[k].id : k \in {j \in DOMAIN blocks : blocks[j].kind = kind}}

\* However history was pruned, every call in the request has its result right
\* after it and every result its call right before it: on the OpenAI wire message
\* by message, on Anthropic's in blocks of messages that alternate, from the user's.
\* On Ollama's, where a result is matched by name, it carries the name of its call,
\* as long as ids are not given out twice.
WireTrue ==
    LET ms == Request
        sent == OpenAiMessages(ms)
        low == Lower(ms)
    IN /\ \A i \in DOMAIN sent :
             /\ \A k \in DOMAIN sent[i].uses :
                    i + k \in DOMAIN sent /\ sent[i + k].answers = sent[i].uses[k]
             /\ sent[i].answers # Nobody =>
                    /\ \E k \in 1 .. (i - 1) :
                        k \in DOMAIN sent[i - k].uses /\ sent[i - k].uses[k] = sent[i].answers
                    /\ ServerIds => ToolName(ms, ms[i]) = ms[i].of.name
       /\ \A i \in DOMAIN low :
             /\ low[i].role = (IF i % 2 = 1 THEN "user" ELSE "assistant")
             /\ IdsOf(low[i].blocks, "use") =
                    (IF i < Len(low) THEN IdsOf(low[i + 1].blocks, "result") ELSE {})
             /\ i = 1 => IdsOf(low[i].blocks, "result") = {}

WithoutNotice(ms) ==
    LET notices == {i \in DOMAIN ms : ms[i].kind = "notice"}
    IN  IF notices = {} THEN ms ELSE RemoveAt(ms, CHOOSE i \in notices : TRUE)

\* What pruning may not touch is there: the prefix, the work package, the last
\* turns message by message, and in the latest ones every result, except one
\* that a later result of the same call supersedes.  It prunes until the request
\* fits, the notice apart, or nothing that it may touch is left.
PruneSound(ms) ==
    LET all == Pinned \o history
        starts == TurnStarts(history, 0)
        from(turns) == IF Len(starts) <= turns THEN 1 ELSE starts[Len(starts) - turns + 1]
        shift == Len(ms) - Len(history)
        outStarts == TurnStarts(ms, Len(Pinned))
        floor == ProtectedTurns + (IF implement THEN 1 ELSE 0)
    IN /\ SubSeq(ms, 1, Len(Pinned)) = Pinned
       /\ (\E i \in DOMAIN history : history[i].kind = "package")
             => \E i \in DOMAIN ms : ms[i].kind = "package"
       /\ \A i \in DOMAIN history :
             /\ i >= from(ProtectedTurns) =>
                   ms[i + shift] = history[i]
                     \/ (history[i].role = "tool" /\ ms[i + shift].of = history[i].of)
             /\ (i >= from(RecentTurns) /\ ms[i + shift] # history[i]) =>
                   ms[i + shift].kind = "superseded"
       /\ Fits(all) => ms = all
       /\ ~Fits(WithoutNotice(ms)) =>
             /\ Len(outStarts) <= floor
             /\ \A i \in DOMAIN ms :
                    (ms[i].kind = "result" /\ i > Len(Pinned) + 1) =>
                        i - shift >= from(RecentTurns)

\* "earlier identical read/search/tree result superseded - see the latest below":
\* below such a stub there is a result of the very same call, or its own stub.
StubsTrue(ms) ==
    \A i \in DOMAIN ms : ms[i].kind = "superseded" =>
        \E j \in (i + 1) .. Len(ms) :
            /\ ms[j].kind \in {"result", "pruned"}
            /\ ms[j].of.name = ms[i].of.name /\ ms[j].of.arg = ms[i].of.arg

\* Both, of the request that is sent.
PruneTrue == LET ms == Request IN PruneSound(ms) /\ StubsTrue(ms)
=============================================================================
