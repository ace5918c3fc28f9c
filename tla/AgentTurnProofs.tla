--------------------------- MODULE AgentTurnProofs ----------------------------
(***************************************************************************)
(* Theorems about AgentTurn, for every set of tools and every bound: types, *)
(* the modes of sub-agents and what they may write, the events that end a   *)
(* turn, the fate of a press, and what a turn leaves in a conversation and  *)
(* in a frame: every tool call is answered, edits are verified before a     *)
(* turn settles, and a retry starts clean.                                  *)
(***************************************************************************)
EXTENDS AgentTurn, CommonLemmas

Places == {"idle", "top", "connect", "stream", "backoff", "verify",
           "scan", "serial", "tool", "noteRequest", "note"}
Outcomes == {"none", "completed", "errored", "interrupted"}
Owners == SubAgents \union {"none"}

Calls == [tool : AllTools, try : Nat]
Messages == [role : {"user", "system", "assistant", "tool"}, calls : Seq(AllTools), id : Nat]
Frames ==
    [limit : Nat, sub : Owners, iter : Nat, anchor : Nat, rounds : 0 .. MaxVerifyRounds,
     seen : SUBSET Orientation, redundant : Nat, noted : BOOLEAN,
     retries : 0 .. MaxRetries, chunks : Nat, shown : BOOLEAN, emitted : BOOLEAN,
     content : SUBSET Nat, held : SUBSET Nat, calls : Seq(Calls), cur : Nat,
     edited : BOOLEAN, subEdited : BOOLEAN]
Saved == [history : Seq(Messages), mode : Modes, fr : Frames]
Turns ==
    [n : Nat, mode : Modes, tools : SUBSET AllTools, autoVerify : BOOLEAN,
     events : Seq(Terminal), outcome : Outcomes, presses : Nat, pressed : BOOLEAN,
     swallowed : BOOLEAN, wrote : SUBSET Owners]

\* The types in full; the frame set aside keeps its limit too.
Types ==
    /\ pc \in Places
    /\ history \in Seq(Messages)
    /\ mode \in Modes
    /\ fr \in Frames /\ fr.iter <= fr.limit
    /\ IsNested => /\ parent = <<parent[1]>> /\ parent[1] \in Saved
                   /\ parent[1].fr.iter <= parent[1].fr.limit
    /\ unseen \in BOOLEAN
    /\ turn \in Turns

\* Who runs: the frame of the user's turn, or a sub-agent's over it.
Nesting ==
    /\ IsNested => /\ parent[1].mode = turn.mode /\ parent[1].fr.sub = "none"
                   /\ fr.sub \in SubAgents /\ mode = SubMode(fr.sub)
    /\ ~IsNested => fr.sub = "none" /\ (turn.n > 0 => mode = turn.mode)
    /\ pc = "idle" => ~IsNested
    /\ pc \in {"noteRequest", "note"} => IsNested
    /\ pc # "idle" => turn.n > 0

EventOf == [completed |-> "done", errored |-> "error", interrupted |-> "interrupted"]

\* The events of a turn; Done is not among them while it runs.
Events ==
    LET k == Len(turn.events)
    IN  /\ pc # "idle" => turn.outcome = "none" /\ \A i \in 1 .. k : turn.events[i] # "done"
        /\ pc = "idle" /\ turn.n > 0 =>
              /\ turn.outcome # "none" /\ k > 0
              /\ turn.events[k] = EventOf[turn.outcome]
              /\ \A i \in 1 .. (k - 1) : turn.events[i] # "done"
        /\ turn.n = 0 => turn.events = <<>>

\* A press of the running turn is unseen until a wait has consumed it.
Presses ==
    /\ pc # "idle" /\ unseen => turn.pressed
    /\ pc # "idle" /\ turn.pressed /\ ~turn.swallowed => unseen
    /\ NoStalePress

AInv == Types /\ Nesting /\ ReconNeverWrites /\ Events /\ Presses

-----------------------------------------------------------------------------
(* Data.                                                                    *)

\* The call the loop takes up next is one of the batch.
LEMMA NextCallRemains ==
    ASSUME NEW f \in Frames, Remaining(f) # {}
    PROVE  NextCall(f) \in DOMAIN f.calls /\ NextCall(f) \in Nat
<1>1. f.calls \in Seq(Calls)
  BY DEF Frames
<1>2. DOMAIN f.calls \subseteq Nat
  BY <1>1
<1>3. Remaining(f) \in SUBSET Nat /\ Remaining(f) \subseteq DOMAIN f.calls
  BY <1>2 DEF Remaining
<1>4. NextCall(f) \in Remaining(f)
  BY <1>3, Least DEF NextCall
<1> QED
  BY <1>2, <1>3, <1>4

\* What the constants allow.
LEMMA Constants ==
    /\ \A k \in {MaxIterations, SubIterations, MaxRetries, MaxVerifyRounds,
                 RedundantReadLimit, MaxChunks, MaxTurns, MaxPresses} : k \in Nat
    /\ \A m \in UserModes : m \in Modes
    /\ \A v \in AutoVerify : v \in BOOLEAN
    /\ \A ts \in ToolSets : ts \subseteq AllTools
  BY TurnConstants

\* The conversation's messages.
LEMMA MessageTypes ==
    /\ UserMessage \in Messages /\ SystemMessage \in Messages
    /\ \A calls \in Seq(AllTools) : AssistantMessage(calls) \in Messages
    /\ \A id \in Nat : ToolMessage(id) \in Messages
    /\ <<>> \in Seq(AllTools)
  BY DEF Messages, UserMessage, SystemMessage, AssistantMessage, ToolMessage, Message

\* The calls of a batch and the answers recorded for them.
LEMMA BatchTypes ==
    ASSUME NEW f \in Frames
    PROVE  ToolsOf(f) \in Seq(AllTools) /\ Recorded(f) \in Seq(Messages)
<1>1. f.calls \in Seq(Calls)
  BY DEF Frames
<1>2. \A i \in DOMAIN f.calls : f.calls[i].tool \in AllTools
  <2>1. \A i \in DOMAIN f.calls : f.calls[i] \in Calls
    BY <1>1
  <2> QED
    BY <2>1 DEF Calls
<1>3. ToolsOf(f) \in Seq(AllTools)
  <2>1. \A i \in 1 .. Len(f.calls) : f.calls[i].tool \in AllTools
    BY <1>1, <1>2
  <2>2. ToolsOf(f) = [i \in 1 .. Len(f.calls) |-> f.calls[i].tool]
    BY <1>1 DEF ToolsOf
  <2> QED
    BY <1>1, <2>1, <2>2
<1>4. \A i \in DOMAIN f.calls : ToolMessage(i) \in Messages
  BY <1>1, MessageTypes
<1>5. Recorded(f) \in Seq(Messages)
  BY <1>1, <1>4 DEF Recorded
<1> QED
  BY <1>3, <1>5

\* A new frame is a frame, with nothing spent of its limit.
LEMMA NewFrameType ==
    ASSUME NEW limit \in Nat, NEW len \in Nat, NEW sub \in Owners, NEW f,
           f = NewFrame(limit, len, sub)
    PROVE  f \in Frames /\ f.iter <= f.limit /\ f.sub = sub
<1>1. MaxRetries \in Nat /\ MaxVerifyRounds \in Nat
  BY Constants
<1> QED
  BY <1>1 DEF NewFrame, Frames

\* A clean slate clears what was streamed and keeps the rest.
LEMMA CleanSlateType ==
    ASSUME NEW f \in Frames, NEW g, g = CleanSlate(f)
    PROVE  /\ g \in Frames /\ g.iter = f.iter /\ g.limit = f.limit /\ g.sub = f.sub
           /\ g.retries = f.retries /\ g.shown = f.shown
           /\ g.emitted = FALSE /\ g.content = {} /\ g.held = {} /\ g.calls = <<>>
           /\ g.anchor = f.anchor /\ g.rounds = f.rounds /\ g.edited = f.edited
<1>0. <<>> \in Seq(Calls)
  OBVIOUS
<1>1. PICK none \in Seq(Calls) : none = <<>>
  BY <1>0
<1>2. g = [f EXCEPT !.content = {}, !.held = {}, !.calls = none, !.emitted = FALSE, !.chunks = 0]
  BY <1>1, Zenon DEF CleanSlate
<1>3. /\ g.iter = f.iter /\ g.limit = f.limit /\ g.sub = f.sub
      /\ g.retries = f.retries /\ g.shown = f.shown
      /\ g.emitted = FALSE /\ g.content = {} /\ g.held = {} /\ g.calls = none
      /\ g.anchor = f.anchor /\ g.rounds = f.rounds /\ g.edited = f.edited
  BY <1>1, <1>2 DEF Frames
<1>4. [f EXCEPT !.content = {}, !.held = {}, !.calls = none, !.emitted = FALSE, !.chunks = 0]
         \in Frames
  BY DEF Frames
<1>5. g.calls = <<>>
  BY <1>1, <1>3
<1>6. g \in Frames
  BY <1>2, <1>4, Zenon
<1> QED
  BY <1>3, <1>5, <1>6

\* An event more, and perhaps an outcome, leave the rest of the turn alone.
LEMMA EmitType ==
    ASSUME turn \in Turns, NEW ev \in Terminal, NEW o \in Outcomes,
           turn' = [turn EXCEPT !.events = Append(turn.events, ev), !.outcome = o]
    PROVE  /\ turn' \in Turns /\ turn'.events = Append(turn.events, ev) /\ turn'.outcome = o
           /\ turn'.n = turn.n /\ turn'.mode = turn.mode /\ turn'.wrote = turn.wrote
           /\ turn'.pressed = turn.pressed /\ turn'.swallowed = turn.swallowed
<1>1. Append(turn.events, ev) \in Seq(Terminal)
  BY DEF Turns
<1>2. PICK es \in Seq(Terminal) : es = Append(turn.events, ev)
  BY <1>1
<1>3. turn' = [turn EXCEPT !.events = es, !.outcome = o]
  BY <1>2
<1>4. [turn EXCEPT !.events = es, !.outcome = o] \in Turns
  BY DEF Turns
<1>5. /\ turn'.events = es /\ turn'.outcome = o
      /\ turn'.n = turn.n /\ turn'.mode = turn.mode /\ turn'.wrote = turn.wrote
      /\ turn'.pressed = turn.pressed /\ turn'.swallowed = turn.swallowed
  BY <1>3 DEF Turns
<1> QED
  BY <1>2, <1>3, <1>4, <1>5

\* How the events of a turn end.
LEMMA EventsEnd ==
    ASSUME Types, Events, pc # "idle", pc' = "idle", turn' \in Turns, turn'.n > 0,
           NEW some \in Seq(Terminal), \A i \in 1 .. Len(some) : some[i] # "done",
           turn'.outcome \in Outcomes \ {"none"},
           turn'.events = Append(turn.events \o some, EventOf[turn'.outcome])
    PROVE  Events'
<1> DEFINE es == turn.events
           k == Len(es)
<1>1. es \in Seq(Terminal) /\ k \in Nat /\ \A i \in 1 .. k : es[i] # "done"
  BY DEF Types, Turns, Events
<1>2. PICK all \in Seq(Terminal) : all = es \o some
  <2> HIDE DEF es
  <2>1. es \o some \in Seq(Terminal)
    BY <1>1
  <2> QED
    BY <2>1
<1>3. Len(all) = k + Len(some) /\ \A i \in 1 .. Len(all) : all[i] # "done"
  BY <1>1, <1>2
<1>4. turn'.events = Append(all, EventOf[turn'.outcome])
  BY <1>2
<1>5. EventOf[turn'.outcome] \in Terminal
  BY DEF EventOf, Outcomes, Terminal
<1>6. /\ Len(turn'.events) = Len(all) + 1
      /\ turn'.events[Len(all) + 1] = EventOf[turn'.outcome]
      /\ \A i \in 1 .. Len(all) : turn'.events[i] = all[i]
  BY <1>2, <1>4, <1>5
<1>7. Len(all) \in Nat
  BY <1>2
<1> QED
  BY <1>3, <1>6, <1>7 DEF Events

-----------------------------------------------------------------------------
(* The parts steps are made of.                                             *)

\* The frame works on: nothing a user sees changes.
LEMMA WorkSound ==
    ASSUME AInv, pc # "idle", pc' \in Places \ {"idle"},
           pc' \in {"noteRequest", "note"} => IsNested,
           UNCHANGED <<mode, parent, unseen, turn>>, history' \in Seq(Messages),
           fr' \in Frames, fr'.iter <= fr'.limit, fr'.sub = fr.sub
    PROVE  AInv'
<1>1. Types'
  BY DEF AInv, Types, IsNested
<1>2. Nesting'
  BY DEF AInv, Nesting, IsNested, SubMode
<1>3. ReconNeverWrites'
  BY DEF AInv, ReconNeverWrites
<1>4. Events'
  BY DEF AInv, Events
<1>5. Presses'
  BY DEF AInv, Presses, NoStalePress
<1> QED
  BY <1>1, <1>2, <1>3, <1>4, <1>5 DEF AInv

\* The user's own frame ends its turn.
LEMMA EndSound ==
    ASSUME AInv, pc # "idle", pc' = "idle", ~IsNested, UNCHANGED <<mode, parent>>,
           history' \in Seq(Messages), fr' \in Frames, fr'.iter <= fr'.limit, fr'.sub = fr.sub,
           unseen' \in BOOLEAN, NEW o \in Outcomes \ {"none"},
           turn' = [turn EXCEPT !.events = Append(turn.events, EventOf[o]), !.outcome = o],
           o = "interrupted" => unseen
    PROVE  AInv'
<1>1. EventOf[o] \in Terminal /\ turn \in Turns
  BY DEF EventOf, Outcomes, Terminal, AInv, Types
<1>3. /\ turn' \in Turns /\ turn'.events = Append(turn.events, EventOf[o]) /\ turn'.outcome = o
      /\ turn'.n = turn.n /\ turn'.mode = turn.mode /\ turn'.wrote = turn.wrote
      /\ turn'.pressed = turn.pressed /\ turn'.swallowed = turn.swallowed
  BY <1>1, EmitType
<1>4. Types'
  BY <1>3 DEF AInv, Types, IsNested, Places
<1>5. Nesting'
  BY <1>3 DEF AInv, Nesting, IsNested, SubMode
<1>6. ReconNeverWrites'
  BY <1>3 DEF AInv, ReconNeverWrites
<1>7. Events'
  <2>1. <<>> \in Seq(Terminal) /\ \A i \in 1 .. Len(<<>>) : <<>>[i] # "done"
    OBVIOUS
  <2>2. turn.events \o <<>> = turn.events
    BY <1>1 DEF Turns
  <2>3. turn'.n > 0
    BY <1>3 DEF AInv, Nesting
  <2>4. Types /\ Events
    BY DEF AInv
  <2> QED
    BY <1>3, <2>1, <2>2, <2>3, <2>4, EventsEnd
<1>8. Presses'
  BY <1>3 DEF AInv, Presses, NoStalePress
<1> QED
  BY <1>4, <1>5, <1>6, <1>7, <1>8 DEF AInv

\* A frame comes back from where it was set aside.
LEMMA ParentFacts ==
    ASSUME AInv, IsNested
    PROVE  /\ parent[1].history \in Seq(Messages) /\ parent[1].mode = turn.mode
           /\ parent[1].mode \in Modes /\ parent[1].fr \in Frames
           /\ parent[1].fr.iter <= parent[1].fr.limit /\ parent[1].fr.sub = "none"
  BY DEF AInv, Types, Nesting, Saved

\* A sub-agent is done with, whatever its edits, and the turn goes on.
LEMMA ReturnSound ==
    ASSUME AInv, IsNested, pc # "idle", NEW edited \in BOOLEAN, ReturnToParent(edited),
           unseen' \in BOOLEAN, turn' \in Turns,
           turn'.n = turn.n, turn'.mode = turn.mode, turn'.wrote = turn.wrote,
           turn'.outcome = turn.outcome, turn'.pressed = turn.pressed,
           unseen' => unseen, turn.pressed /\ ~turn'.swallowed => unseen',
           \A i \in 1 .. Len(turn'.events) : turn'.events[i] # "done"
    PROVE  AInv'
<1>1. PICK f : f = parent[1].fr
  OBVIOUS
<1>2. f \in Frames /\ f.iter <= f.limit /\ f.sub = "none"
  BY <1>1, ParentFacts
<1>3. fr' = [f EXCEPT !.subEdited = f.subEdited \/ edited]
  BY <1>1, Zenon DEF ReturnToParent
<1>4. fr' \in Frames /\ fr'.iter <= fr'.limit /\ fr'.sub = "none"
  BY <1>2, <1>3 DEF Frames
<1>5. ~IsNested' /\ pc' = "serial" /\ history' \in Seq(Messages) /\ mode' = turn.mode
      /\ mode' \in Modes
  BY ParentFacts DEF ReturnToParent, IsNested
<1>6. Types'
  BY <1>4, <1>5 DEF AInv, Types, Places
<1>7. Nesting'
  BY <1>4, <1>5 DEF AInv, Nesting
<1>8. ReconNeverWrites'
  BY DEF AInv, ReconNeverWrites
<1>9. Events'
  BY <1>5 DEF AInv, Events, Nesting
<1>10. Presses'
  BY <1>5 DEF AInv, Presses, NoStalePress
<1> QED
  BY <1>6, <1>7, <1>8, <1>9, <1>10 DEF AInv

\* A frame fails: the user's own ends the turn, a sub-agent's its call.
LEMMA FailSound ==
    ASSUME AInv, pc \notin {"idle", "noteRequest", "note"}, Fail(fr, history), UNCHANGED unseen
    PROVE  AInv'
<1>1. turn \in Turns /\ fr \in Frames /\ fr.iter <= fr.limit
  BY DEF AInv, Types
<1>2. CASE IsNested
  <2>1. ReturnToParent(fr.edited \/ fr.subEdited) /\ turn' = Emit("error")
    BY <1>2 DEF Fail
  <2>2. PICK ev \in Terminal : ev = "error"
    BY DEF Terminal
  <2>3. turn' = [turn EXCEPT !.events = Append(turn.events, ev), !.outcome = turn.outcome]
    BY <1>1, <2>1, <2>2 DEF Emit, Turns
  <2>4. /\ turn' \in Turns /\ turn'.events = Append(turn.events, ev)
        /\ turn'.outcome = turn.outcome /\ turn'.n = turn.n /\ turn'.mode = turn.mode
        /\ turn'.wrote = turn.wrote /\ turn'.pressed = turn.pressed
        /\ turn'.swallowed = turn.swallowed
    <3>1. turn.outcome \in Outcomes
      BY <1>1 DEF Turns
    <3> QED
      BY <1>1, <2>3, <3>1, EmitType
  <2>5. \A i \in 1 .. Len(turn'.events) : turn'.events[i] # "done"
    <3>1. turn.events \in Seq(Terminal) /\ \A i \in 1 .. Len(turn.events) : turn.events[i] # "done"
      BY <1>1 DEF AInv, Events, Turns
    <3> QED
      BY <2>2, <2>4, <3>1
  <2>6. PICK edited \in BOOLEAN : edited = (fr.edited \/ fr.subEdited)
    OBVIOUS
  <2>7. ReturnToParent(edited)
    BY <2>1, <2>6, Zenon
  <2>8. unseen' \in BOOLEAN /\ (unseen' => unseen)
    BY DEF AInv, Types
  <2>9. turn.pressed /\ ~turn'.swallowed => unseen'
    BY <2>4 DEF AInv, Presses
  <2> QED
    BY <1>2, <2>9, <2>4, <2>5, <2>7, <2>8, ReturnSound
<1>3. CASE ~IsNested
  <2>1. PICK o \in Outcomes \ {"none"} : o = "errored"
    BY DEF Outcomes
  <2>3. turn' = [turn EXCEPT !.events = Append(turn.events, EventOf[o]), !.outcome = o]
    BY <1>1, <1>3, <2>1 DEF Fail, Emit, EventOf, Turns
  <2>2. /\ pc' = "idle" /\ history' \in Seq(Messages) /\ fr' = fr /\ UNCHANGED <<mode, parent>>
        /\ unseen' \in BOOLEAN
    BY <1>3 DEF Fail, AInv, Types
  <2> QED
    BY <1>1, <1>3, <2>1, <2>2, <2>3, EndSound
<1> QED
  BY <1>2, <1>3

\* A frame is abandoned, and with a sub-agent's the whole turn.
LEMMA AbandonSound ==
    ASSUME AInv, pc # "idle", unseen, unseen' \in BOOLEAN, NEW h \in Seq(Messages),
           NEW f \in Frames, f.iter <= f.limit, f.sub = fr.sub, Abandon(f, h)
    PROVE  AInv'
<1>1. turn \in Turns
  BY DEF AInv, Types
<1>2. CASE ~IsNested
  <2>1. PICK o \in Outcomes \ {"none"} : o = "interrupted"
    BY DEF Outcomes
  <2>2. turn' = [turn EXCEPT !.events = Append(turn.events, EventOf[o]), !.outcome = o]
    BY <1>1, <1>2, <2>1 DEF Abandon, Emit, EventOf, Turns
  <2>3. pc' = "idle" /\ history' = h /\ fr' = f /\ UNCHANGED <<mode, parent>>
    BY <1>2 DEF Abandon, IsNested
  <2> QED
    BY <1>2, <2>2, <2>3, EndSound
<1>3. CASE IsNested
  <2>1. PICK ev \in Terminal : ev = "interrupted"
    BY DEF Terminal
  <2>2. PICK es \in Seq(Terminal) : es = turn.events \o <<ev, ev>>
    <3>1. turn.events \o <<ev, ev>> \in Seq(Terminal)
      BY <1>1 DEF Turns
    <3> QED
      BY <3>1
  <2>3. turn' = [turn EXCEPT !.events = es, !.outcome = "interrupted"]
    BY <1>1, <1>3, <2>1, <2>2 DEF Abandon, Emit2, Turns
  <2>4. /\ turn' \in Turns /\ turn'.events = es /\ turn'.outcome = "interrupted"
        /\ turn'.n = turn.n /\ turn'.mode = turn.mode /\ turn'.wrote = turn.wrote
        /\ turn'.pressed = turn.pressed /\ turn'.swallowed = turn.swallowed
    BY <1>1, <2>3 DEF Turns, Outcomes
  <2>5. PICK pf : pf = parent[1].fr
    OBVIOUS
  <2>6. /\ pf \in Frames /\ pf.iter <= pf.limit /\ pf.sub = "none"
        /\ parent[1].history \in Seq(Messages) /\ parent[1].mode = turn.mode
        /\ turn.mode \in Modes
    BY <1>3, <2>5, ParentFacts
  <2>7. history' \in Seq(Messages)
    <3>1. Recorded(pf) \in Seq(Messages)
      BY <2>6, BatchTypes
    <3>2. history' = parent[1].history \o Recorded(pf)
      BY <1>3, <2>5 DEF Abandon
    <3> QED
      BY <2>6, <3>1, <3>2
  <2>8. pc' = "idle" /\ ~IsNested' /\ mode' = turn.mode /\ fr' = pf
    BY <1>3, <2>5, <2>6 DEF Abandon, IsNested
  <2>9. Types'
    BY <2>4, <2>6, <2>7, <2>8 DEF AInv, Types, Places
  <2>10. Nesting'
    BY <2>4, <2>6, <2>8 DEF AInv, Nesting
  <2>11. ReconNeverWrites'
    BY <2>4 DEF AInv, ReconNeverWrites
  <2>12. Events'
    <3>1. <<ev>> \in Seq(Terminal) /\ \A i \in 1 .. Len(<<ev>>) : <<ev>>[i] # "done"
      BY <2>1
    <3>2. es = Append(turn.events \o <<ev>>, ev)
      BY <1>1, <2>2 DEF Turns
    <3>3. turn'.events = Append(turn.events \o <<ev>>, EventOf[turn'.outcome])
      BY <2>1, <2>4, <3>2 DEF EventOf
    <3>4. turn'.n > 0 /\ turn'.outcome \in Outcomes \ {"none"}
      BY <2>4 DEF AInv, Nesting, Outcomes
    <3> QED
      BY <2>4, <2>8, <3>1, <3>3, <3>4, EventsEnd DEF AInv
  <2>13. Presses'
    BY <2>4, <2>8 DEF AInv, Presses, NoStalePress
  <2> QED
    BY <2>9, <2>10, <2>11, <2>12, <2>13 DEF AInv
<1> QED
  BY <1>2, <1>3

\* A frame settles: a sub-agent's parent asks for the note, the turn is done.
LEMMA CompleteSound ==
    ASSUME AInv, pc # "idle", UNCHANGED unseen, NEW h \in Seq(Messages), Complete(h),
           fr' \in Frames, fr'.iter <= fr'.limit, fr'.sub = fr.sub
    PROVE  AInv'
<1>1. turn \in Turns /\ unseen' \in BOOLEAN
  BY DEF AInv, Types
<1>2. CASE IsNested
  <2>1. pc' = "noteRequest" /\ history' = h /\ UNCHANGED <<mode, parent, unseen, turn>>
    BY <1>2 DEF Complete
  <2> QED
    BY <1>2, <2>1, WorkSound DEF Places
<1>3. CASE ~IsNested
  <2>1. PICK o \in Outcomes \ {"none"} : o = "completed"
    BY DEF Outcomes
  <2>2. turn' = [turn EXCEPT !.events = Append(turn.events, EventOf[o]), !.outcome = o]
    BY <1>1, <1>3, <2>1 DEF Complete, Emit, EventOf, Turns
  <2>3. pc' = "idle" /\ history' = h /\ UNCHANGED <<mode, parent>>
    BY <1>3 DEF Complete
  <2> QED
    BY <1>1, <1>3, <2>1, <2>2, <2>3, EndSound
<1> QED
  BY <1>2, <1>3

-----------------------------------------------------------------------------
(* The steps.                                                               *)

\* At first nothing has happened.
LEMMA InitSound == Init => AInv
<1> SUFFICES ASSUME Init PROVE AInv
  OBVIOUS
<1>1. fr \in Frames /\ fr.iter <= fr.limit /\ fr.sub = "none"
  BY NewFrameType DEF Init, NotRunning, Owners
<1>2. turn \in Turns
  BY DEF Init, IdleTurn, Turns, Modes, Outcomes
<1>3. Types
  <2>1. <<>> \in Seq(Messages)
    OBVIOUS
  <2>2. history \in Seq(Messages)
    BY <2>1 DEF Init
  <2>3. ~IsNested
    BY DEF Init, IsNested
  <2>4. pc \in Places /\ mode \in Modes /\ unseen \in BOOLEAN
    BY Constants DEF Init, Places
  <2> QED
    BY <1>1, <1>2, <2>2, <2>3, <2>4 DEF Types
<1>4. Nesting
  BY <1>1 DEF Init, Nesting, IsNested, IdleTurn
<1>5. ReconNeverWrites
  BY DEF Init, ReconNeverWrites, IdleTurn
<1>6. Events
  BY DEF Init, Events, IdleTurn
<1>7. Presses
  BY DEF Init, Presses, NoStalePress, IdleTurn
<1> QED
  BY <1>3, <1>4, <1>5, <1>6, <1>7 DEF AInv

\* A turn starts with nothing of the one before it.
LEMMA StartTurnSound ==
    ASSUME AInv, NEW m \in UserModes, NEW v \in AutoVerify, NEW ts \in ToolSets,
           StartTurn(m, v, ts)
    PROVE  AInv'
<1>1. turn \in Turns /\ turn.n \in Nat /\ turn.presses \in Nat
  BY DEF AInv, Types, Turns
<1>2. PICK none \in Seq(Terminal) : none = <<>>
  <2>1. <<>> \in Seq(Terminal)
    OBVIOUS
  <2> QED
    BY <2>1
<1>3. turn' = [n |-> turn.n + 1, mode |-> m, tools |-> ts, autoVerify |-> v, events |-> none,
               outcome |-> "none", presses |-> turn.presses, pressed |-> FALSE,
               swallowed |-> FALSE, wrote |-> {}]
  BY <1>2 DEF StartTurn, IdleTurn
<1>4. turn' \in Turns
  BY <1>1, <1>3, Constants DEF Turns, Outcomes
<1>5. /\ turn'.n = turn.n + 1 /\ turn'.mode = m /\ turn'.events = none /\ turn'.outcome = "none"
      /\ turn'.pressed = FALSE /\ turn'.wrote = {}
  BY <1>3
<1>6. history' \in Seq(Messages)
  BY MessageTypes DEF StartTurn, AInv, Types
<1>7. fr' \in Frames /\ fr'.iter <= fr'.limit /\ fr'.sub = "none"
  <2>1. Len(history) + 1 \in Nat /\ MaxIterations \in Nat /\ "none" \in Owners
    BY Constants DEF AInv, Types, Owners
  <2>2. fr' = NewFrame(MaxIterations, Len(history) + 1, "none")
    BY DEF StartTurn
  <2> QED
    BY <2>1, <2>2, NewFrameType
<1>8. ~IsNested' /\ mode' = m /\ m \in Modes /\ unseen' = FALSE /\ pc' = "top"
  BY Constants DEF StartTurn, AInv, Nesting, IsNested
<1>9. Types'
  BY <1>4, <1>6, <1>7, <1>8 DEF Types, Places
<1>10. Nesting'
  BY <1>1, <1>5, <1>7, <1>8 DEF Nesting
<1>11. ReconNeverWrites'
  BY <1>5 DEF ReconNeverWrites
<1>12. Events'
  BY <1>1, <1>2, <1>5, <1>8 DEF Events
<1>13. Presses'
  BY <1>5, <1>8 DEF Presses, NoStalePress
<1> QED
  BY <1>9, <1>10, <1>11, <1>12, <1>13 DEF AInv

\* A press changes what is pressed and what is unseen.
LEMMA PressSound ==
    ASSUME AInv, Press
    PROVE  AInv'
<1>1. turn \in Turns /\ turn.presses \in Nat
  BY DEF AInv, Types, Turns
<1>2. PICK b \in BOOLEAN : b = (turn.pressed \/ pc # "idle")
  OBVIOUS
<1>0. PICK p \in Nat : p = turn.presses + 1
  BY <1>1
<1>3. turn' = [turn EXCEPT !.presses = p, !.pressed = b, !.swallowed = FALSE]
  BY <1>0, <1>2 DEF Press
<1>4. [turn EXCEPT !.presses = p, !.pressed = b, !.swallowed = FALSE] \in Turns
  BY <1>1 DEF Turns
<1>5. /\ turn'.n = turn.n /\ turn'.mode = turn.mode /\ turn'.wrote = turn.wrote
      /\ turn'.events = turn.events /\ turn'.outcome = turn.outcome
      /\ turn'.pressed = b /\ turn'.swallowed = FALSE
  BY <1>1, <1>3 DEF Turns
<1>6. UNCHANGED <<pc, history, mode, fr, parent>> /\ unseen' = TRUE
  BY DEF Press
<1>7. Types'
  BY <1>3, <1>4, <1>6 DEF AInv, Types, IsNested
<1>8. Nesting'
  BY <1>5, <1>6 DEF AInv, Nesting, IsNested, SubMode
<1>9. ReconNeverWrites'
  BY <1>5 DEF AInv, ReconNeverWrites
<1>10. Events'
  BY <1>5, <1>6 DEF AInv, Events
<1>11. Presses'
  BY <1>2, <1>5, <1>6 DEF AInv, Presses, NoStalePress
<1> QED
  BY <1>7, <1>8, <1>9, <1>10, <1>11 DEF AInv

\* Steps at the head of an iteration.
LEMMA HeadSound ==
    ASSUME AInv, Ceiling \/ InterruptAtTop \/ SendRequest
    PROVE  AInv'
<1>1. fr \in Frames /\ fr.iter <= fr.limit /\ history \in Seq(Messages) /\ unseen \in BOOLEAN
  BY DEF AInv, Types
<1>2. CASE Ceiling
  BY <1>2, FailSound DEF Ceiling
<1>3. CASE InterruptAtTop
  BY <1>1, <1>3, AbandonSound DEF InterruptAtTop
<1>4. CASE SendRequest
  <2>1. PICK g : g = CleanSlate(fr)
    OBVIOUS
  <2>2. g \in Frames /\ g.iter = fr.iter /\ g.limit = fr.limit /\ g.sub = fr.sub
    BY <1>1, <2>1, CleanSlateType
  <2>3. fr' = [g EXCEPT !.iter = g.iter + 1, !.retries = 0, !.shown = FALSE]
    BY <1>4, <2>1, Zenon DEF SendRequest
  <2>4. 0 \in 0 .. MaxRetries
    BY Constants
  <2>5. PICK k \in Nat : k = g.iter + 1
    BY <2>2 DEF Frames
  <2>6. [g EXCEPT !.iter = k, !.retries = 0, !.shown = FALSE] \in Frames
    BY <2>2, <2>4 DEF Frames
  <2>7. fr'.iter = k /\ fr'.limit = fr.limit /\ fr'.sub = fr.sub /\ fr' \in Frames
    BY <2>2, <2>3, <2>5, <2>6 DEF Frames
  <2>8. fr'.iter <= fr'.limit
    <3>1. fr.iter \in Nat /\ fr.limit \in Nat
      BY <1>1 DEF Frames
    <3>2. fr.iter < fr.limit
      BY <1>1, <1>4, <3>1 DEF SendRequest
    <3>3. fr'.iter = fr.iter + 1 /\ fr'.limit = fr.limit
      BY <2>2, <2>5, <2>7
    <3> QED
      BY <3>1, <3>2, <3>3
  <2> QED
    BY <1>1, <1>4, <2>7, <2>8, WorkSound DEF SendRequest, Places
<1> QED
  BY <1>2, <1>3, <1>4

\* A frame with other data but the same limits.
LEMMA SameLimits ==
    ASSUME AInv, NEW f \in Frames, fr' = f, f.iter = fr.iter, f.limit = fr.limit, f.sub = fr.sub,
           pc # "idle", pc' \in Places \ {"idle", "noteRequest", "note"},
           UNCHANGED <<mode, parent, unseen, turn>>, history' \in Seq(Messages)
    PROVE  AInv'
<1>1. fr'.iter <= fr'.limit
  BY DEF AInv, Types
<1> QED
  BY <1>1, WorkSound

\* A flush moves text about and leaves the rest of the frame alone.
LEMMA FlushType ==
    ASSUME fr \in Frames, NEW g, g = Flush(fr)
    PROVE  /\ g \in Frames /\ g.iter = fr.iter /\ g.limit = fr.limit /\ g.sub = fr.sub
           /\ g.rounds = fr.rounds /\ g.anchor = fr.anchor /\ g.edited = fr.edited
           /\ g.calls = fr.calls
<1>1. PICK b \in BOOLEAN : b = (fr.shown \/ fr.held # {})
  OBVIOUS
<1>2. PICK c \in SUBSET Nat : c = Flushed
  BY DEF Flushed, Frames
<1>3. g = [fr EXCEPT !.content = c, !.held = {}, !.shown = b]
  BY <1>1, <1>2 DEF Flush
<1>4. [fr EXCEPT !.content = c, !.held = {}, !.shown = b] \in Frames
  BY DEF Frames
<1> QED
  BY <1>3, <1>4 DEF Frames

\* The provider connects or fails; retries wait, and a wait can be interrupted.
LEMMA ProviderSound ==
    ASSUME AInv, \/ Connected \/ BackoffOver \/ InterruptInBackoff
                 \/ \E transient \in BOOLEAN : ProviderFails(transient)
    PROVE  AInv'
<1>1. fr \in Frames /\ fr.iter <= fr.limit /\ history \in Seq(Messages) /\ unseen \in BOOLEAN
  BY DEF AInv, Types
<1>2. CASE Connected
  BY <1>1, <1>2, SameLimits DEF Connected, Places
<1>3. CASE BackoffOver
  BY <1>1, <1>3, CleanSlateType, SameLimits DEF BackoffOver, Places
<1>4. CASE InterruptInBackoff
  BY <1>1, <1>4, AbandonSound DEF InterruptInBackoff
<1>5. ASSUME NEW transient \in BOOLEAN, ProviderFails(transient)
      PROVE  AInv'
  <2>1. CASE Retryable(transient) /\ ~unseen
    <3>0. fr.retries + 1 \in 0 .. MaxRetries
      <4>1. fr.retries \in 0 .. MaxRetries /\ MaxRetries \in Nat
        BY <1>1, Constants DEF Frames
      <4> QED
        BY <2>1, <4>1 DEF Retryable
    <3>1. PICK r \in 0 .. MaxRetries : r = fr.retries + 1
      BY <3>0
    <3>2. fr' = [fr EXCEPT !.retries = r]
      BY <1>5, <2>1, <3>1 DEF ProviderFails, RetryOrFail
    <3>3. [fr EXCEPT !.retries = r] \in Frames
      BY <1>1 DEF Frames
    <3>4. fr'.iter = fr.iter /\ fr'.limit = fr.limit /\ fr'.sub = fr.sub
      BY <1>1, <3>2 DEF Frames
    <3> QED
      BY <1>1, <1>5, <2>1, <3>2, <3>3, <3>4, SameLimits
         DEF ProviderFails, RetryOrFail, Places
  <2>2. CASE ~Retryable(transient)
    BY <1>5, <2>2, FailSound DEF ProviderFails, RetryOrFail
  <2>3. CASE Retryable(transient) /\ unseen
    BY <1>1, <1>5, <2>3, AbandonSound DEF ProviderFails, RetryOrFail
  <2> QED
    BY <2>1, <2>2, <2>3
<1> QED
  BY <1>2, <1>3, <1>4, <1>5

\* Pieces and calls stream in.
LEMMA ChunkSound ==
    ASSUME AInv, turn \in Turns,
           \/ \E piece \in Pieces : PieceChunk(piece)
           \/ \E tool \in turn.tools : CallChunk(tool)
    PROVE  AInv'
<1>1. fr \in Frames /\ fr.iter <= fr.limit /\ history \in Seq(Messages) /\ pc = "stream"
      /\ UNCHANGED <<pc, history, mode, parent, unseen, turn>>
  BY DEF AInv, Types, PieceChunk, CallChunk, Chunk
<1>2. PICK k \in Nat : k = fr.chunks + 1
  BY <1>1 DEF Frames
<1>3. ASSUME NEW piece \in Pieces, PieceChunk(piece)
      PROVE  AInv'
  <2>1. PICK s \in BOOLEAN : s = (fr.shown \/ piece # "held")
    OBVIOUS
  <2>2. PICK e \in BOOLEAN : e = (fr.emitted \/ piece # "held")
    OBVIOUS
  <2>0. fr.content \in SUBSET Nat /\ fr.held \in SUBSET Nat /\ fr.retries \in Nat
    BY <1>1, Constants, SMTT(60) DEF Frames
  <2>3. PICK c \in SUBSET Nat :
            c = IF piece = "text" THEN fr.content \union fr.held \union {fr.retries} ELSE fr.content
    BY <2>0
  <2>4. PICK h \in SUBSET Nat :
            h = CASE piece = "text" -> {}
                  [] piece = "held" -> fr.held \union {fr.retries}
                  [] OTHER -> fr.held
    BY <2>0
  <2>5. fr' = [fr EXCEPT !.chunks = k, !.shown = s, !.emitted = e, !.content = c, !.held = h]
    BY <1>2, <1>3, <2>1, <2>2, <2>3, <2>4 DEF PieceChunk
  <2>6. [fr EXCEPT !.chunks = k, !.shown = s, !.emitted = e, !.content = c, !.held = h] \in Frames
    BY <1>1 DEF Frames
  <2>7. fr'.iter = fr.iter /\ fr'.limit = fr.limit /\ fr'.sub = fr.sub
    BY <1>1, <2>5 DEF Frames
  <2> QED
    BY <1>1, <2>5, <2>6, <2>7, SameLimits DEF Places
<1>4. ASSUME NEW tool \in turn.tools, CallChunk(tool)
      PROVE  AInv'
  <2>1. tool \in AllTools /\ fr.retries \in Nat
    BY <1>1, <1>4, Constants DEF Turns, Frames
  <2>2. [tool |-> tool, try |-> fr.retries] \in Calls
    BY <2>1 DEF Calls
  <2>3. Append(fr.calls, [tool |-> tool, try |-> fr.retries]) \in Seq(Calls)
    BY <1>1, <2>2 DEF Frames
  <2>4. PICK cs \in Seq(Calls) : cs = Append(fr.calls, [tool |-> tool, try |-> fr.retries])
    BY <2>3
  <2>5. fr' = [fr EXCEPT !.chunks = k, !.calls = cs]
    BY <1>2, <1>4, <2>4 DEF CallChunk
  <2>6. [fr EXCEPT !.chunks = k, !.calls = cs] \in Frames
    BY <1>1 DEF Frames
  <2>7. fr'.iter = fr.iter /\ fr'.limit = fr.limit /\ fr'.sub = fr.sub
    BY <1>1, <2>5 DEF Frames
  <2> QED
    BY <1>1, <2>5, <2>6, <2>7, SameLimits DEF Places
<1> QED
  BY <1>3, <1>4

\* A batch of calls is recorded, and started or skipped.
LEMMA DispatchSound ==
    ASSUME AInv, pc = "stream", NEW calls \in Seq(Calls), Dispatch(calls), UNCHANGED unseen
    PROVE  AInv'
<1>1. fr \in Frames /\ fr.iter <= fr.limit /\ history \in Seq(Messages) /\ unseen \in BOOLEAN
  BY DEF AInv, Types
<1>2. PICK g : g = Flush(fr)
  OBVIOUS
<1>3. g \in Frames /\ g.iter = fr.iter /\ g.limit = fr.limit /\ g.sub = fr.sub
  BY <1>1, <1>2, FlushType
<1>4. PICK f : f = [g EXCEPT !.calls = calls, !.cur = 0]
  OBVIOUS
<1>5. f \in Frames
  <2>1. [g EXCEPT !.calls = calls, !.cur = 0] \in Frames
    BY <1>3 DEF Frames
  <2> QED
    BY <1>4, <2>1, Zenon
<1>6. f.iter = fr.iter /\ f.limit = fr.limit /\ f.sub = fr.sub
  BY <1>3, <1>4 DEF Frames
<1>7. f = [Flush(fr) EXCEPT !.calls = calls, !.cur = 0]
  BY <1>2, <1>4, Zenon
<1>8. PICK h : h = Append(history, AssistantMessage(ToolsOf(f)))
  OBVIOUS
<1>9. h \in Seq(Messages) /\ Recorded(f) \in Seq(Messages)
  BY <1>1, <1>5, <1>8, BatchTypes, MessageTypes
<1>10. CASE unseen
  <2>1. PICK hr \in Seq(Messages) : hr = h \o Recorded(f)
    <3>1. h \o Recorded(f) \in Seq(Messages)
      BY <1>9
    <3> QED
      BY <3>1
  <2>2. Abandon(f, hr)
    BY <1>7, <1>8, <1>10, <2>1, Zenon DEF Dispatch
  <2>3. f.iter <= f.limit /\ pc # "idle" /\ unseen' \in BOOLEAN
    BY <1>1, <1>6
  <2> QED
    BY <1>5, <1>6, <1>10, <2>2, <2>3, AbandonSound
<1>11. CASE ~unseen
  <2>1. /\ history' = h /\ fr' = f /\ UNCHANGED <<mode, parent, turn>>
        /\ pc' = "scan" \/ pc' = "serial"
    BY <1>7, <1>8, <1>11, Zenon DEF Dispatch
  <2> QED
    BY <1>5, <1>6, <1>9, <2>1, SameLimits DEF Places
<1> QED
  BY <1>10, <1>11

\* A stream ends, or is interrupted.
LEMMA StreamEndSound ==
    ASSUME AInv, \/ InterruptInStream \/ StreamEndsSettled \/ StreamEndsWithCalls
                 \/ \E tool \in turn.tools : StreamEndsWithTextCall(tool)
    PROVE  AInv'
<1>1. fr \in Frames /\ fr.iter <= fr.limit /\ history \in Seq(Messages) /\ unseen \in BOOLEAN
      /\ turn \in Turns
  BY DEF AInv, Types
<1>2. PICK g : g = Flush(fr)
  OBVIOUS
<1>3. g \in Frames /\ g.iter = fr.iter /\ g.limit = fr.limit /\ g.sub = fr.sub
      /\ g.rounds = fr.rounds
  BY <1>1, <1>2, FlushType
<1>4. Append(history, AssistantMessage(<<>>)) \in Seq(Messages)
  <2>1. AssistantMessage(<<>>) \in Messages
    BY MessageTypes
  <2>2. PICK m \in Messages : m = AssistantMessage(<<>>)
    BY <2>1
  <2>3. Append(history, m) \in Seq(Messages)
    BY <1>1
  <2> QED
    BY <2>2, <2>3
<1>5. CASE InterruptInStream
  <2>1. PICK none \in Seq(Calls) : none = <<>>
    <3>1. <<>> \in Seq(Calls)
      OBVIOUS
    <3> QED
      BY <3>1
  <2>2. PICK f : f = [g EXCEPT !.calls = none]
    OBVIOUS
  <2>3. f \in Frames
    <3>1. [g EXCEPT !.calls = none] \in Frames
      BY <1>3 DEF Frames
    <3> QED
      BY <2>2, <3>1, Zenon
  <2>4. f.iter = fr.iter /\ f.limit = fr.limit /\ f.sub = fr.sub
    BY <1>3, <2>2 DEF Frames
  <2>5. f = [Flush(fr) EXCEPT !.calls = <<>>]
    BY <1>2, <2>1, <2>2, Zenon
  <2>6. PICK h \in Seq(Messages) :
            h = IF Flushed = {} THEN history
                ELSE Append(history, AssistantMessage(<<>>))
    BY <1>1, <1>4, Zenon
  <2>7. Abandon(f, h)
    BY <1>5, <2>5, <2>6, Zenon DEF InterruptInStream
  <2>8. f.iter <= f.limit /\ pc # "idle" /\ unseen /\ unseen' \in BOOLEAN
    BY <1>1, <1>5, <2>4 DEF InterruptInStream
  <2> QED
    BY <2>3, <2>4, <2>7, <2>8, AbandonSound
<1>6. CASE StreamEndsSettled
  <2>1. PICK h \in Seq(Messages) : h = Append(history, AssistantMessage(<<>>))
    BY <1>4
  <2>2. pc = "stream" /\ UNCHANGED unseen
    BY <1>6 DEF StreamEndsSettled
  <2>3. CASE ShouldVerify(h)
    <3>1. /\ history' = h /\ pc' = "verify" /\ UNCHANGED <<mode, parent, turn>>
          /\ fr' = [g EXCEPT !.rounds = g.rounds + 1, !.edited = FALSE, !.subEdited = FALSE]
      BY <1>2, <1>6, <2>1, <2>3, Zenon DEF StreamEndsSettled
    <3>2. fr.rounds + 1 \in 0 .. MaxVerifyRounds
      <4>1. fr.rounds \in 0 .. MaxVerifyRounds /\ MaxVerifyRounds \in Nat
        BY <1>1, Constants DEF Frames
      <4> QED
        BY <2>3, <4>1 DEF ShouldVerify
    <3>3. PICK r \in 0 .. MaxVerifyRounds : r = g.rounds + 1
      BY <1>3, <3>2
    <3>4. [g EXCEPT !.rounds = r, !.edited = FALSE, !.subEdited = FALSE] \in Frames
      BY <1>3 DEF Frames
    <3>5. fr' \in Frames
      BY <3>1, <3>3, <3>4, Zenon
    <3>6. fr'.iter = fr.iter /\ fr'.limit = fr.limit /\ fr'.sub = fr.sub
      BY <1>3, <3>1, <3>3 DEF Frames
    <3> QED
      BY <2>2, <3>1, <3>5, <3>6, SameLimits DEF Places
  <2>4. CASE ~ShouldVerify(h)
    <3>1. Complete(h) /\ fr' = g
      BY <1>2, <1>6, <2>1, <2>4, Zenon DEF StreamEndsSettled
    <3>2. fr' \in Frames /\ fr'.iter <= fr'.limit /\ fr'.sub = fr.sub
      BY <1>1, <1>3, <3>1
    <3> QED
      BY <2>2, <3>1, <3>2, CompleteSound
  <2> QED
    BY <2>3, <2>4
<1>7. CASE StreamEndsWithCalls
  <2>1. fr.calls \in Seq(Calls)
    BY <1>1 DEF Frames
  <2> QED
    BY <1>7, <2>1, DispatchSound DEF StreamEndsWithCalls
<1>8. ASSUME NEW tool \in turn.tools, StreamEndsWithTextCall(tool)
      PROVE  AInv'
  <2>1. tool \in AllTools /\ fr.retries \in Nat
    BY <1>1, Constants DEF Turns, Frames
  <2>2. [tool |-> tool, try |-> fr.retries] \in Calls
    BY <2>1 DEF Calls
  <2>3. <<[tool |-> tool, try |-> fr.retries]>> \in Seq(Calls)
    BY <2>2
  <2> QED
    BY <1>8, <2>3, DispatchSound DEF StreamEndsWithTextCall
<1> QED
  BY <1>5, <1>6, <1>7, <1>8

\* The verification command has run.
LEMMA VerifySound ==
    ASSUME AInv, VerifyPasses \/ VerifyFails
    PROVE  AInv'
<1>1. fr \in Frames /\ fr.iter <= fr.limit /\ history \in Seq(Messages) /\ unseen \in BOOLEAN
  BY DEF AInv, Types
<1>2. CASE VerifyPasses
  BY <1>1, <1>2, CompleteSound DEF VerifyPasses
<1>3. CASE VerifyFails
  <2>1. PICK k \in Nat : k = Len(history) + 1
    BY <1>1
  <2>2. fr' = [fr EXCEPT !.anchor = k]
    BY <1>3, <2>1, Zenon DEF VerifyFails
  <2>3. [fr EXCEPT !.anchor = k] \in Frames
    BY <1>1 DEF Frames
  <2>4. fr' \in Frames
    BY <2>2, <2>3, Zenon
  <2>5. fr'.iter = fr.iter /\ fr'.limit = fr.limit /\ fr'.sub = fr.sub
    BY <1>1, <2>2 DEF Frames
  <2>6. history' \in Seq(Messages) /\ pc = "verify" /\ pc' = "top"
        /\ UNCHANGED <<mode, parent, unseen, turn>>
    BY <1>1, <1>3, MessageTypes DEF VerifyFails
  <2> QED
    BY <2>4, <2>5, <2>6, SameLimits DEF Places
<1> QED
  BY <1>2, <1>3

\* A call is taken up: it is the first of those that remain.
LEMMA TakeCall ==
    ASSUME fr \in Frames, Remaining(fr) # {}, NEW f, f = [fr EXCEPT !.cur = NextCall(fr)]
    PROVE  /\ f \in Frames /\ f.iter = fr.iter /\ f.limit = fr.limit /\ f.sub = fr.sub
           /\ f.calls = fr.calls /\ f.cur = NextCall(fr) /\ f.cur \in DOMAIN f.calls
           /\ f.anchor = fr.anchor /\ f.edited = fr.edited /\ f.rounds = fr.rounds
<1>1. PICK i \in Nat : i = NextCall(fr)
  BY NextCallRemains
<1>2. f = [fr EXCEPT !.cur = i]
  BY <1>1
<1>3. [fr EXCEPT !.cur = i] \in Frames
  BY DEF Frames
<1>4. f \in Frames
  BY <1>2, <1>3, Zenon
<1>5. /\ f.iter = fr.iter /\ f.limit = fr.limit /\ f.sub = fr.sub /\ f.calls = fr.calls
      /\ f.cur = i /\ f.anchor = fr.anchor /\ f.edited = fr.edited /\ f.rounds = fr.rounds
  BY <1>2 DEF Frames
<1> QED
  BY <1>1, <1>4, <1>5, NextCallRemains

\* A batch in progress, its tools and its end by an interrupt.
LEMMA BatchSound ==
    ASSUME AInv, RunScans \/ InterruptInBatch \/ StartTool \/ RefuseSubAgent
    PROVE  AInv'
<1>1. fr \in Frames /\ fr.iter <= fr.limit /\ history \in Seq(Messages) /\ unseen \in BOOLEAN
  BY DEF AInv, Types
<1>2. CASE RunScans
  BY <1>1, <1>2, SameLimits DEF RunScans, Places
<1>3. CASE InterruptInBatch
  <2>1. history \o Recorded(fr) \in Seq(Messages)
    BY <1>1, BatchTypes
  <2> QED
    BY <1>1, <1>3, <2>1, AbandonSound DEF InterruptInBatch
<1>4. CASE StartTool
  BY <1>1, <1>4, TakeCall, SameLimits DEF StartTool, Places
<1>5. CASE RefuseSubAgent
  BY <1>1, <1>5, TakeCall, SameLimits DEF RefuseSubAgent, Places
<1> QED
  BY <1>2, <1>3, <1>4, <1>5

\* What a tool may leave behind is decided by the mode it ran in.
LEMMA FinishToolSound ==
    ASSUME AInv, NEW ran \in BOOLEAN, FinishTool(ran)
    PROVE  AInv'
<1>1. fr \in Frames /\ fr.iter <= fr.limit /\ unseen \in BOOLEAN /\ turn \in Turns
  BY DEF AInv, Types
<1>2. PICK tool : tool = fr.calls[fr.cur].tool
  OBVIOUS
<1>3. PICK e \in BOOLEAN : e = (fr.edited \/ (ran /\ tool = "edit"))
  OBVIOUS
<1>4. fr' = [fr EXCEPT !.edited = e]
  BY <1>1, <1>2, <1>3 DEF FinishTool, Frames
<1>5. fr' \in Frames /\ fr'.iter = fr.iter /\ fr'.limit = fr.limit /\ fr'.sub = fr.sub
  <2>1. [fr EXCEPT !.edited = e] \in Frames
    BY <1>1 DEF Frames
  <2> QED
    BY <1>1, <1>4, <2>1 DEF Frames
<1>6. turn.wrote \in SUBSET Owners /\ fr.sub \in Owners
  BY <1>1 DEF Turns, Frames
<1>7. PICK w \in SUBSET Owners :
          w = IF ran /\ tool \in {"edit", "bash"} THEN turn.wrote \union {fr.sub} ELSE turn.wrote
  BY <1>6
<1>8. turn' = [turn EXCEPT !.wrote = w]
  BY <1>1, <1>2, <1>7 DEF FinishTool, Turns
<1>9. /\ turn' \in Turns /\ turn'.wrote = w /\ turn'.n = turn.n /\ turn'.mode = turn.mode
      /\ turn'.events = turn.events /\ turn'.outcome = turn.outcome
      /\ turn'.pressed = turn.pressed /\ turn'.swallowed = turn.swallowed
  <2>1. [turn EXCEPT !.wrote = w] \in Turns
    BY <1>1 DEF Turns
  <2> QED
    BY <1>1, <1>8, <2>1 DEF Turns
<1>10. pc = "tool" /\ pc' = "serial" /\ UNCHANGED <<history, mode, parent, unseen>>
  BY DEF FinishTool
<1>11. Types'
  BY <1>1, <1>5, <1>9, <1>10 DEF AInv, Types, Places, IsNested
<1>12. Nesting'
  BY <1>5, <1>9, <1>10 DEF AInv, Nesting, IsNested, SubMode
<1>13. ReconNeverWrites'
  <2>1. ran /\ tool \in {"edit", "bash"} => mode = "agent"
    <3>1. ran => AllowsTool(mode, tool)
      BY <1>2 DEF FinishTool
    <3>2. mode \in Modes
      BY DEF AInv, Types
    <3> QED
      BY <3>1, <3>2 DEF AllowsTool, Orientation, Modes
  <2>2. mode = "agent" => fr.sub = "delegate" \/ (fr.sub = "none" /\ turn.mode = "agent")
    BY <1>10 DEF AInv, Nesting, SubMode
  <2> QED
    BY <1>7, <1>9, <2>1, <2>2 DEF AInv, ReconNeverWrites
<1>14. Events'
  BY <1>9, <1>10 DEF AInv, Events
<1>15. Presses'
  BY <1>9, <1>10 DEF AInv, Presses, NoStalePress
<1> QED
  BY <1>11, <1>12, <1>13, <1>14, <1>15 DEF AInv

\* A sub-agent starts: its parent is set aside, and its own mode governs it.
LEMMA SubAgentSound ==
    ASSUME AInv, StartSubAgent
    PROVE  AInv'
<1>1. fr \in Frames /\ fr.iter <= fr.limit /\ unseen \in BOOLEAN /\ turn \in Turns
      /\ history \in Seq(Messages) /\ mode \in Modes
  BY DEF AInv, Types
<1>2. PICK tool : tool = fr.calls[NextCall(fr)].tool
  OBVIOUS
<1>3. PICK seed : seed = IF tool = "delegate" THEN <<>> ELSE <<SystemMessage>>
  OBVIOUS
<1>4. seed \in Seq(Messages)
  BY <1>3, MessageTypes
<1>5. PICK f : f = [fr EXCEPT !.cur = NextCall(fr)]
  OBVIOUS
<1>6. Remaining(fr) # {} /\ ~IsNested /\ pc = "serial" /\ pc' = "top" /\ UNCHANGED <<unseen, turn>>
      /\ tool \in SubAgents
  BY <1>2 DEF StartSubAgent
<1>7. f \in Frames /\ f.iter <= f.limit /\ f.sub = fr.sub
  BY <1>1, <1>5, <1>6, TakeCall
<1>8. PICK saved \in Saved : saved = [history |-> history, mode |-> mode, fr |-> f]
  BY <1>1, <1>7 DEF Saved
<1>9. parent' = <<saved>>
  BY <1>5, <1>8, Zenon DEF StartSubAgent
<1>10. IsNested' /\ parent' = <<parent'[1]>> /\ parent'[1] = saved
  BY <1>9 DEF IsNested
<1>11. saved.mode = mode /\ saved.fr = f
  BY <1>8
<1>12. history' \in Seq(Messages)
  <2>1. history' = Append(seed, UserMessage)
    BY <1>2, <1>3, Zenon DEF StartSubAgent
  <2> QED
    BY <1>4, <2>1, MessageTypes
<1>13. mode' = SubMode(tool) /\ mode' \in Modes
  BY <1>2 DEF StartSubAgent, SubMode, Modes
<1>14. fr' \in Frames /\ fr'.iter <= fr'.limit /\ fr'.sub = tool
  <2>1. fr' = NewFrame(SubIterations, Len(seed) + 1, tool)
    BY <1>2, <1>3, Zenon DEF StartSubAgent
  <2>2. Len(seed) + 1 \in Nat /\ SubIterations \in Nat /\ tool \in Owners
    BY <1>4, <1>6, Constants DEF Owners
  <2> QED
    BY <2>1, <2>2, NewFrameType
<1>15. Types'
  BY <1>1, <1>6, <1>7, <1>10, <1>11, <1>12, <1>13, <1>14 DEF Types, Places
<1>16. Nesting'
  BY <1>6, <1>7, <1>10, <1>11, <1>13, <1>14 DEF AInv, Nesting
<1>17. ReconNeverWrites'
  BY <1>6 DEF AInv, ReconNeverWrites
<1>18. Events'
  BY <1>6 DEF AInv, Events
<1>19. Presses'
  BY <1>6 DEF AInv, Presses, NoStalePress
<1> QED
  BY <1>15, <1>16, <1>17, <1>18, <1>19 DEF AInv

\* The parent asks for a handoff note and goes on, with or without it.
LEMMA NoteSound ==
    ASSUME AInv, NoteConnected \/ NoteEnds \/ InterruptInNote
    PROVE  AInv'
<1>1. fr \in Frames /\ fr.iter <= fr.limit /\ unseen \in BOOLEAN /\ turn \in Turns
      /\ history \in Seq(Messages)
  BY DEF AInv, Types
<1>2. pc \in {"noteRequest", "note"} /\ IsNested /\ pc # "idle"
  BY DEF NoteConnected, NoteEnds, InterruptInNote, AInv, Nesting
<1>3. PICK edited \in BOOLEAN : edited = (fr.edited \/ fr.subEdited)
  OBVIOUS
<1>4. \A i \in 1 .. Len(turn.events) : turn.events[i] # "done"
  BY <1>2 DEF AInv, Events
<1>5. CASE NoteConnected
  BY <1>1, <1>2, <1>5, WorkSound DEF NoteConnected, Places
<1>6. CASE NoteEnds
  <2>1. ReturnToParent(edited) /\ UNCHANGED <<unseen, turn>>
    BY <1>3, <1>6, Zenon DEF NoteEnds
  <2>2. turn.pressed /\ ~turn.swallowed => unseen
    BY <1>2 DEF AInv, Presses
  <2> QED
    BY <1>1, <1>2, <1>4, <2>1, <2>2, ReturnSound
<1>7. CASE InterruptInNote
  <2>1. ReturnToParent(edited) /\ unseen' = FALSE /\ turn' = [turn EXCEPT !.swallowed = TRUE]
    BY <1>3, <1>7, Zenon DEF InterruptInNote
  <2>2. [turn EXCEPT !.swallowed = TRUE] \in Turns
    BY <1>1 DEF Turns
  <2>3. /\ turn' \in Turns /\ turn'.wrote = turn.wrote /\ turn'.n = turn.n
        /\ turn'.mode = turn.mode /\ turn'.events = turn.events /\ turn'.outcome = turn.outcome
        /\ turn'.pressed = turn.pressed /\ turn'.swallowed = TRUE
    BY <1>1, <2>1, <2>2 DEF Turns
  <2> QED
    BY <1>1, <1>2, <1>4, <2>1, <2>3, ReturnSound
<1> QED
  BY <1>5, <1>6, <1>7

\* The batch is over.
LEMMA FinishBatchSound ==
    ASSUME AInv, FinishBatch
    PROVE  AInv'
<1>1. fr \in Frames /\ fr.iter <= fr.limit /\ history \in Seq(Messages)
  BY DEF AInv, Types
<1>2. fr.calls \in Seq(Calls) /\ fr.redundant \in Nat /\ fr.seen \in SUBSET Orientation
      /\ fr.noted \in BOOLEAN
  BY <1>1 DEF Frames
<1>3. Repeats(fr) \in Nat
  <2>1. \A T \in SUBSET (DOMAIN fr.calls) : Cardinality(T) \in Nat
    <3>1. DOMAIN fr.calls = 1 .. Len(fr.calls) /\ Len(fr.calls) \in Nat
      BY <1>2
    <3>2. IsFiniteSet(DOMAIN fr.calls)
      BY <3>1, FS_Interval
    <3> QED
      BY <3>2, FS_Subset, FS_CardinalityType
  <2> QED
    BY <2>1 DEF Repeats
<1>4. PICK r \in Nat : r = fr.redundant + Repeats(fr)
  BY <1>2, <1>3
<1>5. PICK note \in BOOLEAN : note = (~fr.noted /\ r >= RedundantReadLimit)
  OBVIOUS
<1>6. PICK noted \in BOOLEAN : noted = (fr.noted \/ note)
  OBVIOUS
<1>7. PICK seen \in SUBSET Orientation :
          seen = fr.seen \union ({fr.calls[i].tool : i \in DOMAIN fr.calls} \intersect Orientation)
  BY <1>2
<1>8. PICK none \in Seq(Calls) : none = <<>>
  <2>1. <<>> \in Seq(Calls)
    OBVIOUS
  <2> QED
    BY <2>1
<1>9. fr' = [fr EXCEPT !.calls = none, !.cur = 0, !.redundant = r, !.noted = noted, !.seen = seen]
  BY <1>4, <1>5, <1>6, <1>7, <1>8, Zenon DEF FinishBatch
<1>10. [fr EXCEPT !.calls = none, !.cur = 0, !.redundant = r, !.noted = noted, !.seen = seen]
          \in Frames
  BY <1>1 DEF Frames
<1>11. fr' \in Frames
  BY <1>9, <1>10, Zenon
<1>12. fr'.iter = fr.iter /\ fr'.limit = fr.limit /\ fr'.sub = fr.sub
  BY <1>1, <1>9 DEF Frames
<1>13. PICK tail \in Seq(Messages) : tail = IF note THEN <<SystemMessage>> ELSE <<>>
  <2>1. <<SystemMessage>> \in Seq(Messages) /\ <<>> \in Seq(Messages)
    BY MessageTypes
  <2> QED
    BY <2>1
<1>14. history' = history \o Recorded(fr) \o tail
  BY <1>4, <1>5, <1>13, Zenon DEF FinishBatch
<1>15. history' \in Seq(Messages)
  <2>1. Recorded(fr) \in Seq(Messages)
    BY <1>1, BatchTypes
  <2> QED
    BY <1>1, <1>14, <2>1
<1>16. pc = "serial" /\ pc' = "top" /\ UNCHANGED <<mode, parent, unseen, turn>>
  BY DEF FinishBatch
<1> QED
  BY <1>11, <1>12, <1>15, <1>16, SameLimits DEF Places

\* Every step keeps the invariant.
LEMMA StepSound == AInv /\ [Next]_vars => AInv'
<1> SUFFICES ASSUME AInv, [Next]_vars PROVE AInv'
  OBVIOUS
<1>1. CASE User
  BY <1>1, PressSound, StartTurnSound DEF User
<1>2. CASE Loop
  BY <1>2, HeadSound, ProviderSound, StreamEndSound, NoteSound, BatchSound, SubAgentSound,
     FinishBatchSound DEF Loop
<1>3. CASE Provider
  <2>1. turn \in Turns
    BY DEF AInv, Types
  <2> QED
    BY <1>3, <2>1, ProviderSound, NoteSound, ChunkSound, StreamEndSound DEF Provider
<1>4. CASE Toolbox
  BY <1>4, BatchSound, VerifySound, FinishToolSound DEF Toolbox
<1>5. CASE UNCHANGED vars
  BY <1>5 DEF vars, AInv, Types, Nesting, IsNested, ReconNeverWrites, Events, Presses, NoStalePress
<1> QED
  BY <1>1, <1>2, <1>3, <1>4, <1>5 DEF Next, Rest

\* The inductive invariant holds of every behaviour.
THEOREM Inductive == Spec => []AInv
<1>1. Init => AInv
  BY InitSound
<1>2. AInv /\ [Next]_vars => AInv'
  BY StepSound
<1> QED
  BY <1>1, <1>2, PTL DEF Spec

\* AgentTurn!TypeOK: the types, and the limits the constants of agent.rs set.
THEOREM TypeCorrect == Spec => []TypeOK
<1>1. AInv => TypeOK
  <2> SUFFICES ASSUME AInv PROVE TypeOK
    OBVIOUS
  <2>1. pc \in Places /\ mode \in Modes /\ fr \in Frames /\ fr.iter <= fr.limit
        /\ unseen \in BOOLEAN /\ turn \in Turns
    BY DEF AInv, Types
  <2>2. FrameOK(fr)
    BY <2>1, Constants DEF FrameOK, Frames, Owners
  <2>3. turn.mode \in Modes /\ turn.outcome \in Outcomes /\ turn.events \in Seq(Terminal)
    BY <2>1 DEF Turns
  <2>4. \A i \in DOMAIN turn.events : turn.events[i] \in Terminal
    BY <2>3
  <2> QED
    BY <2>1, <2>2, <2>3, <2>4 DEF TypeOK, Places, Outcomes
<1> QED
  BY <1>1, Inductive, PTL

\* AgentTurn!ModeReturns: a sub-agent's mode governs its own turn and no other,
\* and sub-agents are one deep.
THEOREM ModesReturn == Spec => []ModeReturns
<1>1. AInv => ModeReturns
  <2> SUFFICES ASSUME AInv PROVE ModeReturns
    OBVIOUS
  <2>1. Len(parent) <= 1
    <3>1. CASE IsNested
      <4>1. parent = <<parent[1]>>
        BY <3>1 DEF AInv, Types
      <4>2. \A x : Len(<<x>>) = 1
        OBVIOUS
      <4> QED
        BY <4>1, <4>2
    <3>2. CASE ~IsNested
      <4>1. Len(<<>>) = 0
        OBVIOUS
      <4> QED
        BY <3>2, <4>1 DEF IsNested
    <3> QED
      BY <3>1, <3>2
  <2> QED
    BY <2>1 DEF AInv, Nesting, ModeReturns
<1> QED
  BY <1>1, Inductive, PTL

\* AgentTurn!ReconNeverWrites: the recon sub-agents never write, in any mode.
THEOREM ReconReadsOnly == Spec => []ReconNeverWrites
<1>1. AInv => ReconNeverWrites
  BY DEF AInv
<1> QED
  BY <1>1, Inductive, PTL

\* AgentTurn!EndingMatchesOutcome: the last event of a finished turn is the one
\* of its outcome, and Done comes nowhere else.
THEOREM EndingsMatch == Spec => []EndingMatchesOutcome
<1>1. AInv => EndingMatchesOutcome
  <2> SUFFICES ASSUME AInv PROVE EndingMatchesOutcome
    OBVIOUS
  <2>1. turn.events \in Seq(Terminal) /\ Len(turn.events) \in Nat /\ turn.n \in Nat
        /\ turn.outcome \in Outcomes
    BY DEF AInv, Types, Turns
  <2>2. CASE pc # "idle"
    BY <2>1, <2>2 DEF AInv, Events, EndingMatchesOutcome
  <2>3. CASE pc = "idle" /\ turn.n = 0
    <3>1. Len(turn.events) = 0
      BY <2>3 DEF AInv, Events
    <3> QED
      BY <2>3, <3>1 DEF EndingMatchesOutcome
  <2>4. CASE pc = "idle" /\ turn.n > 0
    BY <2>1, <2>4 DEF AInv, Events, EndingMatchesOutcome, EventOf
  <2> QED
    BY <2>1, <2>2, <2>3, <2>4
<1> QED
  BY <1>1, Inductive, PTL

\* AgentTurn!NoStalePress: a turn answers only presses made after it started.
THEOREM NoPressIsStale == Spec => []NoStalePress
<1>1. AInv => NoStalePress
  BY DEF AInv, Presses
<1> QED
  BY <1>1, Inductive, PTL

\* Where a frame's end leaves the loop.
LEMMA EndsOnly ==
    ASSUME NEW f, NEW h
    PROVE  /\ Fail(f, h) => \/ pc' = "idle" /\ parent' = <<>>
                            \/ pc' = "serial" /\ parent # <<>> /\ parent' = <<>>
           /\ Abandon(f, h) => pc' = "idle" /\ parent' = <<>>
           /\ Complete(h) => \/ pc' = "idle" /\ parent' = <<>>
                             \/ pc' = "noteRequest" /\ parent' = parent
           /\ \A e : ReturnToParent(e) => pc' = "serial" /\ parent' = <<>>
<1>1. Fail(f, h) => \/ pc' = "idle" /\ parent' = <<>>
                    \/ pc' = "serial" /\ parent # <<>> /\ parent' = <<>>
  BY DEF Fail, ReturnToParent, IsNested
<1>2. Abandon(f, h) => pc' = "idle" /\ parent' = <<>>
  BY DEF Abandon
<1>3. Complete(h) => \/ pc' = "idle" /\ parent' = <<>>
                     \/ pc' = "noteRequest" /\ parent' = parent
  BY DEF Complete, IsNested
<1>4. \A e : ReturnToParent(e) => pc' = "serial" /\ parent' = <<>>
  BY DEF ReturnToParent
<1> QED
  BY <1>1, <1>2, <1>3, <1>4

\* What a pressed turn may still do.
Winds == ~GoesOn /\ Stage' >= Stage /\ (Completes => Stage' > Stage)

\* A frame that ends winds down, wherever it was.
LEMMA EndingWinds ==
    ASSUME pc \in Places, parent' = <<>>,
           \/ pc' = "idle"
           \/ pc' = "serial" /\ (pc = "stream" => parent # <<>>)
    PROVE  Winds
BY DEF Winds, GoesOn, Completes, Stage, Places

\* So does an answer that nears its end, and a step within a stage.
LEMMA StageWinds ==
    ASSUME pc \in Places, parent' = parent,
           \/ pc' = pc
           \/ pc = "idle" /\ pc' = "top"
           \/ pc = "backoff" /\ pc' = "connect"
           \/ pc = "connect" /\ pc' = "stream"
           \/ pc = "stream" /\ pc' \in {"verify", "noteRequest"}
           \/ pc = "verify" /\ pc' \in {"noteRequest", "top"}
           \/ pc = "noteRequest" /\ pc' = "note"
           \/ pc \in {"scan", "tool"} /\ pc' = "serial"
           \/ pc = "serial" /\ pc' = "top"
    PROVE  Winds
BY DEF Winds, GoesOn, Completes, Stage, Places

\* The steps of the loop, with a press it has not seen or no turn at all.
LEMMA LoopWinds ==
    ASSUME pc \in Places, pc = "idle" \/ unseen, Loop
    PROVE  Winds
<1>1. CASE SendRequest \/ StartTool \/ RefuseSubAgent \/ StartSubAgent
  BY <1>1 DEF SendRequest, StartTool, RefuseSubAgent, StartSubAgent
<1>2. CASE Ceiling
  BY <1>2, EndsOnly, EndingWinds DEF Ceiling
<1>3. CASE \/ InterruptAtTop \/ InterruptInBackoff \/ InterruptInStream \/ InterruptInBatch
  BY <1>3, EndsOnly, EndingWinds
     DEF InterruptAtTop, InterruptInBackoff, InterruptInStream, InterruptInBatch
<1>4. CASE InterruptInNote
  <2>1. pc = "note" /\ pc' = "serial" /\ parent' = <<>>
    BY <1>4, EndsOnly DEF InterruptInNote
  <2> QED
    BY <2>1, EndingWinds
<1>5. CASE BackoffOver \/ FinishBatch
  BY <1>5, StageWinds DEF BackoffOver, FinishBatch
<1> QED
  BY <1>1, <1>2, <1>3, <1>4, <1>5 DEF Loop

\* The provider's: a failed attempt is not retried, a batch is not started.
LEMMA ProviderWinds ==
    ASSUME pc \in Places, pc = "idle" \/ unseen, Provider
    PROVE  Winds
<1>1. CASE Connected \/ NoteConnected
  BY <1>1, StageWinds DEF Connected, NoteConnected
<1>2. CASE NoteEnds
  <2>1. pc \in {"noteRequest", "note"} /\ pc' = "serial" /\ parent' = <<>>
    BY <1>2, EndsOnly DEF NoteEnds
  <2> QED
    BY <2>1, EndingWinds
<1>3. CASE \/ \E piece \in Pieces : PieceChunk(piece)
           \/ \E t \in turn.tools : CallChunk(t)
  BY <1>3, StageWinds DEF PieceChunk, CallChunk, Chunk
<1>4. CASE \/ StreamEndsWithCalls
           \/ \E t \in turn.tools : StreamEndsWithTextCall(t)
  <2>1. PICK calls : Dispatch(calls) /\ pc = "stream"
    BY <1>4 DEF StreamEndsWithCalls, StreamEndsWithTextCall
  <2>2. pc' = "idle" /\ parent' = <<>>
    BY <2>1, EndsOnly DEF Dispatch
  <2> QED
    BY <2>2, EndingWinds
<1>5. CASE StreamEndsSettled
  <2>1. pc = "stream" /\ \/ pc' = "idle" /\ parent' = <<>>
                         \/ pc' \in {"verify", "noteRequest"} /\ parent' = parent
    BY <1>5, EndsOnly DEF StreamEndsSettled
  <2> QED
    BY <2>1, EndingWinds, StageWinds
<1>6. ASSUME NEW transient \in BOOLEAN, ProviderFails(transient)
      PROVE  Winds
  <2>1. Fail(fr, history) \/ Abandon(fr, history)
    BY <1>6 DEF ProviderFails, RetryOrFail
  <2> QED
    BY <2>1, EndsOnly, EndingWinds
<1> QED
  BY <1>1, <1>2, <1>3, <1>4, <1>5, <1>6 DEF Provider

\* The tools', and the user's.
LEMMA OtherWinds ==
    ASSUME pc \in Places, Toolbox \/ User \/ Rest
    PROVE  Winds
<1>1. CASE RunScans \/ VerifyFails
  BY <1>1, StageWinds DEF RunScans, VerifyFails
<1>2. CASE VerifyPasses
  <2>1. pc = "verify" /\ \/ pc' = "idle" /\ parent' = <<>>
                         \/ pc' = "noteRequest" /\ parent' = parent
    BY <1>2, EndsOnly DEF VerifyPasses
  <2> QED
    BY <2>1, EndingWinds, StageWinds
<1>3. ASSUME NEW ran \in BOOLEAN, FinishTool(ran)
      PROVE  Winds
  BY <1>3, StageWinds DEF FinishTool
<1>4. CASE User \/ Rest
  BY <1>4, StageWinds DEF User, Press, StartTurn, Rest, vars
<1> QED
  BY <1>1, <1>2, <1>3, <1>4 DEF Toolbox

\* AgentTurn!PressKept: after a press of the running turn the loop does not go on,
\* and the answer under way ends in a fixed order, unless the stream of a
\* sub-agent's handoff note consumed the press.
THEOREM PressIsKept == Spec => PressKept
<1>1. AInv /\ [Next]_vars => [turn.pressed /\ ~turn.swallowed => Winds]_vars
  <2> SUFFICES ASSUME AInv, Next, turn.pressed, ~turn.swallowed PROVE Winds
    BY DEF vars
  <2>1. pc \in Places /\ (pc = "idle" \/ unseen)
    BY DEF AInv, Types, Presses
  <2> QED
    BY <2>1, LoopWinds, ProviderWinds, OtherWinds DEF Next
<1>2. PressKept <=> [][turn.pressed /\ ~turn.swallowed => Winds]_vars
  BY DEF PressKept, Winds
<1> QED
  BY <1>1, <1>2, Inductive, PTL DEF Spec

-----------------------------------------------------------------------------
(* What a turn leaves in a conversation and in a frame.                    *)

InBatch == {"scan", "serial", "tool"}

\* A conversation whose last message holds the calls of a batch in progress.
Waiting(h, f) ==
    /\ f.anchor < Len(h)
    /\ h[Len(h)].calls = ToolsOf(f)
    /\ f.edited => TurnEdited(h, f.anchor)
    /\ Paired(h \o Recorded(f))

\* The conversation and the frame at each place of the loop.
At(p, h, f) ==
    /\ p \in InBatch => Waiting(h, f)
    /\ p = "tool" => f.cur \in DOMAIN f.calls
    /\ p \notin InBatch => Paired(h)
    /\ p \notin InBatch \union {"idle"} => f.anchor <= Len(h)
    /\ p \in {"top", "connect", "backoff", "stream"} => (f.edited => TurnEdited(h, f.anchor))
    /\ p = "verify" => ~f.edited
    /\ p \in {"connect", "backoff"} => ~f.shown
    /\ p = "connect" => f.content = {} /\ f.held = {} /\ f.calls = <<>> /\ ~f.emitted
    /\ p = "stream" => /\ f.shown = f.emitted
                       /\ f.content \union f.held \subseteq {f.retries}
                       /\ \A i \in DOMAIN f.calls : f.calls[i].try = f.retries

Kept ==
    /\ At(pc, history, fr)
    /\ IsNested => Waiting(parent[1].history, parent[1].fr)
    /\ VerifiedOrCapped

-----------------------------------------------------------------------------
(* Conversations.                                                           *)

Grows(h, g) == Len(h) <= Len(g) /\ \A i \in 1 .. Len(h) : g[i] = h[i]

\* What has been edited stays in a conversation that grows.
LEMMA EditedGrows ==
    ASSUME NEW h \in Seq(Messages), NEW g \in Seq(Messages), NEW a \in Nat,
           Grows(h, g), TurnEdited(h, a)
    PROVE  TurnEdited(g, a)
<1>1. Len(h) \in Nat /\ Len(g) \in Nat
  OBVIOUS
<1>2. PICK i \in (a + 1) .. Len(h) : \E k \in DOMAIN h[i].calls : h[i].calls[k] = "edit"
  BY DEF TurnEdited
<1>3. i \in 1 .. Len(h) /\ i \in (a + 1) .. Len(g)
  BY <1>1 DEF Grows
<1>4. g[i] = h[i]
  BY <1>3 DEF Grows
<1> QED
  BY <1>2, <1>3, <1>4 DEF TurnEdited

\* A message more.
LEMMA AppendGrows ==
    ASSUME NEW h \in Seq(Messages), NEW m \in Messages, NEW g, g = Append(h, m)
    PROVE  /\ g \in Seq(Messages) /\ Grows(h, g)
           /\ Len(g) = Len(h) + 1 /\ g[Len(g)] = m
  BY DEF Grows

\* Several messages more.
LEMMA ConcatGrows ==
    ASSUME NEW h \in Seq(Messages), NEW s \in Seq(Messages), NEW g, g = h \o s
    PROVE  g \in Seq(Messages) /\ Grows(h, g)
  BY DEF Grows

\* A message that neither calls a tool nor answers a call may follow anything.
LEMMA PairedAppend ==
    ASSUME NEW h \in Seq(Messages), NEW m \in Messages, m.calls = <<>>, m.role # "tool",
           Paired(h), NEW g, g = Append(h, m)
    PROVE  Paired(g)
<1> DEFINE n == Len(h)
<1>1. n \in Nat /\ DOMAIN h = 1 .. n /\ DOMAIN g = 1 .. (n + 1)
  OBVIOUS
<1>2. \A i \in 1 .. n : g[i] = h[i]
  OBVIOUS
<1>3. g[n + 1] = m
  OBVIOUS
<1>4. DOMAIN m.calls = {}
  OBVIOUS
<1> HIDE DEF n
<1>5. ASSUME NEW i \in DOMAIN g, NEW k \in DOMAIN g[i].calls
      PROVE  i + k \in DOMAIN g /\ g[i + k].role = "tool" /\ g[i + k].id = k
  <2>1. i \in 1 .. n
    BY <1>1, <1>3, <1>4, <1>5
  <2>2. k \in DOMAIN h[i].calls
    BY <1>2, <2>1
  <2>3. i + k \in DOMAIN h /\ h[i + k].role = "tool" /\ h[i + k].id = k
    BY <1>1, <2>1, <2>2 DEF Paired
  <2>4. g[i + k] = h[i + k] /\ i + k \in DOMAIN g
    BY <1>1, <1>2, <2>3
  <2> QED
    BY <2>3, <2>4
<1>6. ASSUME NEW j \in DOMAIN g, g[j].role = "tool"
      PROVE  \E i \in 1 .. (j - 1) : j - i \in DOMAIN g[i].calls /\ g[j].id = j - i
  <2>1. j \in 1 .. n /\ g[j] = h[j]
    BY <1>1, <1>2, <1>3, <1>6
  <2>2. PICK i \in 1 .. (j - 1) : j - i \in DOMAIN h[i].calls /\ h[j].id = j - i
    BY <1>1, <1>6, <2>1 DEF Paired
  <2>3. g[i] = h[i]
    BY <1>1, <1>2, <2>1, <2>2
  <2> QED
    BY <2>1, <2>2, <2>3
<1> QED
  BY <1>5, <1>6 DEF Paired

\* A batch of calls and the answers recorded for it may follow anything.
LEMMA PairedBatch ==
    ASSUME NEW h \in Seq(Messages), NEW f \in Frames, Paired(h),
           NEW b, b = Append(h, AssistantMessage(ToolsOf(f)))
    PROVE  Paired(b \o Recorded(f))
<1> DEFINE n == Len(h)
           c == Len(f.calls)
           g == b \o Recorded(f)
<1>1. f.calls \in Seq(Calls)
  BY DEF Frames
<1>2. n \in Nat /\ c \in Nat /\ DOMAIN h = 1 .. n /\ DOMAIN f.calls = 1 .. c
  BY <1>1
<1>3. PICK m \in Messages : m = AssistantMessage(ToolsOf(f))
  BY BatchTypes, MessageTypes
<1>4. m.role = "assistant" /\ m.calls = ToolsOf(f) /\ DOMAIN m.calls = 1 .. c
  BY <1>2, <1>3 DEF AssistantMessage, Message, ToolsOf
<1>5. PICK r \in Seq(Messages) : r = Recorded(f)
  BY BatchTypes
<1>6. Len(r) = c /\ \A k \in 1 .. c : r[k] = ToolMessage(k)
  BY <1>2, <1>5 DEF Recorded
<1>7. \A k \in 1 .. c : r[k].role = "tool" /\ r[k].id = k /\ r[k].calls = <<>>
  <2>1. \A k \in 1 .. c : /\ ToolMessage(k).role = "tool" /\ ToolMessage(k).id = k
                          /\ ToolMessage(k).calls = <<>>
    BY Zenon DEF ToolMessage, Message
  <2> QED
    BY <1>6, <2>1
<1>8. b \in Seq(Messages) /\ Len(b) = n + 1 /\ b[n + 1] = m /\ \A i \in 1 .. n : b[i] = h[i]
  BY <1>3
<1>9. g = b \o r
  BY <1>5
<1>10. DOMAIN g = 1 .. (n + 1 + c)
  <2>1. Len(b \o r) = Len(b) + Len(r) /\ b \o r \in Seq(Messages)
    BY <1>5, <1>8
  <2>2. Len(g) = n + 1 + c /\ g \in Seq(Messages)
    BY <1>2, <1>6, <1>8, <1>9, <2>1
  <2> HIDE DEF n, c, g
  <2> QED
    BY <2>2
<1>11. \A i \in 1 .. n : g[i] = h[i]
  BY <1>2, <1>8, <1>9
<1>12. g[n + 1] = m
  BY <1>2, <1>8, <1>9
<1>13. \A k \in 1 .. c : g[n + 1 + k] = r[k]
  BY <1>2, <1>6, <1>8, <1>9
<1> HIDE DEF n, c, g
<1>14. ASSUME NEW i \in DOMAIN g, NEW k \in DOMAIN g[i].calls
       PROVE  i + k \in DOMAIN g /\ g[i + k].role = "tool" /\ g[i + k].id = k
  <2>1. CASE i \in 1 .. n
    <3>1. i + k \in DOMAIN h /\ h[i + k].role = "tool" /\ h[i + k].id = k
      BY <1>2, <1>11, <1>14, <2>1 DEF Paired
    <3>2. g[i + k] = h[i + k] /\ i + k \in DOMAIN g
      BY <1>2, <1>10, <1>11, <3>1
    <3> QED
      BY <3>1, <3>2
  <2>2. CASE i = n + 1
    <3>1. k \in 1 .. c
      BY <1>4, <1>12, <1>14, <2>2
    <3>2. i + k \in DOMAIN g /\ g[i + k] = r[k]
      BY <1>2, <1>10, <1>13, <2>2, <3>1
    <3> QED
      BY <1>7, <3>1, <3>2
  <2>3. CASE i > n + 1
    <3>1. PICK q \in 1 .. c : i = n + 1 + q
      <4>1. i - (n + 1) \in 1 .. c /\ i = n + 1 + (i - (n + 1))
        BY <1>2, <1>10, <2>3
      <4> QED
        BY <4>1
    <3>2. g[i].calls = <<>>
      BY <1>7, <1>13, <3>1
    <3>3. DOMAIN g[i].calls = {}
      BY <3>2
    <3> QED
      BY <1>14, <3>3
  <2> QED
    BY <1>2, <1>10, <2>1, <2>2, <2>3
<1>15. ASSUME NEW j \in DOMAIN g, g[j].role = "tool"
       PROVE  \E i \in 1 .. (j - 1) : j - i \in DOMAIN g[i].calls /\ g[j].id = j - i
  <2>1. CASE j \in 1 .. n
    <3>1. PICK i \in 1 .. (j - 1) : j - i \in DOMAIN h[i].calls /\ h[j].id = j - i
      BY <1>2, <1>11, <1>15, <2>1 DEF Paired
    <3>2. g[i] = h[i] /\ g[j] = h[j]
      BY <1>2, <1>11, <2>1, <3>1
    <3> QED
      BY <3>1, <3>2
  <2>2. CASE j = n + 1
    BY <1>4, <1>12, <1>15, <2>2
  <2>3. CASE j > n + 1
    <3>1. PICK q \in 1 .. c : j = n + 1 + q
      <4>1. j - (n + 1) \in 1 .. c /\ j = n + 1 + (j - (n + 1))
        BY <1>2, <1>10, <2>3
      <4> QED
        BY <4>1
    <3>2. g[j].id = q
      BY <1>7, <1>13, <3>1
    <3>3. n + 1 \in 1 .. (j - 1) /\ j - (n + 1) = q
      BY <1>2, <3>1
    <3>4. q \in DOMAIN g[n + 1].calls
      BY <1>4, <1>12
    <3> QED
      BY <3>2, <3>3, <3>4
  <2> QED
    BY <1>2, <1>10, <2>1, <2>2, <2>3
<1>16. Paired(g)
  BY <1>14, <1>15 DEF Paired
<1> QED
  BY <1>16 DEF g

\* Waiting looks at a frame's calls, anchor and edits only.
LEMMA WaitingSame ==
    ASSUME NEW h, NEW f, NEW g, Waiting(h, f),
           g.calls = f.calls, g.anchor = f.anchor, g.edited = f.edited
    PROVE  Waiting(h, g)
<1>1. ToolsOf(g) = ToolsOf(f) /\ Recorded(g) = Recorded(f)
  BY DEF ToolsOf, Recorded
<1> QED
  BY <1>1 DEF Waiting

-----------------------------------------------------------------------------
(* The parts steps are made of.                                             *)

\* The frame works on: nothing settles.
LEMMA WorkKeeps ==
    ASSUME Kept, UNCHANGED parent, pc' \notin {"idle", "noteRequest"}, At(pc', history', fr')
    PROVE  Kept'
<1>1. VerifiedOrCapped'
  BY DEF VerifiedOrCapped
<1>2. (IsNested => Waiting(parent[1].history, parent[1].fr))'
  BY DEF Kept, IsNested
<1> QED
  BY <1>1, <1>2 DEF Kept

\* A sub-agent is done with: its parent is in its batch again.
LEMMA ReturnKeeps ==
    ASSUME AInv, Kept, IsNested, NEW edited \in BOOLEAN, ReturnToParent(edited)
    PROVE  Kept'
<1>1. PICK f : f = parent[1].fr
  OBVIOUS
<1>2. f \in Frames /\ Waiting(parent[1].history, f)
  BY <1>1, ParentFacts DEF Kept
<1>3. fr' = [f EXCEPT !.subEdited = f.subEdited \/ edited]
  BY <1>1, Zenon DEF ReturnToParent
<1>4. fr'.calls = f.calls /\ fr'.anchor = f.anchor /\ fr'.edited = f.edited
  BY <1>2, <1>3 DEF Frames
<1>5. pc' = "serial" /\ ~IsNested' /\ history' = parent[1].history
  BY DEF ReturnToParent, IsNested
<1>6. Waiting(history', fr')
  BY <1>2, <1>4, <1>5, WaitingSame
<1>7. At(pc', history', fr')
  BY <1>5, <1>6 DEF At, InBatch
<1> QED
  BY <1>5, <1>7 DEF Kept, VerifiedOrCapped

\* A turn over, but not completed, leaves a conversation that is answered.
LEMMA EndKeeps ==
    ASSUME pc' = "idle", ~IsNested', Paired(history'), turn'.outcome # "completed"
    PROVE  Kept'
  BY DEF Kept, At, InBatch, VerifiedOrCapped

\* A frame that fails leaves what it had, or goes back to its parent.
LEMMA FailKeeps ==
    ASSUME AInv, Kept, pc \notin InBatch \union {"idle"}, Fail(fr, history)
    PROVE  Kept'
<1>1. turn \in Turns /\ fr \in Frames
  BY DEF AInv, Types
<1>2. CASE IsNested
  <2>1. PICK edited \in BOOLEAN : edited = (fr.edited \/ fr.subEdited)
    OBVIOUS
  <2>2. ReturnToParent(edited)
    BY <1>2, <2>1, Zenon DEF Fail
  <2> QED
    BY <1>2, <2>2, ReturnKeeps
<1>3. CASE ~IsNested
  <2>1. pc' = "idle" /\ history' = history /\ parent' = parent
        /\ turn' = [Emit("error") EXCEPT !.outcome = "errored"]
    BY <1>3 DEF Fail
  <2>2. turn'.outcome = "errored"
    BY <1>1, <2>1 DEF Emit, Turns
  <2>3. Paired(history')
    BY <2>1 DEF Kept, At
  <2> QED
    BY <1>3, <2>1, <2>2, <2>3, EndKeeps DEF IsNested
<1> QED
  BY <1>2, <1>3

\* An abandoned frame leaves a conversation that is answered.
LEMMA AbandonKeeps ==
    ASSUME AInv, Kept, NEW f, NEW h, Paired(h), Abandon(f, h)
    PROVE  Kept'
<1>1. turn \in Turns
  BY DEF AInv, Types
<1>2. pc' = "idle" /\ ~IsNested'
  BY DEF Abandon, IsNested
<1>3. PICK es : turn' = [[turn EXCEPT !.events = es] EXCEPT !.outcome = "interrupted"]
  BY Zenon DEF Abandon, Emit, Emit2
<1>4. turn'.outcome = "interrupted"
  BY <1>1, <1>3 DEF Turns
<1>5. Paired(history')
  BY DEF Abandon, Kept, Waiting
<1> QED
  BY <1>2, <1>4, <1>5, EndKeeps

\* A frame settles, its edits verified or its rounds used up.
LEMMA CompleteKeeps ==
    ASSUME AInv, Kept, NEW h, Complete(h), Paired(h), fr'.anchor <= Len(h),
           mode = "agent" /\ turn.autoVerify /\ fr'.edited => fr'.rounds = MaxVerifyRounds
    PROVE  Kept'
<1>1. turn \in Turns
  BY DEF AInv, Types
<1>2. history' = h /\ UNCHANGED <<mode, parent>> /\ pc' \in {"noteRequest", "idle"}
  BY DEF Complete
<1>3. turn'.autoVerify = turn.autoVerify
  <2>1. CASE IsNested
    BY <2>1 DEF Complete
  <2>2. CASE ~IsNested
    BY <1>1, <2>2 DEF Complete, Emit, Turns
  <2> QED
    BY <2>1, <2>2
<1>4. At(pc', history', fr')
  BY <1>2 DEF At, InBatch
<1>5. VerifiedOrCapped'
  BY <1>2, <1>3 DEF VerifiedOrCapped
<1> QED
  BY <1>2, <1>4, <1>5 DEF Kept, IsNested

-----------------------------------------------------------------------------
(* The steps.                                                               *)

\* Messages that call nothing.
LEMMA PlainMessages ==
    ASSUME NEW m \in {UserMessage, SystemMessage, AssistantMessage(<<>>)}
    PROVE  m \in Messages /\ m.calls = <<>> /\ m.role # "tool"
<1>1. m \in Messages
  BY MessageTypes
<1>2. m.calls = <<>> /\ m.role # "tool"
  BY DEF UserMessage, SystemMessage, AssistantMessage, Message
<1> QED
  BY <1>1, <1>2

\* A plain message is added to a conversation that is answered.
LEMMA PlainAppend ==
    ASSUME NEW h \in Seq(Messages), Paired(h),
           NEW m \in {UserMessage, SystemMessage, AssistantMessage(<<>>)},
           NEW g, g = Append(h, m)
    PROVE  g \in Seq(Messages) /\ Paired(g) /\ Grows(h, g) /\ Len(g) = Len(h) + 1
<1>1. m \in Messages /\ m.calls = <<>> /\ m.role # "tool"
  BY PlainMessages
<1>2. Paired(g)
  BY <1>1, PairedAppend
<1> QED
  BY <1>1, <1>2, AppendGrows

\* At first there is no conversation.
LEMMA InitKeeps == Init => Kept
<1> SUFFICES ASSUME Init PROVE Kept
  OBVIOUS
<1>1. Paired(<<>>)
  BY DEF Paired
<1>2. pc = "idle" /\ history = <<>> /\ ~IsNested /\ turn.outcome = "none"
  BY DEF Init, IsNested, IdleTurn
<1> QED
  BY <1>1, <1>2 DEF Kept, At, InBatch, VerifiedOrCapped

\* A press changes nothing here; a turn adds its message.
LEMMA UserKeeps ==
    ASSUME AInv, Kept, User
    PROVE  Kept'
<1>1. turn \in Turns /\ history \in Seq(Messages)
  BY DEF AInv, Types
<1>2. CASE Press
  <2>1. UNCHANGED <<pc, history, mode, fr, parent>>
    BY <1>2 DEF Press
  <2>2. PICK p, b : turn' = [turn EXCEPT !.presses = p, !.pressed = b, !.swallowed = FALSE]
    BY <1>2, Zenon DEF Press
  <2>3. turn'.outcome = turn.outcome /\ turn'.autoVerify = turn.autoVerify
    BY <1>1, <2>2 DEF Turns
  <2> QED
    BY <2>1, <2>3 DEF Kept, IsNested, VerifiedOrCapped
<1>3. ASSUME NEW m \in UserModes, NEW v \in AutoVerify, NEW ts \in ToolSets,
             StartTurn(m, v, ts)
      PROVE  Kept'
  <2>1. history' = Append(history, UserMessage) /\ pc = "idle" /\ pc' = "top"
        /\ UNCHANGED parent /\ fr' = NewFrame(MaxIterations, Len(history) + 1, "none")
    BY <1>3 DEF StartTurn
  <2>2. Paired(history)
    BY <2>1 DEF Kept, At, InBatch
  <2>3. Paired(history') /\ Len(history') = Len(history) + 1 /\ history' \in Seq(Messages)
    BY <1>1, <2>1, <2>2, PlainAppend
  <2>4. fr'.anchor = Len(history) + 1 /\ fr'.edited = FALSE
    <3>1. PICK len : len = Len(history) + 1
      OBVIOUS
    <3>2. fr' = NewFrame(MaxIterations, len, "none")
      BY <2>1, <3>1
    <3>3. fr'.anchor = len /\ fr'.edited = FALSE
      BY <3>2, Zenon DEF NewFrame
    <3> QED
      BY <3>1, <3>3
  <2>5. At(pc', history', fr')
    BY <1>1, <2>1, <2>3, <2>4 DEF At, InBatch
  <2> QED
    BY <2>1, <2>5, WorkKeeps
<1> QED
  BY <1>2, <1>3 DEF User

\* A request is sent with a clean slate, or none is sent.
LEMMA HeadKeeps ==
    ASSUME AInv, Kept, Ceiling \/ InterruptAtTop \/ SendRequest
    PROVE  Kept'
<1>1. fr \in Frames /\ pc = "top"
  BY DEF AInv, Types, Ceiling, InterruptAtTop, SendRequest
<1>2. CASE Ceiling
  BY <1>1, <1>2, FailKeeps DEF Ceiling, InBatch
<1>3. CASE InterruptAtTop
  BY <1>1, <1>3, AbandonKeeps DEF InterruptAtTop, Kept, At, InBatch
<1>4. CASE SendRequest
  <2>1. PICK g : g = CleanSlate(fr)
    OBVIOUS
  <2>2. /\ g \in Frames /\ g.anchor = fr.anchor /\ g.edited = fr.edited /\ g.emitted = FALSE
        /\ g.content = {} /\ g.held = {} /\ g.calls = <<>>
    BY <1>1, <2>1, CleanSlateType
  <2>3. PICK k : fr' = [g EXCEPT !.iter = k, !.retries = 0, !.shown = FALSE]
    BY <1>4, <2>1, Zenon DEF SendRequest
  <2>4. /\ fr'.anchor = g.anchor /\ fr'.edited = g.edited /\ fr'.emitted = g.emitted
        /\ fr'.content = g.content /\ fr'.held = g.held /\ fr'.calls = g.calls
        /\ fr'.shown = FALSE
    <3>1. g \in Frames
      BY <2>2
    <3> QED
      BY <2>3, <3>1 DEF Frames
  <2>5. pc' = "connect" /\ UNCHANGED <<history, parent>>
    BY <1>4 DEF SendRequest
  <2>6. At(pc', history', fr')
    BY <1>1, <2>2, <2>4, <2>5 DEF Kept, At, InBatch
  <2> QED
    BY <2>5, <2>6, WorkKeeps
<1> QED
  BY <1>2, <1>3, <1>4

\* A retry waits only for what has shown nothing.
LEMMA ProviderKeeps ==
    ASSUME AInv, Kept, \/ Connected \/ BackoffOver \/ InterruptInBackoff
                       \/ \E transient \in BOOLEAN : ProviderFails(transient)
    PROVE  Kept'
<1>1. fr \in Frames
  BY DEF AInv, Types
<1>2. CASE Connected
  <2>1. pc = "connect" /\ pc' = "stream" /\ UNCHANGED <<history, fr, parent>>
    BY <1>2 DEF Connected
  <2>2. /\ Paired(history) /\ fr.anchor <= Len(history)
        /\ fr.edited => TurnEdited(history, fr.anchor)
        /\ ~fr.shown /\ fr.content = {} /\ fr.held = {} /\ fr.calls = <<>> /\ ~fr.emitted
    BY <2>1 DEF Kept, At, InBatch
  <2>3. fr.shown = fr.emitted /\ DOMAIN fr.calls = {} /\ fr.content \union fr.held = {}
    <3>1. fr.shown \in BOOLEAN /\ fr.emitted \in BOOLEAN
      BY <1>1 DEF Frames
    <3>2. DOMAIN fr.calls = {}
      BY <2>2
    <3> QED
      BY <2>2, <3>1, <3>2
  <2>4. At(pc', history', fr')
    BY <2>1, <2>2, <2>3 DEF At, InBatch
  <2> QED
    BY <2>1, <2>4, WorkKeeps
<1>3. CASE BackoffOver
  <2>1. pc = "backoff" /\ pc' = "connect" /\ UNCHANGED <<history, parent>> /\ fr' = CleanSlate(fr)
    BY <1>3 DEF BackoffOver
  <2>2. /\ fr'.anchor = fr.anchor /\ fr'.edited = fr.edited /\ fr'.emitted = FALSE
        /\ fr'.content = {} /\ fr'.held = {} /\ fr'.calls = <<>> /\ fr'.shown = fr.shown
    BY <1>1, <2>1, CleanSlateType
  <2>3. At(pc', history', fr')
    BY <2>1, <2>2 DEF Kept, At, InBatch
  <2> QED
    BY <2>1, <2>3, WorkKeeps
<1>4. CASE InterruptInBackoff
  BY <1>4, AbandonKeeps DEF InterruptInBackoff, Kept, At, InBatch
<1>5. ASSUME NEW transient \in BOOLEAN, ProviderFails(transient)
      PROVE  Kept'
  <2>1. pc \in {"connect", "stream"}
    BY <1>5 DEF ProviderFails
  <2>2. CASE Retryable(transient) /\ ~unseen
    <3>1. PICK r : fr' = [fr EXCEPT !.retries = r]
      BY <1>5, <2>2, Zenon DEF ProviderFails, RetryOrFail
    <3>2. fr'.anchor = fr.anchor /\ fr'.edited = fr.edited /\ fr'.shown = fr.shown
      BY <1>1, <3>1 DEF Frames
    <3>3. pc' = "backoff" /\ UNCHANGED <<history, parent>>
      BY <1>5, <2>2 DEF ProviderFails, RetryOrFail
    <3>4. ~fr.shown
      BY <2>1, <2>2 DEF Retryable, Kept, At
    <3>5. At(pc', history', fr')
      BY <2>1, <3>2, <3>3, <3>4 DEF Kept, At, InBatch
    <3> QED
      BY <3>3, <3>5, WorkKeeps
  <2>3. CASE ~Retryable(transient)
    BY <1>5, <2>1, <2>3, FailKeeps DEF ProviderFails, RetryOrFail, InBatch
  <2>4. CASE Retryable(transient) /\ unseen
    <3>1. Abandon(fr, history)
      BY <1>5, <2>4 DEF ProviderFails, RetryOrFail
    <3> QED
      BY <2>1, <3>1, AbandonKeeps DEF Kept, At, InBatch
  <2> QED
    BY <2>2, <2>3, <2>4
<1> QED
  BY <1>2, <1>3, <1>4, <1>5

\* What an attempt streams carries its number.
LEMMA ChunkKeeps ==
    ASSUME AInv, Kept, \/ \E piece \in Pieces : PieceChunk(piece)
                       \/ \E tool \in turn.tools : CallChunk(tool)
    PROVE  Kept'
<1>1. fr \in Frames /\ pc = "stream" /\ UNCHANGED <<pc, history, parent>>
  BY DEF AInv, Types, PieceChunk, CallChunk, Chunk
<1>2. /\ Paired(history) /\ fr.anchor <= Len(history)
      /\ fr.edited => TurnEdited(history, fr.anchor)
      /\ fr.shown = fr.emitted /\ fr.content \union fr.held \subseteq {fr.retries}
      /\ \A i \in DOMAIN fr.calls : fr.calls[i].try = fr.retries
  BY <1>1 DEF Kept, At, InBatch
<1>3. ASSUME NEW piece \in Pieces, PieceChunk(piece)
      PROVE  Kept'
  <2>1. PICK k : k = fr.chunks + 1
    OBVIOUS
  <2>2. PICK s : s = (fr.shown \/ piece # "held")
    OBVIOUS
  <2>3. PICK c :
            c = IF piece = "text" THEN fr.content \union fr.held \union {fr.retries} ELSE fr.content
    OBVIOUS
  <2>4. PICK h :
            h = CASE piece = "text" -> {}
                  [] piece = "held" -> fr.held \union {fr.retries}
                  [] OTHER -> fr.held
    OBVIOUS
  <2>5. PICK e : e = (fr.emitted \/ piece # "held")
    OBVIOUS
  <2>6. fr' = [fr EXCEPT !.chunks = k, !.shown = s, !.emitted = e, !.content = c, !.held = h]
    BY <1>3, <2>1, <2>2, <2>3, <2>4, <2>5 DEF PieceChunk
  <2>7. /\ fr'.shown = s /\ fr'.emitted = e /\ fr'.content = c /\ fr'.held = h
        /\ fr'.calls = fr.calls /\ fr'.retries = fr.retries /\ fr'.anchor = fr.anchor
        /\ fr'.edited = fr.edited
    BY <1>1, <2>6 DEF Frames
  <2>8. c \union h \subseteq {fr.retries} /\ s = e
    BY <1>2, <2>2, <2>3, <2>4, <2>5
  <2>9. At(pc', history', fr')
    BY <1>1, <1>2, <2>7, <2>8 DEF At, InBatch
  <2> QED
    BY <1>1, <2>9, WorkKeeps
<1>4. ASSUME NEW tool \in turn.tools, CallChunk(tool)
      PROVE  Kept'
  <2>1. PICK k : k = fr.chunks + 1
    OBVIOUS
  <2>2. PICK call : call = [tool |-> tool, try |-> fr.retries]
    OBVIOUS
  <2>3. PICK cs : cs = Append(fr.calls, call)
    OBVIOUS
  <2>4. fr' = [fr EXCEPT !.chunks = k, !.calls = cs]
    BY <1>4, <2>1, <2>2, <2>3 DEF CallChunk
  <2>5. /\ fr'.shown = fr.shown /\ fr'.emitted = fr.emitted /\ fr'.content = fr.content
        /\ fr'.held = fr.held /\ fr'.calls = cs /\ fr'.retries = fr.retries
        /\ fr'.anchor = fr.anchor /\ fr'.edited = fr.edited
    BY <1>1, <2>4 DEF Frames
  <2>6. \A i \in DOMAIN cs : cs[i].try = fr.retries
    <3>1. fr.calls \in Seq(Calls) /\ fr.retries \in Nat
      BY <1>1, Constants DEF Frames
    <3>2. call \in Calls
      BY <1>4, <2>2, <3>1 DEF Calls, AInv, Types, Turns
    <3>3. call.try = fr.retries
      BY <2>2
    <3>4. \A i \in DOMAIN cs : (i \in DOMAIN fr.calls /\ cs[i] = fr.calls[i]) \/ cs[i] = call
      BY <2>3, <3>1, <3>2
    <3> QED
      BY <1>2, <3>3, <3>4
  <2>7. At(pc', history', fr')
    BY <1>1, <1>2, <2>5, <2>6 DEF At, InBatch
  <2> QED
    BY <1>1, <2>7, WorkKeeps
<1> QED
  BY <1>3, <1>4

\* The calls are recorded, and so is an answer to each of them if the batch is
\* skipped; if not, the conversation waits for them.
LEMMA DispatchKeeps ==
    ASSUME AInv, Kept, pc = "stream", NEW calls \in Seq(Calls), Dispatch(calls)
    PROVE  Kept'
<1>1. fr \in Frames /\ history \in Seq(Messages) /\ fr.anchor \in Nat
  BY DEF AInv, Types, Frames
<1>2. Paired(history) /\ fr.anchor <= Len(history) /\ (fr.edited => TurnEdited(history, fr.anchor))
  BY DEF Kept, At, InBatch
<1>3. PICK g : g = Flush(fr)
  OBVIOUS
<1>4. g \in Frames /\ g.anchor = fr.anchor /\ g.edited = fr.edited
  BY <1>1, <1>3, FlushType
<1>5. PICK f : f = [g EXCEPT !.calls = calls, !.cur = 0]
  OBVIOUS
<1>6. f \in Frames /\ f.anchor = fr.anchor /\ f.edited = fr.edited
  <2>1. [g EXCEPT !.calls = calls, !.cur = 0] \in Frames
    BY <1>4 DEF Frames
  <2>2. f.anchor = g.anchor /\ f.edited = g.edited
    BY <1>4, <1>5 DEF Frames
  <2> QED
    BY <1>4, <1>5, <2>1, <2>2, Zenon
<1>7. f = [Flush(fr) EXCEPT !.calls = calls, !.cur = 0]
  BY <1>3, <1>5, Zenon
<1>8. PICK m : m = AssistantMessage(ToolsOf(f))
  OBVIOUS
<1>9. m \in Messages /\ m.calls = ToolsOf(f)
  BY <1>6, <1>8, BatchTypes, MessageTypes DEF AssistantMessage, Message
<1>10. PICK h : h = Append(history, m)
  OBVIOUS
<1>11. h \in Seq(Messages) /\ Grows(history, h) /\ Len(h) = Len(history) + 1 /\ h[Len(h)] = m
  BY <1>1, <1>9, <1>10, AppendGrows
<1>12. Paired(h \o Recorded(f))
  BY <1>1, <1>2, <1>6, <1>8, <1>10, PairedBatch
<1>13. CASE unseen
  <2>1. Abandon(f, h \o Recorded(f))
    BY <1>7, <1>8, <1>10, <1>13, Zenon DEF Dispatch
  <2> QED
    BY <1>12, <2>1, AbandonKeeps
<1>14. CASE ~unseen
  <2>1. /\ history' = h /\ fr' = f /\ UNCHANGED parent
        /\ pc' = "scan" \/ pc' = "serial"
    BY <1>7, <1>8, <1>10, <1>14, Zenon DEF Dispatch
  <2>2. f.edited => TurnEdited(h, f.anchor)
    BY <1>1, <1>2, <1>6, <1>11, EditedGrows
  <2>3. f.anchor < Len(h)
    <3>1. Len(history) \in Nat
      BY <1>1
    <3> QED
      BY <1>1, <1>2, <1>6, <1>11, <3>1
  <2>4. Waiting(h, f)
    BY <1>9, <1>11, <1>12, <2>2, <2>3 DEF Waiting
  <2>5. At(pc', history', fr')
    BY <2>1, <2>4 DEF At, InBatch
  <2> QED
    BY <2>1, <2>5, WorkKeeps
<1> QED
  BY <1>13, <1>14

\* A stream that ends is recorded, whichever way it ends.
LEMMA StreamEndKeeps ==
    ASSUME AInv, Kept, \/ InterruptInStream \/ StreamEndsSettled \/ StreamEndsWithCalls
                       \/ \E tool \in turn.tools : StreamEndsWithTextCall(tool)
    PROVE  Kept'
<1>1. fr \in Frames /\ history \in Seq(Messages) /\ turn \in Turns /\ fr.anchor \in Nat
  BY DEF AInv, Types, Frames
<1>2. pc = "stream"
  BY DEF InterruptInStream, StreamEndsSettled, StreamEndsWithCalls, StreamEndsWithTextCall
<1>3. Paired(history) /\ fr.anchor <= Len(history) /\ (fr.edited => TurnEdited(history, fr.anchor))
  BY <1>2 DEF Kept, At, InBatch
<1>4. PICK a : a = AssistantMessage(<<>>)
  OBVIOUS
<1>5. PICK h : h = Append(history, a)
  OBVIOUS
<1>6. h \in Seq(Messages) /\ Paired(h) /\ Grows(history, h) /\ Len(h) = Len(history) + 1
  BY <1>1, <1>3, <1>4, <1>5, PlainAppend
<1>7. Len(history) \in Nat
  BY <1>1
<1>8. CASE InterruptInStream
  <2>1. PICK f, g : Abandon(f, g) /\ g = IF Flushed = {} THEN history ELSE h
    BY <1>4, <1>5, <1>8, Zenon DEF InterruptInStream
  <2>2. Paired(g)
    BY <1>3, <1>6, <2>1
  <2> QED
    BY <2>1, <2>2, AbandonKeeps
<1>9. CASE StreamEndsSettled
  <2>1. PICK g : g = Flush(fr)
    OBVIOUS
  <2>2. g \in Frames /\ g.anchor = fr.anchor /\ g.edited = fr.edited /\ g.rounds = fr.rounds
    BY <1>1, <2>1, FlushType
  <2>3. CASE ShouldVerify(h)
    <3>1. PICK r : /\ history' = h /\ pc' = "verify" /\ UNCHANGED parent
                   /\ fr' = [g EXCEPT !.rounds = r, !.edited = FALSE, !.subEdited = FALSE]
      BY <1>4, <1>5, <1>9, <2>1, <2>3, Zenon DEF StreamEndsSettled
    <3>2. fr'.anchor = g.anchor /\ fr'.edited = FALSE
      BY <2>2, <3>1 DEF Frames
    <3>3. At(pc', history', fr')
      BY <1>1, <1>3, <1>6, <1>7, <2>2, <3>1, <3>2 DEF At, InBatch
    <3> QED
      BY <3>1, <3>3, WorkKeeps
  <2>4. CASE ~ShouldVerify(h)
    <3>1. Complete(h) /\ fr' = g
      BY <1>4, <1>5, <1>9, <2>1, <2>4, Zenon DEF StreamEndsSettled
    <3>2. fr'.anchor <= Len(h)
      BY <1>1, <1>3, <1>6, <1>7, <2>2, <3>1
    <3>3. mode = "agent" /\ turn.autoVerify /\ fr'.edited => fr'.rounds = MaxVerifyRounds
      <4>1. SUFFICES ASSUME mode = "agent", turn.autoVerify, fr'.edited
                     PROVE  fr'.rounds = MaxVerifyRounds
        OBVIOUS
      <4>2. TurnEdited(h, fr.anchor)
        BY <1>1, <1>3, <1>6, <2>2, <3>1, <4>1, EditedGrows
      <4>3. ~(fr.rounds < MaxVerifyRounds)
        BY <2>4, <4>1, <4>2 DEF ShouldVerify
      <4>4. fr.rounds \in 0 .. MaxVerifyRounds /\ MaxVerifyRounds \in Nat
        BY <1>1, Constants DEF Frames
      <4> QED
        BY <2>2, <3>1, <4>3, <4>4
    <3> QED
      BY <1>6, <3>1, <3>2, <3>3, CompleteKeeps
  <2> QED
    BY <2>3, <2>4
<1>10. CASE StreamEndsWithCalls
  <2>1. fr.calls \in Seq(Calls)
    BY <1>1 DEF Frames
  <2> QED
    BY <1>10, <2>1, DispatchKeeps DEF StreamEndsWithCalls
<1>11. ASSUME NEW tool \in turn.tools, StreamEndsWithTextCall(tool)
       PROVE  Kept'
  <2>1. tool \in AllTools /\ fr.retries \in Nat
    BY <1>1, Constants DEF Turns, Frames
  <2>2. [tool |-> tool, try |-> fr.retries] \in Calls
    BY <2>1 DEF Calls
  <2>3. <<[tool |-> tool, try |-> fr.retries]>> \in Seq(Calls)
    BY <2>2
  <2> QED
    BY <1>11, <2>3, DispatchKeeps DEF StreamEndsWithTextCall
<1> QED
  BY <1>8, <1>9, <1>10, <1>11

\* A verification finds no edit after it began.
LEMMA VerifyKeeps ==
    ASSUME AInv, Kept, VerifyPasses \/ VerifyFails
    PROVE  Kept'
<1>1. fr \in Frames /\ history \in Seq(Messages) /\ pc = "verify"
  BY DEF AInv, Types, VerifyPasses, VerifyFails
<1>2. Paired(history) /\ fr.anchor <= Len(history) /\ ~fr.edited
  BY <1>1 DEF Kept, At, InBatch
<1>3. CASE VerifyPasses
  BY <1>2, <1>3, CompleteKeeps DEF VerifyPasses
<1>4. CASE VerifyFails
  <2>1. PICK k : k = Len(history) + 1
    OBVIOUS
  <2>2. fr' = [fr EXCEPT !.anchor = k] /\ history' = Append(history, SystemMessage)
        /\ pc' = "top" /\ UNCHANGED parent
    BY <1>4, <2>1, Zenon DEF VerifyFails
  <2>3. fr'.anchor = k /\ fr'.edited = fr.edited
    BY <1>1, <2>2 DEF Frames
  <2>4. Paired(history') /\ Len(history') = Len(history) + 1
    BY <1>1, <1>2, <2>2, PlainAppend
  <2>5. Len(history) \in Nat
    BY <1>1
  <2>6. At(pc', history', fr')
    BY <1>2, <2>1, <2>2, <2>3, <2>4, <2>5 DEF At, InBatch
  <2> QED
    BY <2>2, <2>6, WorkKeeps
<1> QED
  BY <1>3, <1>4

\* A batch in progress: its conversation waits, whichever call runs.
LEMMA BatchKeeps ==
    ASSUME AInv, Kept, RunScans \/ InterruptInBatch \/ StartTool \/ RefuseSubAgent
    PROVE  Kept'
<1>1. fr \in Frames /\ Waiting(history, fr)
  BY DEF AInv, Types, RunScans, InterruptInBatch, StartTool, RefuseSubAgent, Kept, At, InBatch
<1>2. CASE RunScans
  BY <1>1, <1>2, WorkKeeps DEF RunScans, At, InBatch
<1>3. CASE InterruptInBatch
  BY <1>1, <1>3, AbandonKeeps DEF InterruptInBatch, Waiting
<1>4. CASE StartTool \/ RefuseSubAgent
  <2>1. /\ Remaining(fr) # {} /\ fr' = [fr EXCEPT !.cur = NextCall(fr)]
        /\ pc' \in {"tool", "serial"} /\ UNCHANGED <<history, parent>>
    BY <1>4 DEF StartTool, RefuseSubAgent
  <2>2. /\ fr'.calls = fr.calls /\ fr'.anchor = fr.anchor /\ fr'.edited = fr.edited
        /\ fr'.cur \in DOMAIN fr'.calls
    BY <1>1, <2>1, TakeCall
  <2>3. Waiting(history, fr')
    BY <1>1, <2>2, WaitingSame
  <2>4. At(pc', history', fr')
    BY <2>1, <2>2, <2>3 DEF At, InBatch
  <2> QED
    BY <2>1, <2>4, WorkKeeps
<1> QED
  BY <1>2, <1>3, <1>4

\* An edit that ran is a call of the conversation's last message.
LEMMA FinishToolKeeps ==
    ASSUME AInv, Kept, NEW ran \in BOOLEAN, FinishTool(ran)
    PROVE  Kept'
<1>1. fr \in Frames /\ history \in Seq(Messages) /\ fr.anchor \in Nat
  BY DEF AInv, Types, Frames
<1>2. pc = "tool" /\ pc' = "serial" /\ UNCHANGED <<history, parent>>
  BY DEF FinishTool
<1>3. Waiting(history, fr) /\ fr.cur \in DOMAIN fr.calls
  BY <1>2 DEF Kept, At, InBatch
<1>4. PICK tool : tool = fr.calls[fr.cur].tool
  OBVIOUS
<1>5. PICK e : e = (fr.edited \/ (ran /\ tool = "edit"))
  OBVIOUS
<1>6. fr' = [fr EXCEPT !.edited = e]
  BY <1>1, <1>4, <1>5 DEF FinishTool, Frames
<1>7. fr'.calls = fr.calls /\ fr'.anchor = fr.anchor /\ fr'.edited = e
  BY <1>1, <1>6 DEF Frames
<1>8. e => TurnEdited(history, fr.anchor)
  <2>1. SUFFICES ASSUME tool = "edit" PROVE TurnEdited(history, fr.anchor)
    BY <1>3, <1>5 DEF Waiting
  <2>2. Len(history) \in (fr.anchor + 1) .. Len(history)
    <3>1. Len(history) \in Nat /\ fr.anchor < Len(history)
      BY <1>1, <1>3 DEF Waiting
    <3> QED
      BY <1>1, <3>1
  <2>3. history[Len(history)].calls = ToolsOf(fr)
    BY <1>3 DEF Waiting
  <2>4. fr.cur \in DOMAIN ToolsOf(fr) /\ ToolsOf(fr)[fr.cur] = "edit"
    BY <1>3, <1>4, <2>1 DEF ToolsOf
  <2> QED
    BY <2>2, <2>3, <2>4 DEF TurnEdited
<1>9. Waiting(history, fr')
  <2>1. ToolsOf(fr') = ToolsOf(fr) /\ Recorded(fr') = Recorded(fr)
    BY <1>7 DEF ToolsOf, Recorded
  <2> QED
    BY <1>3, <1>7, <1>8, <2>1 DEF Waiting
<1>10. At(pc', history', fr')
  BY <1>2, <1>9 DEF At, InBatch
<1> QED
  BY <1>2, <1>10, WorkKeeps

\* The parent waits in its batch; the sub-agent has a conversation of its own.
LEMMA SubAgentKeeps ==
    ASSUME AInv, Kept, StartSubAgent
    PROVE  Kept'
<1>1. fr \in Frames /\ history \in Seq(Messages) /\ Waiting(history, fr) /\ Remaining(fr) # {}
  BY DEF AInv, Types, StartSubAgent, Kept, At, InBatch
<1>2. PICK f : f = [fr EXCEPT !.cur = NextCall(fr)]
  OBVIOUS
<1>3. Waiting(history, f)
  <2>1. f.calls = fr.calls /\ f.anchor = fr.anchor /\ f.edited = fr.edited
    BY <1>1, <1>2, TakeCall
  <2> QED
    BY <1>1, <2>1, WaitingSame
<1>4. parent' = <<[history |-> history, mode |-> mode, fr |-> f]>>
  BY <1>2, Zenon DEF StartSubAgent
<1>5. parent'[1].history = history /\ parent'[1].fr = f
  BY <1>4
<1>6. PICK seed, sub : /\ seed \in {<<>>, <<SystemMessage>>}
                       /\ history' = Append(seed, UserMessage)
                       /\ fr' = NewFrame(SubIterations, Len(seed) + 1, sub)
  <2>1. PICK tool : tool = fr.calls[NextCall(fr)].tool
    OBVIOUS
  <2>2. PICK seed : seed = IF tool = "delegate" THEN <<>> ELSE <<SystemMessage>>
    OBVIOUS
  <2>3. history' = Append(seed, UserMessage) /\ fr' = NewFrame(SubIterations, Len(seed) + 1, tool)
    BY <2>1, <2>2, Zenon DEF StartSubAgent
  <2>4. seed \in {<<>>, <<SystemMessage>>}
    BY <2>2, Zenon
  <2> QED
    BY <2>3, <2>4
<1>7. pc' = "top"
  BY DEF StartSubAgent
<1>8. seed \in Seq(Messages) /\ Paired(seed)
  <2>1. <<>> \in Seq(Messages) /\ Paired(<<>>)
    BY DEF Paired
  <2>2. <<SystemMessage>> = Append(<<>>, SystemMessage)
    OBVIOUS
  <2>3. <<SystemMessage>> \in Seq(Messages) /\ Paired(<<SystemMessage>>)
    BY <2>1, <2>2, PlainAppend
  <2> QED
    BY <1>6, <2>1, <2>3
<1>9. Paired(history') /\ Len(history') = Len(seed) + 1
  BY <1>6, <1>8, PlainAppend
<1>10. fr'.anchor = Len(seed) + 1 /\ fr'.edited = FALSE
  <2>1. PICK len : len = Len(seed) + 1
    OBVIOUS
  <2>2. fr' = NewFrame(SubIterations, len, sub)
    BY <1>6, <2>1
  <2>3. fr'.anchor = len /\ fr'.edited = FALSE
    BY <2>2, Zenon DEF NewFrame
  <2> QED
    BY <2>1, <2>3
<1>11. At(pc', history', fr')
  <2>1. Len(seed) \in Nat
    BY <1>8
  <2> QED
    BY <1>7, <1>9, <1>10, <2>1 DEF At, InBatch
<1>12. VerifiedOrCapped'
  BY <1>7 DEF VerifiedOrCapped
<1> QED
  BY <1>3, <1>5, <1>11, <1>12 DEF Kept

\* The handoff note ends with the parent back in its batch.
LEMMA NoteKeeps ==
    ASSUME AInv, Kept, NoteConnected \/ NoteEnds \/ InterruptInNote
    PROVE  Kept'
<1>1. IsNested
  BY DEF NoteConnected, NoteEnds, InterruptInNote, AInv, Nesting
<1>2. CASE NoteConnected
  <2>1. pc = "noteRequest" /\ pc' = "note" /\ UNCHANGED <<history, fr, parent>>
    BY <1>2 DEF NoteConnected
  <2>2. At(pc', history', fr')
    BY <2>1 DEF Kept, At, InBatch
  <2> QED
    BY <2>1, <2>2, WorkKeeps
<1>3. CASE NoteEnds \/ InterruptInNote
  <2>1. PICK edited \in BOOLEAN : edited = (fr.edited \/ fr.subEdited)
    OBVIOUS
  <2>2. ReturnToParent(edited)
    BY <1>3, <2>1, Zenon DEF NoteEnds, InterruptInNote
  <2> QED
    BY <1>1, <2>2, ReturnKeeps
<1> QED
  BY <1>2, <1>3

\* The batch is answered, and perhaps a note follows.
LEMMA FinishBatchKeeps ==
    ASSUME AInv, Kept, FinishBatch
    PROVE  Kept'
<1>1. fr \in Frames /\ history \in Seq(Messages) /\ fr.anchor \in Nat
  BY DEF AInv, Types, Frames
<1>2. pc = "serial" /\ pc' = "top" /\ UNCHANGED parent
  BY DEF FinishBatch
<1>3. Waiting(history, fr)
  BY <1>2 DEF Kept, At, InBatch
<1>4. PICK b : b = history \o Recorded(fr)
  OBVIOUS
<1>5. b \in Seq(Messages) /\ Grows(history, b) /\ Paired(b)
  BY <1>1, <1>3, <1>4, BatchTypes, ConcatGrows DEF Waiting
<1>6. PICK tail : history' = b \o tail /\ tail \in {<<>>, <<SystemMessage>>}
  BY <1>4 DEF FinishBatch
<1>7. history' \in Seq(Messages) /\ Grows(b, history') /\ Paired(history')
  <2>1. CASE tail = <<>>
    <3>1. history' = b
      BY <1>5, <1>6, <2>1
    <3> QED
      BY <1>5, <3>1 DEF Grows
  <2>2. CASE tail = <<SystemMessage>>
    <3>1. history' = Append(b, SystemMessage)
      BY <1>5, <1>6, <2>2
    <3> QED
      BY <1>5, <3>1, PlainAppend
  <2> QED
    BY <1>6, <2>1, <2>2
<1>8. Grows(history, history')
  BY <1>1, <1>5, <1>7 DEF Grows
<1>9. fr'.anchor = fr.anchor /\ fr'.edited = fr.edited
  <2>1. PICK none, r, noted, seen :
            fr' = [fr EXCEPT !.calls = none, !.cur = 0, !.redundant = r,
                             !.noted = noted, !.seen = seen]
    BY Zenon DEF FinishBatch
  <2> QED
    BY <1>1, <2>1 DEF Frames
<1>10. fr.edited => TurnEdited(history', fr.anchor)
  BY <1>1, <1>3, <1>7, <1>8, EditedGrows DEF Waiting
<1>11. fr.anchor <= Len(history')
  <2>1. Len(history) \in Nat /\ Len(history') \in Nat
    BY <1>1, <1>7
  <2> QED
    BY <1>1, <1>3, <1>8, <2>1 DEF Waiting, Grows
<1>12. At(pc', history', fr')
  BY <1>2, <1>7, <1>9, <1>10, <1>11 DEF At, InBatch
<1> QED
  BY <1>2, <1>12, WorkKeeps

\* Every step keeps it.
LEMMA StepKeeps == AInv /\ Kept /\ [Next]_vars => Kept'
<1> SUFFICES ASSUME AInv, Kept, [Next]_vars PROVE Kept'
  OBVIOUS
<1>1. CASE User
  BY <1>1, UserKeeps
<1>2. CASE Loop
  BY <1>2, HeadKeeps, ProviderKeeps, StreamEndKeeps, NoteKeeps, BatchKeeps, SubAgentKeeps,
     FinishBatchKeeps DEF Loop
<1>3. CASE Provider
  BY <1>3, ProviderKeeps, NoteKeeps, ChunkKeeps, StreamEndKeeps DEF Provider
<1>4. CASE Toolbox
  BY <1>4, BatchKeeps, VerifyKeeps, FinishToolKeeps DEF Toolbox
<1>5. CASE UNCHANGED vars
  BY <1>5 DEF vars, Kept, IsNested, VerifiedOrCapped
<1> QED
  BY <1>1, <1>2, <1>3, <1>4, <1>5 DEF Next, Rest

\* The second inductive invariant, on top of the first.
THEOREM KeptInductive == Spec => []Kept
<1>1. Init => Kept
  BY InitKeeps
<1>2. AInv /\ Kept /\ [Next]_vars => Kept'
  BY StepKeeps
<1> QED
  BY <1>1, <1>2, Inductive, PTL DEF Spec

\* AgentTurn!EveryCallAnswered: whenever a request is built or a turn is over,
\* every tool call of the conversation is answered, in call order.
THEOREM CallsAnswered == Spec => []EveryCallAnswered
<1>1. Kept => EveryCallAnswered
  BY DEF Kept, At, InBatch, Waiting, EveryCallAnswered
<1> QED
  BY <1>1, KeptInductive, PTL

\* AgentTurn!VerifiedOrCapped: an Agent-mode frame does not settle with edits
\* made after the last verification, unless its rounds are used up.
THEOREM EditsVerified == Spec => []VerifiedOrCapped
<1>1. Kept => VerifiedOrCapped
  BY DEF Kept
<1> QED
  BY <1>1, KeptInductive, PTL

\* AgentTurn!CleanRetry: nothing of a failed attempt survives into the next, and
\* nothing already shown is streamed again.
THEOREM RetriesClean == Spec => []CleanRetry
<1>1. Kept => CleanRetry
  BY DEF Kept, At, InBatch, CleanRetry
<1> QED
  BY <1>1, KeptInductive, PTL
==============================================================================
