-------------------------- MODULE FileAccessProofs --------------------------
(* Proofs about FileAccess, for any sessions, files, names, projects and    *)
(* bounds: the funnel of search, read and edit, the guards of hidden and    *)
(* hardened files, and the stored plans.                                    *)
EXTENDS FileAccess, CommonLemmas

\* A call; of what it revises and the copy it holds nothing is asked.
CallsOf(Revised, Copies) ==
    [at : {"none", "asking", "gated", "writing", "running"},
     tool : {"none", "read", "search", "edit", "searchAll", "plan", "command"},
     name : Names \union {None}, file : Files \union {Elsewhere},
     granted : BOOLEAN, fresh : BOOLEAN, content : Contents,
     draft : Drafts \union {None}, revises : Revised, copy : Copies]
Logs == [searched : SUBSET Files, read : SUBSET Files]
OnFiles == {"read", "search", "edit"}

Typed(Revised, Copies) ==
    /\ None \in Revised /\ <<>> \in Copies
    /\ call \in [Sessions -> CallsOf(Revised, Copies)]

\* The log is what the results told the session.
Shape ==
    /\ \E Revised, Copies : Typed(Revised, Copies)
    /\ project \in [Sessions -> Projects]
    /\ log \in [Sessions -> Logs] /\ log = seen
    /\ attached \in Sessions
    /\ \A s \in Sessions \ started : call[s] = NoCall

\* A call past a gate has what the gate asked for, and keeps it to its end.
CallSound(s) ==
    LET c == call[s]
    IN  /\ c.at # "none" /\ c.tool \in OnFiles => c.name \in Names /\ c.file = Resolve[c.name]
        /\ c.at = "gated" /\ c.tool = "read" /\ c.file # Elsewhere => c.file \in log[s].searched
        /\ c.at \in {"gated", "writing"} /\ c.tool = "edit" /\ c.file # Elsewhere =>
              /\ c.fresh \/ c.file \in log[s].read
              /\ Hardened(s, c.file) => c.granted
        /\ c.at = "writing" => c.tool = "edit" /\ c.file # Elsewhere /\ ~Hidden(s, c.file)

FInv == Shape /\ \A s \in Sessions : CallSound(s)

\* What a step may do to a call: end it, or leave it with a log that only grew.
Steady(s) ==
    \/ call'[s] = NoCall
    \/ /\ call'[s] = call[s] /\ project'[s] = project[s]
       /\ log[s].searched \subseteq log'[s].searched /\ log[s].read \subseteq log'[s].read

\* A steady call stays sound.
LEMMA SteadySound ==
    ASSUME FInv, NEW s \in Sessions, Steady(s)
    PROVE  CallSound(s)'
  <1>1. CASE call'[s] = NoCall
    BY <1>1 DEF CallSound, NoCall
  <1>2. CASE call'[s] # NoCall
    BY <1>2 DEF FInv, CallSound, Steady, Hardened, Hidden
  <1>3. QED
    BY <1>1, <1>2

\* A call that passes the funnel has been where it sends calls first.
LEMMA PastFunnelSound ==
    ASSUME NEW Revised, NEW Copies, None \in Revised, <<>> \in Copies,
           NEW s \in Sessions, NEW c \in CallsOf(Revised, Copies), NEW d, d = PastFunnel(s, c)
    PROVE  /\ d \in CallsOf(Revised, Copies)
           /\ \/ d = NoCall
              \/ /\ d.at = "gated" /\ d.tool = c.tool /\ d.file = c.file /\ d.name = c.name
                 /\ d.granted = c.granted
                 /\ d.tool = "read" /\ d.file # Elsewhere => Resolve[d.name] \in log[s].searched
                 /\ d.tool = "edit" /\ d.file # Elsewhere => d.fresh \/ Resolve[d.name] \in log[s].read
  <1>1. PICK b \in BOOLEAN : b = (c.file # Elsewhere /\ ~Exists(c.file))
    OBVIOUS
  <1>2. d = IF FunnelPasses(s, c) THEN [c EXCEPT !.at = "gated", !.fresh = b] ELSE NoCall
    BY <1>1, Zenon DEF PastFunnel
  <1>3. NoCall \in CallsOf(Revised, Copies)
    BY DEF CallsOf, NoCall, Contents
  <1>4. CASE FunnelPasses(s, c)
    <2>1. d = [c EXCEPT !.at = "gated", !.fresh = b]
      BY <1>2, <1>4
    <2>2. /\ d \in CallsOf(Revised, Copies) /\ d.at = "gated" /\ d.fresh = b
          /\ d.tool = c.tool /\ d.file = c.file /\ d.name = c.name /\ d.granted = c.granted
      BY <2>1 DEF CallsOf
    <2>3. /\ c.tool = "read" /\ c.file # Elsewhere => Resolve[c.name] \in log[s].searched
          /\ c.tool = "edit" /\ c.file # Elsewhere => b \/ Resolve[c.name] \in log[s].read
      BY <1>1, <1>4 DEF FunnelPasses, Key
    <2>4. QED
      BY <2>2, <2>3
  <1>5. CASE ~FunnelPasses(s, c)
    BY <1>2, <1>3, <1>5
  <1>6. QED
    BY <1>4, <1>5

\* A call on a file goes to the user, on to its body, or no further; an edit of
\* a hardened file does not go on unasked.
LEMMA GatedSound ==
    ASSUME NEW Revised, NEW Copies, None \in Revised, <<>> \in Copies,
           NEW s \in Sessions, NEW n \in Names, NEW tool \in OnFiles,
           NEW c \in CallsOf(Revised, Copies), c.tool = tool, c.name = n, c.file = Resolve[n],
           NEW d, d = Gated(s, c)
    PROVE  /\ d \in CallsOf(Revised, Copies)
           /\ \/ d = NoCall
              \/ /\ d.tool = tool /\ d.file = Resolve[n] /\ d.name = n
                 /\ \/ d.at = "asking"
                    \/ /\ d.at = "gated"
                       /\ d.tool = "read" /\ d.file # Elsewhere => d.file \in log[s].searched
                       /\ d.tool = "edit" /\ d.file # Elsewhere =>
                             (d.fresh \/ d.file \in log[s].read) /\ ~Hardened(s, d.file)
  <1> DEFINE asked == [c EXCEPT !.at = "asking"]
             soft == tool = "edit" /\ Resolve[n] # Elsewhere => ~Hardened(s, Resolve[n])
  <1>2. NoCall \in CallsOf(Revised, Copies)
    BY DEF CallsOf, NoCall, Contents
  <1>3. /\ asked \in CallsOf(Revised, Copies) /\ asked.at = "asking"
        /\ asked.tool = tool /\ asked.file = Resolve[n] /\ asked.name = n
    BY DEF CallsOf
  <1> HIDE DEF asked
  <1>4. AskOrDeny(s, c) \in {asked, NoCall}
    BY DEF AskOrDeny, asked
  <1>5. d \in {asked, NoCall} \/ (d = PastFunnel(s, c) /\ soft)
    BY <1>2, <1>4 DEF Gated
  <1>6. CASE d \in {asked, NoCall}
    BY <1>2, <1>3, <1>6
  <1>7. CASE d = PastFunnel(s, c) /\ soft
    <2>1. /\ d \in CallsOf(Revised, Copies)
          /\ \/ d = NoCall
             \/ /\ d.at = "gated" /\ d.tool = c.tool /\ d.file = c.file /\ d.name = c.name
                /\ d.granted = c.granted
                /\ d.tool = "read" /\ d.file # Elsewhere => Resolve[d.name] \in log[s].searched
                /\ d.tool = "edit" /\ d.file # Elsewhere => d.fresh \/ Resolve[d.name] \in log[s].read
      BY <1>7, PastFunnelSound
    <2>2. QED
      BY <1>2, <1>7, <2>1
  <1>8. QED
    BY <1>5, <1>6, <1>7

-----------------------------------------------------------------------------
(* Steps.                                                                  *)

\* One session's call is changed, the others are left alone.
LEMMA OneCall ==
    ASSUME FInv, NEW Revised, NEW Copies, Typed(Revised, Copies)', NEW s \in Sessions, CallSound(s)',
           \A t \in Sessions \ {s} : Steady(t),
           project' \in [Sessions -> Projects], attached' \in Sessions,
           log' \in [Sessions -> Logs], log' = seen',
           \A t \in Sessions \ started' : call'[t] = NoCall
    PROVE  FInv'
  <1>1. Shape'
    BY DEF Shape
  <1>2. \A t \in Sessions : CallSound(t)'
    BY SteadySound
  <1>3. QED
    BY <1>1, <1>2 DEF FInv

\* A call is over, having read and searched more.
LEMMA FinishSound ==
    ASSUME FInv, NEW s \in Sessions, Finish(s), UNCHANGED <<project, attached, started>>,
           log' \in [Sessions -> Logs], log' = seen', \A t \in Sessions \ {s} : log'[t] = log[t]
    PROVE  FInv'
  <1>1. PICK Revised, Copies : Typed(Revised, Copies)
    BY DEF FInv, Shape
  <1>2. NoCall \in CallsOf(Revised, Copies)
    BY <1>1 DEF Typed, CallsOf, NoCall, Contents
  <1>3. Typed(Revised, Copies)' /\ call'[s] = NoCall /\ \A t \in Sessions \ {s} : call'[t] = call[t]
    BY <1>1, <1>2 DEF Typed, Finish
  <1>4. CallSound(s)'
    BY <1>3 DEF CallSound, NoCall
  <1>5. \A t \in Sessions \ {s} : Steady(t)
    BY <1>3 DEF Steady
  <1>6. \A t \in Sessions \ started' : call'[t] = NoCall
    BY <1>3 DEF FInv, Shape
  <1>7. project' \in [Sessions -> Projects] /\ attached' \in Sessions
    BY DEF FInv, Shape
  <1>8. QED
    BY <1>3, <1>4, <1>5, <1>6, <1>7, OneCall

\* A session begins a call, or goes on with the one it has.
LEMMA Begun ==
    ASSUME FInv, NEW s \in Sessions, NEW Revised, NEW Copies, Typed(Revised, Copies),
           NEW Revised2, NEW Copies2, Revised \subseteq Revised2, Copies \subseteq Copies2,
           NEW d \in CallsOf(Revised2, Copies2), call' = [call EXCEPT ![s] = d],
           s \in started, UNCHANGED <<project, log, seen, attached, started>>, CallSound(s)'
    PROVE  FInv'
  <1>1. CallsOf(Revised, Copies) \subseteq CallsOf(Revised2, Copies2)
    BY DEF CallsOf
  <1>2. Typed(Revised2, Copies2)' /\ call'[s] = d /\ \A t \in Sessions \ {s} : call'[t] = call[t]
    BY <1>1 DEF Typed
  <1>3. \A t \in Sessions \ {s} : Steady(t)
    BY <1>2 DEF Steady
  <1>4. /\ project' \in [Sessions -> Projects] /\ attached' \in Sessions
        /\ log' \in [Sessions -> Logs] /\ log' = seen'
        /\ \A t \in Sessions \ started' : call'[t] = NoCall
    BY <1>2 DEF FInv, Shape
  <1>5. QED
    BY <1>2, <1>3, <1>4, OneCall

\* gate_path and the funnel (executor.rs) let no unsound call on a file past.
LEMMA CallFileSound ==
    ASSUME FInv, NEW s \in Sessions, NEW n \in Names, NEW tool \in OnFiles, CallFile(s, tool, n)
    PROVE  FInv'
  <1>1. PICK Revised, Copies : Typed(Revised, Copies)
    BY DEF FInv, Shape
  <1>2. PICK c : c = [NoCall EXCEPT !.tool = tool, !.name = n, !.file = Resolve[n]]
    OBVIOUS
  <1>3. PICK d : d = Gated(s, c)
    OBVIOUS
  <1>9. c \in CallsOf(Revised, Copies) /\ c.tool = tool /\ c.name = n /\ c.file = Resolve[n]
    <2>1. Resolve[n] \in Files \union {Elsewhere}
      BY FileConstants
    <2>2. QED
      BY <1>1, <1>2, <2>1 DEF Typed, CallsOf, NoCall, OnFiles, Contents
  <1>4. /\ d \in CallsOf(Revised, Copies)
        /\ \/ d = NoCall
           \/ /\ d.tool = tool /\ d.file = Resolve[n] /\ d.name = n
              /\ \/ d.at = "asking"
                 \/ /\ d.at = "gated"
                    /\ d.tool = "read" /\ d.file # Elsewhere => d.file \in log[s].searched
                    /\ d.tool = "edit" /\ d.file # Elsewhere =>
                          (d.fresh \/ d.file \in log[s].read) /\ ~Hardened(s, d.file)
    BY <1>1, <1>3, <1>9, GatedSound DEF Typed
  <1>5. call' = [call EXCEPT ![s] = d] /\ s \in started /\ UNCHANGED <<project, log, seen, attached, started>>
    BY <1>2, <1>3, Zenon DEF CallFile, Begin
  <1>6. call'[s] = d /\ log' = log /\ project' = project
    BY <1>1, <1>5 DEF Typed
  <1>7. CallSound(s)'
    BY <1>4, <1>6 DEF CallSound, Hardened, Hidden, NoCall, OnFiles
  <1>8. QED
    BY <1>1, <1>4, <1>5, <1>7, Begun

\* After the answer the funnel is asked again, with the same names.
LEMMA AnswerSound ==
    ASSUME FInv, NEW s \in Sessions, NEW yes \in BOOLEAN, AnswerPath(s, yes)
    PROVE  FInv'
  <1>1. PICK Revised, Copies : Typed(Revised, Copies)
    BY DEF FInv, Shape
  <1>0. PICK c : c = [call[s] EXCEPT !.granted = TRUE]
    OBVIOUS
  <1>2. /\ c \in CallsOf(Revised, Copies) /\ c.granted = TRUE
        /\ c.tool = call[s].tool /\ c.name = call[s].name /\ c.file = call[s].file
    BY <1>0, <1>1, ZenonT(60) DEF Typed, CallsOf
  <1>3. call[s].tool \in OnFiles /\ call[s].file = Resolve[call[s].name]
    BY DEF FInv, CallSound, AnswerPath, OnFiles
  <1>4. NoCall \in CallsOf(Revised, Copies)
    BY <1>1 DEF Typed, CallsOf, NoCall, Contents
  <1>5. PICK d : d = IF yes THEN PastFunnel(s, c) ELSE NoCall
    OBVIOUS
  <1>6. call' = [call EXCEPT ![s] = d] /\ UNCHANGED <<project, log, seen, attached, started>>
    BY <1>0, <1>5, Zenon DEF AnswerPath
  <1>7. /\ d \in CallsOf(Revised, Copies)
        /\ \/ d = NoCall
           \/ /\ d.at = "gated" /\ d.tool = c.tool /\ d.file = c.file /\ d.name = c.name
              /\ d.granted = TRUE
              /\ d.tool = "read" /\ d.file # Elsewhere => Resolve[d.name] \in log[s].searched
              /\ d.tool = "edit" /\ d.file # Elsewhere => d.fresh \/ Resolve[d.name] \in log[s].read
    <2>1. None \in Revised /\ <<>> \in Copies /\ c.granted = TRUE
      BY <1>1, <1>2 DEF Typed
    <2>2. CASE yes
      <3>1. d = PastFunnel(s, c)
        BY <1>5, <2>2
      <3>2. QED
        BY <1>2, <2>1, <3>1, PastFunnelSound
    <2>3. QED
      BY <1>4, <1>5, <2>2
  <1>8. CallSound(s)'
    <2>1. call'[s] = d /\ log' = log /\ project' = project
      BY <1>1, <1>6 DEF Typed
    <2>2. c.name \in Names
      BY <1>2 DEF FInv, CallSound, AnswerPath, OnFiles
    <2>3. QED
      BY <1>2, <1>3, <1>7, <2>1, <2>2 DEF CallSound, Hardened, Hidden, NoCall, OnFiles
  <1>9. s \in started
    BY DEF FInv, Shape, AnswerPath, NoCall
  <1>10. QED
    BY <1>1, <1>6, <1>7, <1>8, <1>9, Begun

\* The body of an edit refuses hidden files and keeps what the gates found.
LEMMA RunEditSound ==
    ASSUME FInv, NEW s \in Sessions, RunEdit(s)
    PROVE  FInv'
  <1>1. UNCHANGED <<project, log, seen, attached, started>> /\ call[s].at = "gated" /\ call[s].tool = "edit"
    BY DEF RunEdit
  <1>2. CASE Finish(s)
    BY <1>1, <1>2, FinishSound DEF FInv, Shape
  <1>3. CASE ~Finish(s)
    <2>1. PICK Revised, Copies : Typed(Revised, Copies)
      BY DEF FInv, Shape
    <2>2. PICK content \in Texts \union {"empty"} :
              /\ call[s].file # Elsewhere /\ ~Hidden(s, call[s].file)
              /\ call' = [call EXCEPT ![s] = [@ EXCEPT !.at = "writing", !.content = content]]
      BY <1>3 DEF RunEdit, Finish
    <2>0. PICK d : d = [call[s] EXCEPT !.at = "writing", !.content = content]
      OBVIOUS
    <2>3. /\ d \in CallsOf(Revised, Copies)
          /\ d.at = "writing" /\ d.tool = call[s].tool /\ d.name = call[s].name
          /\ d.file = call[s].file /\ d.fresh = call[s].fresh /\ d.granted = call[s].granted
      BY <2>0, <2>1, ZenonT(60) DEF Typed, CallsOf, Contents
    <2>4. call' = [call EXCEPT ![s] = d]
      BY <2>0, <2>2, Zenon
    <2>7. s \in started
      BY <1>1 DEF FInv, Shape, NoCall
    <2>5. CallSound(s)'
      <3>1. call'[s] = d /\ log' = log /\ project' = project
        BY <1>1, <2>1, <2>4 DEF Typed
      <3>2. CallSound(s)
        BY DEF FInv
      <3>3. QED
        BY <1>1, <2>2, <2>3, <3>1, <3>2 DEF CallSound, Hardened, Hidden, OnFiles
    <2>6. QED
      BY <1>1, <2>1, <2>3, <2>4, <2>5, <2>7, Begun
  <1>4. QED
    BY <1>2, <1>3

\* A search of the whole workspace names no file.
LEMMA CallSearchAllSound ==
    ASSUME FInv, NEW s \in Sessions, CallSearchAll(s)
    PROVE  FInv'
  <1>1. PICK Revised, Copies : Typed(Revised, Copies)
    BY DEF FInv, Shape
  <1>2. PICK d : d = [NoCall EXCEPT !.tool = "searchAll", !.at = "gated"]
    OBVIOUS
  <1>3. d \in CallsOf(Revised, Copies) /\ d.tool = "searchAll" /\ d.at = "gated"
    BY <1>1, <1>2 DEF Typed, CallsOf, NoCall, Contents
  <1>4. call' = [call EXCEPT ![s] = d] /\ s \in started /\ UNCHANGED <<project, log, seen, attached, started>>
    BY <1>2, Zenon DEF CallSearchAll, Begin
  <1>5. CallSound(s)'
    <2>1. call'[s] = d
      BY <1>1, <1>4 DEF Typed
    <2>2. QED
      BY <1>3, <2>1 DEF CallSound, OnFiles
  <1>6. QED
    BY <1>1, <1>3, <1>4, <1>5, Begun

\* Commands name no file.
LEMMA CallCommandSound ==
    ASSUME FInv, NEW s \in Sessions, CallCommand(s)
    PROVE  FInv'
  <1>1. PICK Revised, Copies : Typed(Revised, Copies)
    BY DEF FInv, Shape
  <1>2. PICK d : d = [NoCall EXCEPT !.tool = "command", !.at = "running"]
    OBVIOUS
  <1>3. d \in CallsOf(Revised, Copies) /\ d.tool = "command" /\ d.at = "running"
    BY <1>1, <1>2 DEF Typed, CallsOf, NoCall, Contents
  <1>4. call' = [call EXCEPT ![s] = d] /\ s \in started /\ UNCHANGED <<project, log, seen, attached, started>>
    BY <1>2, Zenon DEF CallCommand, Begin
  <1>5. CallSound(s)'
    <2>1. call'[s] = d
      BY <1>1, <1>4 DEF Typed
    <2>2. QED
      BY <1>3, <2>1 DEF CallSound, OnFiles
  <1>6. QED
    BY <1>1, <1>3, <1>4, <1>5, Begun

\* Proposals of plans name no file.
LEMMA CallPlanSound ==
    ASSUME FInv, NEW s \in Sessions, NEW draft \in Drafts, NEW revises, CallPlan(s, draft, revises)
    PROVE  FInv'
  <1>1. PICK Revised, Copies : Typed(Revised, Copies)
    BY DEF FInv, Shape
  <1> DEFINE Revised2 == Revised \union {revises}
             Copies2 == Copies \union {plans}
  <1>2. PICK c : c = [NoCall EXCEPT !.tool = "plan", !.draft = draft, !.revises = revises,
                                    !.copy = plans]
    OBVIOUS
  <1>3. PICK a : a = [c EXCEPT !.at = "asking"]
    OBVIOUS
  <1>4. c \in CallsOf(Revised2, Copies2) /\ c.tool = "plan"
    BY <1>1, <1>2 DEF Typed, CallsOf, NoCall, Contents
  <1>5. a \in CallsOf(Revised2, Copies2) /\ a.tool = "plan" /\ a.at = "asking"
    BY <1>3, <1>4 DEF CallsOf
  <1>6. NoCall \in CallsOf(Revised2, Copies2)
    BY <1>1 DEF Typed, CallsOf, NoCall, Contents
  <1>7. PICK d : d = IF revises # None /\ revises \notin Ids(plans) THEN NoCall ELSE AskOrDeny(s, c)
    OBVIOUS
  <1>8. d \in {a, NoCall}
    BY <1>3, <1>7 DEF AskOrDeny
  <1>9. call' = [call EXCEPT ![s] = d] /\ s \in started /\ UNCHANGED <<project, log, seen, attached, started>>
    BY <1>2, <1>7, Zenon DEF CallPlan, Begin
  <1>10. CallSound(s)'
    <2>1. call'[s] = d
      BY <1>1, <1>9 DEF Typed
    <2>2. CASE d = a
      BY <1>5, <2>1, <2>2 DEF CallSound, OnFiles
    <2>3. CASE d = NoCall
      BY <2>1, <2>3 DEF CallSound, NoCall
    <2>4. QED
      BY <1>8, <2>2, <2>3
  <1>11. Revised \subseteq Revised2 /\ Copies \subseteq Copies2 /\ d \in CallsOf(Revised2, Copies2)
    BY <1>5, <1>6, <1>8
  <1> HIDE DEF Revised2, Copies2
  <1>12. QED
    BY <1>1, <1>9, <1>10, <1>11, Begun

\* The bodies that tell the session of files record them in the same step.
LEMMA RunSound ==
    ASSUME FInv, NEW s \in Sessions, RunSearchAll(s) \/ RunSearch(s) \/ RunRead(s)
    PROVE  FInv'
  <1>1. log \in [Sessions -> Logs] /\ log = seen
    BY DEF FInv, Shape
  <1>2. PICK more \in Logs : log' = [log EXCEPT ![s] = more] /\ seen' = log'
    <2>1. CASE RunSearchAll(s)
      <3>1. PICK found \in SUBSET {f \in Walked : disk[f] \in Texts /\ ~Hidden(s, f)} :
                /\ log' = [log EXCEPT ![s].searched = @ \union found]
                /\ seen' = [seen EXCEPT ![s].searched = @ \union found]
        BY <2>1 DEF RunSearchAll
      <3>2. [log[s] EXCEPT !.searched = @ \union found] \in Logs
        BY <1>1, FileConstants DEF Logs
      <3>3. QED
        BY <1>1, <3>1, <3>2
    <2>2. CASE RunSearch(s)
      <3> DEFINE f == call[s].file
                 found == IF f # Elsewhere /\ Exists(f) THEN {f} ELSE {}
                 named == {Key(call[s].name) : x \in found}
      <3>1. /\ log' = [log EXCEPT ![s].searched = @ \union named]
            /\ seen' = [seen EXCEPT ![s].searched = @ \union found]
        BY <2>2 DEF RunSearch
      <3>2. found = named /\ found \subseteq Files
        <4>1. f = Resolve[call[s].name] /\ f \in Files \union {Elsewhere}
          BY <2>2, FileConstants DEF FInv, CallSound, RunSearch, OnFiles
        <4>2. QED
          BY <4>1 DEF Key
      <3> HIDE DEF found, named
      <3>3. [log[s] EXCEPT !.searched = @ \union found] \in Logs
        BY <1>1, <3>2 DEF Logs
      <3>4. QED
        BY <1>1, <3>1, <3>2, <3>3
    <2>3. CASE RunRead(s)
      <3> DEFINE f == call[s].file
                 got == IF f # Elsewhere /\ disk[f] \in Texts /\ ~Hidden(s, f) THEN {f} ELSE {}
      <3>1. PICK pastEnd \in BOOLEAN :
                LET lines == IF pastEnd THEN {} ELSE got
                IN /\ log' = [log EXCEPT ![s].read = @ \union {Key(call[s].name) : x \in lines}]
                   /\ seen' = [seen EXCEPT ![s].read = @ \union lines]
        BY <2>3 DEF RunRead
      <3> DEFINE lines == IF pastEnd THEN {} ELSE got
                 named == {Key(call[s].name) : x \in lines}
      <3>2. lines = named /\ lines \subseteq Files
        <4>1. f = Resolve[call[s].name] /\ f \in Files \union {Elsewhere}
          BY <2>3, FileConstants DEF FInv, CallSound, RunRead, OnFiles
        <4>2. QED
          BY <4>1 DEF Key
      <3>5. /\ log' = [log EXCEPT ![s].read = @ \union named]
            /\ seen' = [seen EXCEPT ![s].read = @ \union lines]
        BY <3>1
      <3> HIDE DEF lines, named
      <3>3. [log[s] EXCEPT !.read = @ \union lines] \in Logs
        BY <1>1, <3>2 DEF Logs
      <3>4. QED
        BY <1>1, <3>5, <3>2, <3>3
    <2>4. QED
      BY <2>1, <2>2, <2>3
  <1>3. log' \in [Sessions -> Logs] /\ \A t \in Sessions \ {s} : log'[t] = log[t]
    BY <1>1, <1>2
  <1>4. Finish(s) /\ UNCHANGED <<project, attached, started>>
    BY DEF RunSearchAll, RunSearch, RunRead
  <1>5. QED
    BY <1>2, <1>3, <1>4, FinishSound

\* A session that takes over has nothing in it, and the session it replaces
\* keeps its call unless that was a plan review.
LEMMA SelectModelSound ==
    ASSUME FInv, NEW s \in Sessions, SelectModel(s)
    PROVE  FInv'
  <1>1. PICK Revised, Copies : Typed(Revised, Copies)
    BY DEF FInv, Shape
  <1>2. /\ call' = [call EXCEPT ![attached] = Dropped(call[attached])]
        /\ project' = [project EXCEPT ![s] = project[attached]]
        /\ log' = log /\ seen' = seen /\ attached' = s /\ started' = started \union {s}
        /\ s \notin started
    BY DEF SelectModel
  <1>3. attached \in Sessions /\ call[s] = NoCall /\ project \in [Sessions -> Projects]
    BY <1>2 DEF FInv, Shape
  <1>4. NoCall \in CallsOf(Revised, Copies) /\ Dropped(call[attached]) \in {call[attached], NoCall}
    BY <1>1 DEF Typed, CallsOf, NoCall, Contents, Dropped
  <1>5. Typed(Revised, Copies)' /\ \A t \in Sessions : call'[t] \in {call[t], NoCall}
    BY <1>1, <1>2, <1>3, <1>4 DEF Typed
  <1>6. \A t \in Sessions : Steady(t)
    <2> TAKE t \in Sessions
    <2>1. CASE t = s
      BY <1>3, <1>5, <2>1 DEF Steady
    <2>2. CASE t # s
      BY <1>2, <1>3, <1>5, <2>2 DEF Steady
    <2>3. QED
      BY <2>1, <2>2
  <1>7. CallSound(s)'
    BY <1>6, SteadySound
  <1>8. project' \in [Sessions -> Projects]
    BY <1>2, <1>3
  <1>9. /\ log' \in [Sessions -> Logs] /\ log' = seen'
        /\ \A t \in Sessions \ started' : call'[t] = NoCall
    BY <1>2, <1>5 DEF FInv, Shape
  <1>10. QED
    BY <1>2, <1>5, <1>6, <1>7, <1>8, <1>9, OneCall

\* What happens to a session without a call disturbs no call.
LEMMA IdleSound ==
    ASSUME FInv, NEW s \in Sessions, Clear(s) \/ \E p \in Projects : SetProject(s, p)
    PROVE  FInv'
  <1>1. PICK Revised, Copies : Typed(Revised, Copies)
    BY DEF FInv, Shape
  <1>2. UNCHANGED <<call, attached, started>> /\ call[s] = NoCall
    BY DEF Clear, SetProject
  <1>3. /\ project' \in [Sessions -> Projects] /\ log' \in [Sessions -> Logs] /\ log' = seen'
        /\ \A t \in Sessions \ {s} : project'[t] = project[t] /\ log'[t] = log[t]
    <2>1. NoLog \in Logs
      BY DEF NoLog, Logs
    <2>2. QED
      BY <2>1 DEF FInv, Shape, Clear, SetProject
  <1>4. \A t \in Sessions : Steady(t)
    BY <1>2, <1>3 DEF Steady
  <1>5. Typed(Revised, Copies)' /\ CallSound(s)'
    BY <1>1, <1>2, <1>4, SteadySound DEF Typed
  <1>6. attached' \in Sessions /\ \A t \in Sessions \ started' : call'[t] = NoCall
    BY <1>2 DEF FInv, Shape
  <1>7. QED
    BY <1>3, <1>4, <1>5, <1>6, OneCall

\* A step that leaves calls, logs and projects alone.
LEMMA StillSound ==
    ASSUME FInv, UNCHANGED <<call, project, log, seen, attached, started>>
    PROVE  FInv'
  <1>1. Shape'
    BY DEF FInv, Shape, Typed
  <1>2. \A s \in Sessions : Steady(s)
    BY DEF Steady
  <1>3. QED
    BY <1>1, <1>2, SteadySound DEF FInv

\* A program starts with one session that has seen nothing.
LEMMA InitSound ==
    ASSUME Init
    PROVE  FInv
  <1>1. NoCall \in CallsOf({None}, {<<>>})
    BY DEF CallsOf, NoCall, Contents
  <1>2. Typed({None}, {<<>>})
    BY <1>1 DEF Typed, Init
  <1>3. \A s \in Sessions : call[s] = NoCall
    BY DEF Init
  <1>4. project \in [Sessions -> Projects] /\ attached \in Sessions
    BY DEF Init
  <1>5. log \in [Sessions -> Logs] /\ log = seen
    BY DEF Init, NoLog, Logs
  <1>6. \A s \in Sessions : CallSound(s)
    BY <1>3 DEF CallSound, NoCall
  <1>7. QED
    BY <1>2, <1>3, <1>4, <1>5, <1>6 DEF FInv, Shape

\* Every step of sessions, users and other programs keeps the invariant.
LEMMA StepSound ==
    ASSUME FInv, [Next]_vars
    PROVE  FInv'
  <1>1. CASE UNCHANGED vars
    BY <1>1, StillSound DEF vars
  <1>2. ASSUME NEW s \in Sessions, FileStep(s)
        PROVE  FInv'
    <2>1. CASE \E n \in Names, tool \in {"read", "search", "edit"} : CallFile(s, tool, n)
      BY <2>1, CallFileSound DEF OnFiles
    <2>2. CASE CallSearchAll(s)
      BY <2>2, CallSearchAllSound
    <2>3. CASE RunSearchAll(s) \/ RunSearch(s) \/ RunRead(s)
      BY <2>3, RunSound
    <2>4. CASE RunEdit(s)
      BY <2>4, RunEditSound
    <2>5. CASE WriteEdit(s)
      BY <2>5, FinishSound DEF WriteEdit, FInv, Shape
    <2>6. CASE \E yes \in BOOLEAN : AnswerPath(s, yes)
      BY <2>6, AnswerSound
    <2>7. QED
      BY <1>2, <2>1, <2>2, <2>3, <2>4, <2>5, <2>6 DEF FileStep
  <1>3. ASSUME NEW s \in Sessions, PlanStep(s)
        PROVE  FInv'
    <2>1. CASE \E draft \in Drafts, revises \in Ids(plans) \union {None} : CallPlan(s, draft, revises)
      BY <2>1, CallPlanSound
    <2>2. CASE RejectPlan(s)
      BY <2>2, FinishSound DEF RejectPlan, FInv, Shape
    <2>3. CASE ApprovePlan(s)
      BY <2>3, FinishSound DEF ApprovePlan, FInv, Shape
    <2>4. CASE \E i \in DOMAIN plans : SettleTask(s, i)
      BY <2>4, StillSound DEF SettleTask
    <2>5. QED
      BY <1>3, <2>1, <2>2, <2>3, <2>4 DEF PlanStep
  <1>4. ASSUME NEW s \in Sessions, CommandStep(s)
        PROVE  FInv'
    <2>1. CASE CallCommand(s)
      BY <2>1, CallCommandSound
    <2>2. CASE CommandRuns(s)
      BY <2>2, StillSound DEF CommandRuns
    <2>3. CASE CommandDone(s)
      BY <2>3, FinishSound DEF CommandDone, FInv, Shape
    <2>4. QED
      BY <1>4, <2>1, <2>2, <2>3 DEF CommandStep
  <1>5. ASSUME NEW s \in Sessions, SessionStep(s)
        PROVE  FInv'
    <2>1. CASE DropPrompt(s)
      BY <2>1, FinishSound DEF DropPrompt, FInv, Shape
    <2>2. QED
      BY <1>5, <2>1, SelectModelSound, IdleSound DEF SessionStep
  <1>6. ASSUME NEW f \in Files, ChangeFile(f)
        PROVE  FInv'
    BY <1>6, StillSound DEF ChangeFile
  <1>7. QED
    BY <1>1, <1>2, <1>3, <1>4, <1>5, <1>6 DEF Next

-----------------------------------------------------------------------------
(* What a session was told of before a step.                                *)

\* Lines are returned only of files a search has come up with.
LEMMA ReadAfterSearch ==
    ASSUME FInv, [Next]_vars, NEW s \in Sessions
    PROVE  \A f \in seen'[s].read \ seen[s].read : f \in seen[s].searched
  <1>1. seen \in [Sessions -> Logs] /\ log = seen
    BY DEF FInv, Shape
  <1>2. CASE UNCHANGED seen
    BY <1>2
  <1>3. ASSUME NEW t \in Sessions, RunSearchAll(t) \/ RunSearch(t)
        PROVE  seen'[s].read = seen[s].read
    BY <1>1, <1>3 DEF RunSearchAll, RunSearch, Logs
  <1>4. ASSUME NEW t \in Sessions, RunRead(t)
        PROVE  \A f \in seen'[s].read \ seen[s].read : f \in seen[s].searched
    <2> DEFINE got == IF call[t].file # Elsewhere /\ disk[call[t].file] \in Texts
                         /\ ~Hidden(t, call[t].file) THEN {call[t].file} ELSE {}
    <2>0. PICK pastEnd \in BOOLEAN :
              seen' = [seen EXCEPT ![t].read = @ \union IF pastEnd THEN {} ELSE got]
      BY <1>4 DEF RunRead
    <2>1. PICK lines : /\ seen' = [seen EXCEPT ![t].read = @ \union lines]
                       /\ lines \subseteq {call[t].file} \ {Elsewhere}
      <3>1. PICK lines : lines = IF pastEnd THEN {} ELSE got
        OBVIOUS
      <3>2. seen' = [seen EXCEPT ![t].read = @ \union lines]
        BY <2>0, <3>1, Zenon
      <3>3. lines \subseteq {call[t].file} \ {Elsewhere}
        BY <3>1
      <3> HIDE DEF got
      <3>4. QED
        BY <3>2, <3>3, Zenon
    <2>2. lines \subseteq seen[t].searched
      BY <1>1, <1>4, <2>1 DEF RunRead, FInv, CallSound
    <2>3. CASE s = t
      BY <1>1, <2>1, <2>2, <2>3 DEF Logs
    <2>4. CASE s # t
      BY <1>1, <2>1, <2>4
    <2>5. QED
      BY <2>3, <2>4
  <1>5. ASSUME NEW t \in Sessions, Clear(t)
        PROVE  seen'[s].read \subseteq seen[s].read
    BY <1>1, <1>5 DEF Clear, NoLog, Logs
  <1>6. QED
    <2>1. ASSUME Next
          PROVE  \/ UNCHANGED seen
                 \/ \E t \in Sessions : \/ RunSearchAll(t) \/ RunSearch(t)
                                         \/ RunRead(t) \/ Clear(t)
      BY <2>1, Zenon DEF Next, FileStep, PlanStep, CommandStep, SessionStep, CallFile, CallSearchAll,
                 RunEdit, WriteEdit, AnswerPath, CallPlan, RejectPlan, ApprovePlan, SettleTask,
                 CallCommand, CommandRuns, CommandDone, SelectModel, DropPrompt, SetProject,
                 ChangeFile
    <2>2. QED
      BY <1>2, <1>3, <1>4, <1>5, <2>1 DEF vars

\* From the invariant, a write of an edit has its read behind it.
LEMMA FunnelStep ==
    ASSUME FInv, [Next]_vars
    PROVE  FunnelHeld
  <1>1. ASSUME NEW s \in Sessions, Writes(s)
        PROVE  call[s].fresh \/ call[s].file \in seen[s].read
    BY <1>1 DEF FInv, Shape, CallSound, Writes
  <1>2. QED
    BY <1>1, ReadAfterSearch DEF FunnelHeld

\* From the invariant, a write of an edit has the consent it needs.
LEMMA GuardsStep ==
    ASSUME FInv
    PROVE  GuardsHold
  BY DEF FInv, CallSound, GuardsHold, Writes, Hidden, Hardened

-----------------------------------------------------------------------------
(* The plans.                                                               *)

PlanIds == {Slug[draft] : draft \in Drafts} \X Nat
PlanRecs == [id : PlanIds, draft : Drafts, settled : BOOLEAN]

Proposes(s) == call[s].at = "asking" /\ call[s].tool = "plan"

Distinct(store) == \A i, j \in DOMAIN store : store[i].id = store[j].id => i = j

\* What two copies of the store agree on: all but which tasks are settled.
Alike(store, copy) ==
    /\ DOMAIN copy = DOMAIN store
    /\ \A i \in DOMAIN store : copy[i].id = store[i].id /\ copy[i].draft = store[i].draft

\* A proposal under review is the attached session's, and its copy of the store
\* still has all plans that are stored.
ProposalSound(s) ==
    Proposes(s) =>
        /\ s = attached /\ call[s].draft \in Drafts
        /\ call[s].copy \in Seq(PlanRecs) /\ Alike(plans, call[s].copy)
        /\ call[s].revises = None \/ call[s].revises \in Ids(plans)

PInv ==
    /\ plans \in Seq(PlanRecs) /\ Distinct(plans)
    /\ \A i \in DOMAIN plans : [id |-> plans[i].id, draft |-> plans[i].draft] \in approved
    /\ \A s \in Sessions : ProposalSound(s)

\* Of one number more than there are plans, one is free to tell a title's plans
\* apart, and so there is a first one.
LEMMA FreshIdIsNew ==
    ASSUME NEW store \in Seq(PlanRecs), NEW draft \in Drafts
    PROVE  FreshId(store, draft) \in PlanIds /\ FreshId(store, draft) \notin Ids(store)
<1> DEFINE k == Len(store)
           taken(n) == <<Slug[draft], n>> \in Ids(store)
           free == {n \in 1 .. (k + 1) : ~taken(n)}
           first(n) == ~taken(n) /\ \A m \in 1 .. (n - 1) : taken(m)
<1>1. k \in Nat /\ DOMAIN store = 1 .. k
  OBVIOUS
<1>2. free # {}
  <2> SUFFICES ASSUME \A n \in 1 .. (k + 1) : taken(n)
               PROVE  FALSE
    OBVIOUS
  <2> DEFINE holder == [n \in 1 .. (k + 1) |-> CHOOSE i \in 1 .. k : store[i].id = <<Slug[draft], n>>]
  <2>1. \A n \in 1 .. (k + 1) : \E i \in 1 .. k : store[i].id = <<Slug[draft], n>>
    BY <1>1 DEF Ids
  <2>2. \A n \in 1 .. (k + 1) : holder[n] \in 1 .. k /\ store[holder[n]].id = <<Slug[draft], n>>
    BY <2>1
  <2>3. holder \in [1 .. (k + 1) -> 1 .. k]
    BY <2>2
  <2> HIDE DEF holder, k
  <2>4. IsFiniteSet(1 .. (k + 1)) /\ Cardinality(1 .. (k + 1)) = k + 1
    <3>1. k + 1 \in Int /\ ~(1 > k + 1)
      BY <1>1
    <3>2. Cardinality(1 .. (k + 1)) = (k + 1) - 1 + 1
      BY <3>1, FS_Interval
    <3> QED
      BY <1>1, <3>1, <3>2, FS_Interval
  <2>5. IsFiniteSet(1 .. k) /\ Cardinality(1 .. k) = k
    BY <1>1, FS_Interval
  <2>6. Cardinality(1 .. k) < Cardinality(1 .. (k + 1))
    BY <1>1, <2>4, <2>5
  <2>7. PICK x, y \in 1 .. (k + 1) : x # y /\ holder[x] = holder[y]
    BY <2>3, <2>4, <2>5, <2>6, FS_PigeonHole
  <2>8. <<Slug[draft], x>> = <<Slug[draft], y>>
    BY <2>2, <2>7
  <2> QED
    BY <2>7, <2>8
<1>3. PICK n \in free : \A m \in free : n <= m
  <2>1. free \in SUBSET Nat
    BY <1>1
  <2> QED
    BY <1>2, <2>1, Least
<1>4. n \in 1 .. (k + 1) /\ first(n)
  BY <1>1, <1>3
<1>5. PICK c : c = CHOOSE m \in 1 .. (k + 1) : first(m)
  OBVIOUS
<1>6. c \in 1 .. (k + 1) /\ first(c)
  BY <1>4, <1>5
<1>7. FreshId(store, draft) = <<Slug[draft], c>>
  BY <1>5 DEF FreshId
<1>8. ~taken(c) /\ c \in Nat
  BY <1>1, <1>6
<1> QED
  BY <1>7, <1>8 DEF PlanIds

\* Steps that leave the store alone and propose nothing.
Quiet ==
    /\ UNCHANGED <<plans, approved>>
    /\ \A s \in Sessions : Proposes(s)' => Proposes(s) /\ call'[s] = call[s] /\ attached' = attached

\* A quiet step disturbs no proposal.
LEMMA QuietSound ==
    ASSUME PInv, Quiet
    PROVE  PInv'
<1>1. ASSUME NEW s \in Sessions PROVE ProposalSound(s)'
  BY DEF PInv, Quiet, ProposalSound
<1> QED
  BY <1>1 DEF PInv, Quiet, Distinct

\* A session's call becomes another, which proposes nothing.
LEMMA QuietCall ==
    ASSUME FInv, NEW s \in Sessions, NEW d, call' = [call EXCEPT ![s] = d],
           d.at # "asking" \/ d.tool # "plan", UNCHANGED <<plans, approved, attached>>
    PROVE  Quiet
  BY DEF FInv, Shape, Typed, Quiet, Proposes

\* A call that ends proposes nothing.
LEMMA QuietEnd ==
    ASSUME FInv, NEW s \in Sessions, Finish(s), UNCHANGED <<plans, approved, attached>>
    PROVE  Quiet
<1>1. NoCall.at # "asking"
  BY DEF NoCall
<1> QED
  BY <1>1, QuietCall DEF Finish

\* Calls on files propose nothing.
LEMMA QuietFile ==
    ASSUME FInv, NEW s \in Sessions, FileStep(s)
    PROVE  Quiet
<1>1. PICK Revised, Copies : Typed(Revised, Copies)
  BY DEF FInv, Shape
<1>2. ASSUME NEW n \in Names, NEW tool \in OnFiles, CallFile(s, tool, n)
      PROVE  Quiet
  <2>1. PICK c : c = [NoCall EXCEPT !.tool = tool, !.name = n, !.file = Resolve[n]]
    OBVIOUS
  <2>2. PICK d : d = Gated(s, c)
    OBVIOUS
  <2>3. c \in CallsOf(Revised, Copies) /\ c.tool = tool /\ c.name = n /\ c.file = Resolve[n]
    <3>1. Resolve[n] \in Files \union {Elsewhere}
      BY FileConstants
    <3> QED
      BY <1>1, <2>1, <3>1 DEF Typed, CallsOf, NoCall, OnFiles, Contents
  <2>4. d = NoCall \/ d.tool = tool
    BY <1>1, <2>2, <2>3, GatedSound DEF Typed
  <2>5. d.tool # "plan"
    BY <2>4 DEF NoCall, OnFiles
  <2>6. call' = [call EXCEPT ![s] = d] /\ UNCHANGED <<plans, approved, attached>>
    BY <1>2, <2>1, <2>2, Zenon DEF CallFile
  <2> QED
    BY <2>5, <2>6, QuietCall
<1>3. CASE CallSearchAll(s)
  <2>1. PICK d : d = [NoCall EXCEPT !.tool = "searchAll", !.at = "gated"]
    OBVIOUS
  <2>2. d.at = "gated"
    BY <2>1 DEF NoCall
  <2>3. call' = [call EXCEPT ![s] = d] /\ UNCHANGED <<plans, approved, attached>>
    BY <1>3, <2>1, Zenon DEF CallSearchAll
  <2> QED
    BY <2>2, <2>3, QuietCall
<1>4. CASE RunSearchAll(s) \/ RunSearch(s) \/ RunRead(s) \/ WriteEdit(s)
  BY <1>4, QuietEnd DEF RunSearchAll, RunSearch, RunRead, WriteEdit
<1>5. CASE RunEdit(s)
  <2>1. CASE Finish(s)
    BY <1>5, <2>1, QuietEnd DEF RunEdit
  <2>2. CASE ~Finish(s)
    <3>1. PICK content \in Texts \union {"empty"} :
              call' = [call EXCEPT ![s] = [@ EXCEPT !.at = "writing", !.content = content]]
      BY <1>5, <2>2 DEF RunEdit, Finish
    <3>2. PICK d : d = [call[s] EXCEPT !.at = "writing", !.content = content]
      OBVIOUS
    <3>3. d.at = "writing"
      BY <1>1, <3>2 DEF Typed, CallsOf
    <3>4. call' = [call EXCEPT ![s] = d]
      BY <3>1, <3>2, Zenon
    <3> QED
      BY <1>5, <3>3, <3>4, QuietCall DEF RunEdit
  <2> QED
    BY <2>1, <2>2
<1>6. ASSUME NEW yes \in BOOLEAN, AnswerPath(s, yes)
      PROVE  Quiet
  <2>1. PICK c : c = [call[s] EXCEPT !.granted = TRUE]
    OBVIOUS
  <2>2. c \in CallsOf(Revised, Copies) /\ c.tool = call[s].tool
    BY <1>1, <2>1, ZenonT(60) DEF Typed, CallsOf
  <2>3. PICK d : d = IF yes THEN PastFunnel(s, c) ELSE NoCall
    OBVIOUS
  <2>4. d = NoCall \/ d.at = "gated"
    <3>1. CASE yes
      <4>1. d = PastFunnel(s, c)
        BY <2>3, <3>1
      <4> QED
        BY <1>1, <2>2, <4>1, PastFunnelSound DEF Typed
    <3> QED
      BY <2>3, <3>1
  <2>5. d.at # "asking"
    BY <2>4 DEF NoCall
  <2>6. call' = [call EXCEPT ![s] = d] /\ UNCHANGED <<plans, approved, attached>>
    BY <1>6, <2>1, <2>3, Zenon DEF AnswerPath
  <2> QED
    BY <2>5, <2>6, QuietCall
<1> QED
  BY <1>2, <1>3, <1>4, <1>5, <1>6 DEF FileStep, OnFiles

\* The next session takes over without the review of the one before.
LEMMA QuietSelect ==
    ASSUME FInv, PInv, NEW s \in Sessions, SelectModel(s)
    PROVE  Quiet
<1>1. call' = [call EXCEPT ![attached] = Dropped(call[attached])] /\ UNCHANGED <<plans, approved>>
  BY DEF SelectModel
<1>2. PICK d : d = Dropped(call[attached])
  OBVIOUS
<1>3. d.at # "asking" \/ d.tool # "plan"
  BY <1>2 DEF Dropped, NoCall
<1>4. attached \in Sessions /\ \E Revised, Copies : Typed(Revised, Copies)
  BY DEF FInv, Shape
<1>5. call'[attached] = d /\ \A t \in Sessions \ {attached} : call'[t] = call[t]
  BY <1>1, <1>2, <1>4 DEF Typed
<1>6. \A t \in Sessions : ~Proposes(t)'
  BY <1>3, <1>5 DEF PInv, ProposalSound, Proposes
<1> QED
  BY <1>1, <1>6 DEF Quiet

\* The agent proposes: the copy is the store.
LEMMA ProposeSound ==
    ASSUME FInv, PInv, NEW s \in Sessions, NEW draft \in Drafts,
           NEW revises \in Ids(plans) \union {None}, CallPlan(s, draft, revises)
    PROVE  PInv'
<1>1. PICK Revised, Copies : Typed(Revised, Copies)
  BY DEF FInv, Shape
<1> DEFINE Revised2 == Revised \union {revises}
           Copies2 == Copies \union {plans}
<1>2. PICK c : c = [NoCall EXCEPT !.tool = "plan", !.draft = draft, !.revises = revises,
                                  !.copy = plans]
  OBVIOUS
<1>3. PICK a : a = [c EXCEPT !.at = "asking"]
  OBVIOUS
<1>4. /\ c \in CallsOf(Revised2, Copies2) /\ c.tool = "plan" /\ c.draft = draft
      /\ c.revises = revises /\ c.copy = plans
  BY <1>1, <1>2 DEF Typed, CallsOf, NoCall, Contents
<1>5. a.draft = draft /\ a.revises = revises /\ a.copy = plans
  BY <1>3, <1>4 DEF CallsOf
<1>6. PICK d : d = IF revises # None /\ revises \notin Ids(plans) THEN NoCall ELSE AskOrDeny(s, c)
  OBVIOUS
<1>7. d = NoCall \/ (d = a /\ s = attached)
  BY <1>3, <1>6 DEF AskOrDeny
<1>8. call' = [call EXCEPT ![s] = d] /\ UNCHANGED <<plans, approved, attached>>
  BY <1>2, <1>6, Zenon DEF CallPlan
<1>9. call'[s] = d /\ \A t \in Sessions \ {s} : call'[t] = call[t]
  BY <1>1, <1>8 DEF Typed
<1>10. Alike(plans, plans)
  BY DEF Alike
<1>11. ASSUME NEW t \in Sessions PROVE ProposalSound(t)'
  <2>1. CASE t # s
    <3>1. Proposes(t)' <=> Proposes(t)
      BY <1>9, <2>1 DEF Proposes
    <3> QED
      BY <1>8, <1>9, <2>1, <3>1 DEF PInv, ProposalSound
  <2>2. CASE t = s /\ d = NoCall
    BY <1>9, <2>2 DEF ProposalSound, Proposes, NoCall
  <2>3. CASE t = s /\ d = a /\ s = attached
    BY <1>5, <1>8, <1>9, <1>10, <2>3 DEF PInv, ProposalSound
  <2> QED
    BY <1>7, <2>1, <2>2, <2>3
<1> QED
  BY <1>8, <1>11 DEF PInv, Distinct

\* A task is settled: the store keeps its plans, and each keeps its draft.
LEMMA SettleSound ==
    ASSUME PInv, NEW s \in Sessions, NEW i \in DOMAIN plans, SettleTask(s, i)
    PROVE  PInv' /\ PlansKept
<1>1. plans' = [plans EXCEPT ![i].settled = TRUE] /\ UNCHANGED <<call, attached, approved>>
  BY DEF SettleTask
<1>2. \A j \in DOMAIN plans : plans[j] \in PlanRecs
  BY DEF PInv
<1>3. PICK p : p = [plans[i] EXCEPT !.settled = TRUE]
  OBVIOUS
<1>4. p \in PlanRecs /\ p.id = plans[i].id /\ p.draft = plans[i].draft
  BY <1>2, <1>3 DEF PlanRecs
<1>5. plans' = [plans EXCEPT ![i] = p]
  BY <1>1, <1>3, Zenon
<1>6. plans' \in Seq(PlanRecs) /\ DOMAIN plans' = DOMAIN plans
  BY <1>4, <1>5 DEF PInv
<1>7. \A j \in DOMAIN plans : plans'[j].id = plans[j].id /\ plans'[j].draft = plans[j].draft
  BY <1>4, <1>5
<1>8. Ids(plans') = Ids(plans)
  BY <1>6, <1>7 DEF Ids
<1>9. ASSUME NEW t \in Sessions PROVE ProposalSound(t)'
  <2>1. Alike(plans, call[t].copy) => Alike(plans', call[t].copy)
    BY <1>6, <1>7 DEF Alike
  <2> QED
    BY <1>1, <1>8, <2>1 DEF PInv, ProposalSound, Proposes
<1>10. Distinct(plans')
  BY <1>6, <1>7 DEF PInv, Distinct
<1>11. \A j \in DOMAIN plans' : [id |-> plans'[j].id, draft |-> plans'[j].draft] \in approved'
  BY <1>1, <1>6, <1>7 DEF PInv
<1>12. PInv'
  BY <1>6, <1>9, <1>10, <1>11 DEF PInv
<1> QED
  BY <1>8, <1>12 DEF PInv, Distinct, PlansKept

\* A draft is approved: the copy with the draft in it has all plans that are stored.
LEMMA ApproveSound ==
    ASSUME FInv, PInv, NEW s \in Sessions, ApprovePlan(s)
    PROVE  PInv' /\ PlansKept
<1>1. Proposes(s) /\ Finish(s) /\ UNCHANGED attached
  BY DEF ApprovePlan, Proposes
<1>2. \A t \in Sessions : ~Proposes(t)'
  <2>1. call'[s] = NoCall /\ \A t \in Sessions \ {s} : call'[t] = call[t]
    BY <1>1 DEF FInv, Shape, Typed, Finish
  <2> QED
    BY <1>1, <2>1 DEF PInv, ProposalSound, Proposes, NoCall
<1>3. CASE UNCHANGED <<plans, approved>>
  <2>1. PInv'
    BY <1>2, <1>3 DEF PInv, ProposalSound, Distinct
  <2> QED
    BY <1>3, <2>1 DEF PInv, Distinct, PlansKept
<1>4. CASE ~UNCHANGED <<plans, approved>>
  <2>1. PICK c : c = call[s]
    OBVIOUS
  <2>2. PICK p : p = PlanOf(c)
    OBVIOUS
  <2>3. plans' = WithDraft(c) /\ approved' = approved \union {[id |-> p.id, draft |-> c.draft]}
    BY <1>4, <2>1, <2>2 DEF ApprovePlan
  <2>4. /\ c.draft \in Drafts /\ c.copy \in Seq(PlanRecs) /\ Alike(plans, c.copy)
        /\ c.revises = None \/ c.revises \in Ids(plans)
    BY <1>1, <2>1 DEF PInv, ProposalSound
  <2>5. Ids(c.copy) = Ids(plans) /\ Distinct(c.copy)
    BY <2>4 DEF PInv, Alike, Ids, Distinct
  <2>6. /\ p.id = IF c.revises = None THEN FreshId(c.copy, c.draft) ELSE c.revises
        /\ p.draft = c.draft /\ p.settled = FALSE
    BY <2>2 DEF PlanOf
  <2>7. Ids(plans) \subseteq PlanIds
    <3>1. \A i \in DOMAIN plans : plans[i] \in PlanRecs
      BY DEF PInv
    <3>2. \A i \in DOMAIN plans : plans[i].id \in PlanIds
      BY <3>1 DEF PlanRecs
    <3> QED
      BY <3>2 DEF Ids
  <2>8. p.id \in PlanIds /\ (c.revises = None => p.id \notin Ids(plans))
    BY <2>4, <2>5, <2>6, <2>7, FreshIdIsNew
  <2>9. p \in PlanRecs
    <3>1. p = [id |-> p.id, draft |-> p.draft, settled |-> p.settled]
      BY <2>2 DEF PlanOf
    <3> QED
      BY <2>4, <2>6, <2>8, <3>1 DEF PlanRecs
  <2>10. \A i \in DOMAIN c.copy : [id |-> c.copy[i].id, draft |-> c.copy[i].draft] \in approved
    BY <2>4 DEF PInv, Alike
  <2>11. [id |-> p.id, draft |-> p.draft] \in approved' /\ approved \subseteq approved'
    BY <2>3, <2>6
  <2>12. /\ plans' \in Seq(PlanRecs)
         /\ Distinct(plans')
         /\ \A i \in DOMAIN plans' : [id |-> plans'[i].id, draft |-> plans'[i].draft] \in approved'
         /\ Ids(plans) \subseteq Ids(plans')
    <3>1. CASE c.revises = None
      <4>1. plans' = Append(c.copy, p)
        BY <2>2, <2>3, <3>1 DEF WithDraft
      <4>2. /\ plans' \in Seq(PlanRecs) /\ DOMAIN plans' = 1 .. (Len(c.copy) + 1)
            /\ DOMAIN c.copy = 1 .. Len(c.copy) /\ Len(c.copy) \in Nat
            /\ plans'[Len(c.copy) + 1] = p
            /\ \A i \in DOMAIN c.copy : plans'[i] = c.copy[i]
        BY <2>4, <2>9, <4>1
      <4>3. \A i \in DOMAIN c.copy : c.copy[i].id # p.id
        <5>1. p.id \notin Ids(c.copy)
          BY <2>5, <2>8, <3>1
        <5> QED
          BY <5>1 DEF Ids
      <4>4. Distinct(plans')
        <5> SUFFICES ASSUME NEW i \in DOMAIN plans', NEW j \in DOMAIN plans', plans'[i].id = plans'[j].id
                     PROVE  i = j
          BY DEF Distinct
        <5>1. i \in DOMAIN c.copy \/ (i = Len(c.copy) + 1 /\ plans'[i] = p)
          BY <4>2
        <5>2. j \in DOMAIN c.copy \/ (j = Len(c.copy) + 1 /\ plans'[j] = p)
          BY <4>2
        <5>3. i \in DOMAIN c.copy => plans'[i].id = c.copy[i].id /\ c.copy[i].id # p.id
          BY <4>2, <4>3
        <5>4. j \in DOMAIN c.copy => plans'[j].id = c.copy[j].id /\ c.copy[j].id # p.id
          BY <4>2, <4>3
        <5>5. i \in DOMAIN c.copy <=> j \in DOMAIN c.copy
          BY <5>1, <5>2, <5>3, <5>4
        <5>6. CASE i \in DOMAIN c.copy
          BY <2>5, <5>3, <5>4, <5>5, <5>6 DEF Distinct
        <5> QED
          BY <5>1, <5>2, <5>5, <5>6
      <4>5. \A i \in DOMAIN plans' : [id |-> plans'[i].id, draft |-> plans'[i].draft] \in approved'
        <5> SUFFICES ASSUME NEW i \in DOMAIN plans'
                     PROVE  [id |-> plans'[i].id, draft |-> plans'[i].draft] \in approved'
          OBVIOUS
        <5>1. CASE i = Len(c.copy) + 1
          BY <2>11, <4>2, <5>1
        <5>2. CASE i # Len(c.copy) + 1
          <6>1. i \in DOMAIN c.copy
            BY <4>2, <5>2
          <6> QED
            BY <2>10, <2>11, <4>2, <6>1
        <5> QED
          BY <5>1, <5>2
      <4>6. Ids(c.copy) \subseteq Ids(plans')
        BY <4>2 DEF Ids
      <4> QED
        BY <2>5, <4>2, <4>4, <4>5, <4>6
    <3>2. CASE c.revises # None
      <4>1. plans' = [i \in DOMAIN c.copy |-> IF c.copy[i].id = p.id THEN p ELSE c.copy[i]]
        BY <2>2, <2>3, <2>6, <3>2 DEF WithDraft
      <4>2. /\ DOMAIN plans' = DOMAIN c.copy
            /\ \A i \in DOMAIN c.copy : plans'[i] = p \/ plans'[i] = c.copy[i]
            /\ \A i \in DOMAIN c.copy : plans'[i].id = c.copy[i].id
        BY <4>1
      <4>3. plans' \in Seq(PlanRecs)
        <5>1. DOMAIN c.copy = 1 .. Len(c.copy) /\ Len(c.copy) \in Nat
          BY <2>4
        <5>2. \A i \in 1 .. Len(c.copy) : plans'[i] \in PlanRecs
          BY <2>4, <2>9, <4>2, <5>1
        <5>3. plans' = [i \in 1 .. Len(c.copy) |-> plans'[i]]
          BY <4>1, <5>1
        <5> QED
          BY <5>1, <5>2, <5>3
      <4>4. Distinct(plans')
        BY <2>5, <4>2 DEF Distinct
      <4>5. \A i \in DOMAIN plans' : [id |-> plans'[i].id, draft |-> plans'[i].draft] \in approved'
        BY <2>10, <2>11, <4>2
      <4>6. Ids(c.copy) \subseteq Ids(plans')
        BY <4>2 DEF Ids
      <4> QED
        BY <2>5, <4>3, <4>4, <4>5, <4>6
    <3> QED
      BY <3>1, <3>2
  <2>13. PInv'
    BY <1>2, <2>12 DEF PInv, ProposalSound
  <2> QED
    BY <2>12, <2>13 DEF Distinct, PlansKept
<1> QED
  BY <1>3, <1>4

\* Whatever sessions do between a proposal and its approval, no plan is lost.
LEMMA PlansStep ==
    ASSUME FInv, PInv, [Next]_vars
    PROVE  PInv' /\ PlansKept
<1>1. CASE Quiet
  <2>1. PInv'
    BY <1>1, QuietSound
  <2> QED
    BY <1>1, <2>1 DEF Quiet, PInv, Distinct, PlansKept
<1>2. CASE UNCHANGED vars
  <2>1. Quiet
    BY <1>2 DEF vars, Quiet, Proposes
  <2> QED
    BY <1>1, <2>1
<1>3. ASSUME NEW s \in Sessions, FileStep(s)
      PROVE  PInv' /\ PlansKept
  BY <1>1, <1>3, QuietFile
<1>4. ASSUME NEW s \in Sessions, PlanStep(s)
      PROVE  PInv' /\ PlansKept
  <2>1. CASE \E draft \in Drafts, revises \in Ids(plans) \union {None} : CallPlan(s, draft, revises)
    <3>1. PInv'
      BY <2>1, ProposeSound
    <3>2. UNCHANGED plans
      BY <2>1 DEF CallPlan
    <3> QED
      BY <3>1, <3>2 DEF PInv, Distinct, PlansKept
  <2>2. CASE RejectPlan(s)
    BY <1>1, <2>2, QuietEnd DEF RejectPlan
  <2>3. CASE ApprovePlan(s)
    BY <2>3, ApproveSound
  <2>4. CASE \E i \in DOMAIN plans : SettleTask(s, i)
    BY <2>4, SettleSound
  <2> QED
    BY <1>4, <2>1, <2>2, <2>3, <2>4 DEF PlanStep
<1>5. ASSUME NEW s \in Sessions, CommandStep(s)
      PROVE  PInv' /\ PlansKept
  <2>1. CASE CallCommand(s)
    <3>1. PICK d : d = [NoCall EXCEPT !.tool = "command", !.at = "running"]
      OBVIOUS
    <3>2. d.at = "running"
      BY <3>1 DEF NoCall
    <3>3. call' = [call EXCEPT ![s] = d] /\ UNCHANGED <<plans, approved, attached>>
      BY <2>1, <3>1, Zenon DEF CallCommand
    <3> QED
      BY <1>1, <3>2, <3>3, QuietCall
  <2>2. CASE CommandRuns(s)
    BY <1>1, <2>2 DEF CommandRuns, Quiet, Proposes
  <2>3. CASE CommandDone(s)
    BY <1>1, <2>3, QuietEnd DEF CommandDone
  <2> QED
    BY <1>5, <2>1, <2>2, <2>3 DEF CommandStep
<1>6. ASSUME NEW s \in Sessions, SessionStep(s)
      PROVE  PInv' /\ PlansKept
  <2>1. CASE SelectModel(s)
    BY <1>1, <2>1, QuietSelect
  <2>2. CASE DropPrompt(s)
    BY <1>1, <2>2, QuietEnd DEF DropPrompt
  <2>3. CASE Clear(s) \/ \E p \in Projects : SetProject(s, p)
    BY <1>1, <2>3 DEF Clear, SetProject, Quiet, Proposes
  <2> QED
    BY <1>6, <2>1, <2>2, <2>3 DEF SessionStep
<1>7. ASSUME NEW f \in Files, ChangeFile(f)
      PROVE  PInv' /\ PlansKept
  BY <1>1, <1>7 DEF ChangeFile, Quiet, Proposes
<1> QED
  BY <1>2, <1>3, <1>4, <1>5, <1>6, <1>7 DEF Next

\* A program starts without plans.
LEMMA PlansInit ==
    ASSUME Init
    PROVE  PInv
<1>1. plans = <<>> /\ \A s \in Sessions : call[s] = NoCall
  BY DEF Init
<1>2. NoCall.at # "asking"
  BY DEF NoCall
<1> QED
  BY <1>1, <1>2 DEF PInv, Distinct, ProposalSound, Proposes

-----------------------------------------------------------------------------
(* The theorems.                                                           *)

\* Whatever sessions, users and other programs do, calls past a gate keep what
\* the gate asked for (gate_path, gate_read_lines and gate_edit_funnel).
THEOREM CallsSound == Spec => []FInv
  <1>1. Init => FInv
    BY InitSound
  <1>2. FInv /\ [Next]_vars => FInv'
    BY StepSound
  <1>3. QED
    BY <1>1, <1>2, PTL DEF Spec

\* The funnel, for any number of sessions, files and names: no file is changed
\* unread, none is read unsearched, under whatever names, and a file whose lines
\* the session was given is open to its edits.
THEOREM FunnelTheorem == Spec => FunnelTrue
  <1>1. FInv => \A s \in Sessions : FunnelOpens(s)
    BY DEF FInv, Shape, FunnelOpens
  <1>2. FInv /\ [Next]_vars => [FunnelHeld]_vars
    BY FunnelStep
  <1>3. QED
    BY <1>1, <1>2, CallsSound, PTL DEF Spec, FunnelTrue

\* At most one proposal is under review, on a copy of the store that lacks no
\* plan, and every stored plan was approved, under an id of its own (gate_plan,
\* review_plan, TaskStore::create and ::revise).
THEOREM ProposalsSound == Spec => []PInv
  <1>1. Init => PInv
    BY PlansInit
  <1>2. FInv /\ PInv /\ [Next]_vars => PInv'
    BY PlansStep
  <1>3. QED
    BY <1>1, <1>2, CallsSound, PTL DEF Spec

\* No edit writes a hidden file, nor a hardened one without the user's consent,
\* and no approval loses a stored plan or rewrites one it does not revise.
THEOREM GuardsTheorem == Spec => GuardsTrue
  <1>1. FInv => [GuardsHold]_vars
    BY GuardsStep
  <1>2. FInv /\ PInv /\ [Next]_vars => PlansKept
    BY PlansStep
  <1>3. FInv /\ PInv /\ [Next]_vars => [GuardsHold /\ PlansKept]_vars
    BY <1>1, <1>2
  <1>4. QED
    BY <1>3, CallsSound, ProposalsSound, PTL DEF Spec, GuardsTrue
=============================================================================
