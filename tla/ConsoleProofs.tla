---------------------------- MODULE ConsoleProofs -----------------------------
(***************************************************************************)
(* Theorems about Console, for every bound: the transcript is what the      *)
(* agent said and did, and the popup that takes a key is the one on top.    *)
(* After them, those about EventLoop, which has the channels of the same    *)
(* bridge with their capacities, for any number of bridges, keys and        *)
(* events: what the tasks say to each other.                                *)
(***************************************************************************)
EXTENDS Console, EventLoop, CommonLemmas, TLAPS

Calls == [kind : {"search", "run", "plan", "task", "sub"}, id : Nat, asks : BOOLEAN]
Agents == [at : {"idle", "stream", "calls", "asking"}, kind : {"turn", "compact", "driver"},
           calls : Seq(Calls), started : Seq(Calls), outer : Seq(Calls) \union {Nil}]

Chunks == {"text", "reasoning"}
Closers == {"started", "completed", "marker", "error", "interrupted", "done", "compacted"}
Numbers == {"text", "reasoning", "started", "completed", "retrying"}
Plains == {"tasks", "permission", "plan", "marker", "error", "interrupted", "done", "compacted"}
Events == [kind : Numbers, id : Nat] \union [kind : Plains, id : {Nil, "open", "worked", "done"}]

\* Only messages, blocks and cards are ever open, and a message has text.
Entries ==
    {e \in [kind : {"user", "note", "agent", "thinking", "card"}, parts : Seq(Nat),
            open : BOOLEAN, result : Nat \union {Nil}] :
        /\ e.kind \in {"user", "note"} => ~e.open
        /\ e.kind = "agent" => e.parts # <<>>}

Types ==
    /\ transcript \in Seq(Entries)
    /\ events \in Seq(Events)
    /\ agent \in Agents /\ (agent.at = "calls" => agent.calls # <<>>)
    /\ serial \in Nat
    /\ heard \in Seq(Nat) /\ running \in SUBSET Nat
    /\ broken \in [stream : BOOLEAN, cards : BOOLEAN]

-----------------------------------------------------------------------------
(* What is in the channel, seen from the transcript: whether a stream may   *)
(* be open before an event, and which cards are.                            *)

States == [open : BOOLEAN, cards : SUBSET Nat]

After(s, e) ==
    [open |-> e.kind \in Chunks,
     cards |-> CASE e.kind = "started"   -> s.cards \union {e.id}
                 [] e.kind = "completed" -> s.cards \ {e.id}
                 [] OTHER                -> s.cards]

\* An open stream goes on or is closed by what follows; cards open in the
\* order of their numbers, and the oldest completes first.
Fine(s, e) ==
    /\ s.open => e.kind \in Chunks \union Closers
    /\ e.kind = "started" => \A y \in s.cards : y < e.id
    /\ e.kind = "completed" => e.id \in s.cards /\ \A y \in s.cards : e.id <= y

Leads(s, es, u) ==
    \E r \in [1 .. Len(es) + 1 -> States] :
        /\ r[1] = s /\ r[Len(es) + 1] = u
        /\ \A i \in 1 .. Len(es) : Fine(r[i], es[i]) /\ r[i + 1] = After(r[i], es[i])

Streams(t) == LastIs(t, "agent") \/ LastIs(t, "thinking")

Ids(cs) == {cs[i].id : i \in DOMAIN cs}
InOrder(cs) == \A i, j \in DOMAIN cs : i < j => cs[i].id < cs[j].id

\* What the channel must leave open for the place the agent is in.
Ends(s, a) ==
    /\ s.open => a.at = "calls"
    /\ s.cards = IF a.at = "asking" THEN Ids(a.started) ELSE {}

Coming ==
    /\ InOrder(agent.started)
    /\ \E s, u \in States :
          /\ s.cards = running
          /\ ~broken.stream /\ Streams(transcript) => s.open
          /\ Leads(s, events, u)
          /\ Ends(u, agent)

-----------------------------------------------------------------------------
(* What stands in the transcript.                                           *)

Parts(t) == [i \in DOMAIN t |-> t[i].parts]

\* Nothing streams above the last entry.
Tidy(t) == \A i \in 1 .. Len(t) - 1 : t[i].kind # "card" => ~t[i].open
Closed(t) == \A i \in 1 .. Len(t) : t[i].kind # "card" => ~t[i].open

\* The running cards are those of the running calls, in the order of their
\* numbers, and the others show the result of their own call.
Carded(t, R) ==
    /\ \A i \in RunningCards(t) : \E x \in R : t[i].parts = <<x>>
    /\ \A x \in R : \E i \in RunningCards(t) : t[i].parts = <<x>>
    /\ \A i, j \in RunningCards(t) : i < j => t[i].parts[1] < t[j].parts[1]
    /\ \A i \in 1 .. Len(t) : t[i].kind = "card" /\ ~t[i].open => t[i].parts = <<t[i].result>>

IInv ==
    /\ Types
    /\ Coming
    /\ FlattenSeq(Parts(transcript)) = heard
    /\ ~broken.stream => Tidy(transcript)
    /\ ~broken.cards => Carded(transcript, running)

-----------------------------------------------------------------------------
(* The channel.                                                             *)

LEMMA AfterType ==
    ASSUME NEW s \in States, NEW e \in Events
    PROVE  After(s, e) \in States
  BY DEF After, States, Events, Numbers, Plains

LEMMA EventIs ==
    ASSUME NEW kind, NEW id
    PROVE  Event(kind, id).kind = kind /\ Event(kind, id).id = id
  BY DEF Event

LEMMA AfterIs ==
    ASSUME NEW s, NEW e
    PROVE  /\ e.kind \in Chunks => After(s, e) = [open |-> TRUE, cards |-> s.cards]
           /\ e.kind = "started" => After(s, e) = [open |-> FALSE, cards |-> s.cards \union {e.id}]
           /\ e.kind = "completed" => After(s, e) = [open |-> FALSE, cards |-> s.cards \ {e.id}]
           /\ e.kind \notin Chunks \union {"started", "completed"} =>
                 After(s, e) = [open |-> FALSE, cards |-> s.cards]
<1>1. CASE e.kind \in Chunks
  <2>1. (e.kind \in Chunks) = TRUE /\ e.kind # "started" /\ e.kind # "completed"
    BY <1>1 DEF Chunks
  <2> QED
    BY <2>1 DEF After
<1>2. CASE e.kind \notin Chunks
  <2>1. (e.kind \in Chunks) = FALSE
    BY <1>2
  <2>2. e.kind = "started" => e.kind # "completed"
    OBVIOUS
  <2> QED
    BY <2>1, <2>2 DEF After
<1> QED
  BY <1>1, <1>2

LEMMA LeadsNowhere ==
    ASSUME NEW s \in States
    PROVE  Leads(s, <<>>, s)
<1> DEFINE r == [i \in 1 .. 1 |-> s]
<1>1. r \in [1 .. 1 -> States] /\ r[1] = s
  OBVIOUS
<1>2. Len(<<>>) + 1 = 1 /\ 1 .. Len(<<>>) = {}
  OBVIOUS
<1> HIDE DEF r
<1> QED
  BY <1>1, <1>2 DEF Leads

LEMMA LeadsOne ==
    ASSUME NEW s \in States, NEW e \in Events, Fine(s, e)
    PROVE  Leads(s, <<e>>, After(s, e))
<1> DEFINE r == [i \in 1 .. 2 |-> IF i = 1 THEN s ELSE After(s, e)]
<1>1. r \in [1 .. 2 -> States]
  BY AfterType
<1>2. r[1] = s /\ r[2] = After(s, e)
  OBVIOUS
<1>3. Len(<<e>>) = 1 /\ <<e>>[1] = e /\ 1 .. 1 = {1}
  OBVIOUS
<1> HIDE DEF r
<1> QED
  BY <1>1, <1>2, <1>3 DEF Leads

LEMMA LeadsThrough ==
    ASSUME NEW a \in Seq(Events), NEW b \in Seq(Events), NEW s, NEW u, NEW v,
           Leads(s, a, u), Leads(u, b, v)
    PROVE  Leads(s, a \o b, v)
<1> DEFINE c == a \o b
           m == Len(a)
           n == Len(b)
<1>1. /\ m \in Nat /\ n \in Nat /\ Len(c) = m + n
      /\ \A i \in 1 .. m + n : c[i] = IF i <= m THEN a[i] ELSE b[i - m]
  BY ConcatProperties, LenProperties
<1>2. PICK p \in [1 .. m + 1 -> States] :
         /\ p[1] = s /\ p[m + 1] = u
         /\ \A i \in 1 .. m : Fine(p[i], a[i]) /\ p[i + 1] = After(p[i], a[i])
  BY DEF Leads
<1>3. PICK q \in [1 .. n + 1 -> States] :
         /\ q[1] = u /\ q[n + 1] = v
         /\ \A i \in 1 .. n : Fine(q[i], b[i]) /\ q[i + 1] = After(q[i], b[i])
  BY DEF Leads
<1> HIDE DEF c, m, n
<1> DEFINE r == [i \in 1 .. m + n + 1 |-> IF i <= m THEN p[i] ELSE q[i - m]]
<1>4. r \in [1 .. m + n + 1 -> States]
  <2>1. \A i \in 1 .. m + n + 1 : IF i <= m THEN i \in 1 .. m + 1 ELSE i - m \in 1 .. n + 1
    BY <1>1
  <2> QED
    BY <1>2, <1>3, <2>1
<1>5. r[1] = s /\ r[m + n + 1] = v
  <2>1. r[m + n + 1] = q[n + 1]
    BY <1>1
  <2>2. CASE m = 0
    BY <1>1, <1>2, <1>3, <2>1, <2>2
  <2>3. CASE m # 0
    BY <1>1, <1>2, <1>3, <2>1, <2>3
  <2> QED
    BY <2>2, <2>3
<1>6. \A i \in 1 .. m + n : Fine(r[i], c[i]) /\ r[i + 1] = After(r[i], c[i])
  <2> TAKE i \in 1 .. m + n
  <2>1. CASE i <= m
    <3>1. i \in 1 .. m /\ c[i] = a[i] /\ r[i] = p[i]
      BY <1>1, <2>1
    <3>2. r[i + 1] = p[i + 1]
      <4>1. CASE i = m
        <5>1. r[i + 1] = q[1] /\ p[i + 1] = u
          BY <1>1, <1>2, <4>1
        <5> QED
          BY <1>3, <5>1
      <4>2. CASE i # m
        BY <1>1, <2>1, <4>2
      <4> QED
        BY <4>1, <4>2
    <3> HIDE DEF r
    <3> QED
      BY <1>2, <3>1, <3>2
  <2>2. CASE ~(i <= m)
    <3>1. /\ i - m \in 1 .. n /\ c[i] = b[i - m] /\ r[i] = q[i - m]
          /\ r[i + 1] = q[i - m + 1]
      BY <1>1, <2>2
    <3> HIDE DEF r
    <3> QED
      BY <1>3, <3>1
  <2> QED
    BY <2>1, <2>2
<1> HIDE DEF r
<1> QED
  BY <1>1, <1>4, <1>5, <1>6 DEF Leads, c

\* The receiver takes the first event.
LEMMA LeadsOn ==
    ASSUME NEW es \in Seq(Events), es # <<>>, NEW s, NEW u, Leads(s, es, u)
    PROVE  /\ s \in States /\ Fine(s, Head(es))
           /\ Leads(After(s, Head(es)), Tail(es), u)
<1>1. /\ Len(es) \in Nat \ {0} /\ Head(es) = es[1] /\ Len(Tail(es)) = Len(es) - 1
      /\ \A i \in 1 .. Len(es) - 1 : Tail(es)[i] = es[i + 1]
  BY HeadTailProperties, EmptySeq
<1>2. PICK r \in [1 .. Len(es) + 1 -> States] :
         /\ r[1] = s /\ r[Len(es) + 1] = u
         /\ \A i \in 1 .. Len(es) : Fine(r[i], es[i]) /\ r[i + 1] = After(r[i], es[i])
  BY DEF Leads
<1> DEFINE q == [i \in 1 .. Len(es) |-> r[i + 1]]
<1>3. q \in [1 .. Len(es) -> States]
  <2>1. \A i \in 1 .. Len(es) : i + 1 \in 1 .. Len(es) + 1
    BY <1>1
  <2> QED
    BY <2>1
<1>4. q[1] = After(s, Head(es)) /\ q[Len(es)] = u
  BY <1>1, <1>2
<1>5. \A i \in 1 .. Len(es) - 1 : Fine(q[i], Tail(es)[i]) /\ q[i + 1] = After(q[i], Tail(es)[i])
  <2> TAKE i \in 1 .. Len(es) - 1
  <2>1. /\ i + 1 \in 1 .. Len(es) /\ q[i] = r[i + 1] /\ q[i + 1] = r[(i + 1) + 1]
        /\ Tail(es)[i] = es[i + 1]
    BY <1>1
  <2> HIDE DEF q
  <2> QED
    BY <1>2, <2>1
<1>6. Fine(s, Head(es)) /\ s \in States
  BY <1>1, <1>2
<1>7. Len(Tail(es)) + 1 = Len(es)
  BY <1>1
<1> HIDE DEF q
<1> QED
  BY <1>1, <1>3, <1>4, <1>5, <1>6, <1>7 DEF Leads

\* What the agent says between two calls: chunks and retries.
LEMMA LeadsSaid ==
    ASSUME NEW es \in Seq(Events), NEW s \in States, ~s.open,
           \A i \in 1 .. Len(es) : \/ es[i].kind \in Chunks
                                   \/ i = 1 /\ es[i].kind = "retrying"
    PROVE  \E u \in States : Leads(s, es, u) /\ u.cards = s.cards
<1> DEFINE r == [i \in 1 .. Len(es) + 1 |->
                    IF i = 1 THEN s ELSE [open |-> es[i - 1].kind \in Chunks, cards |-> s.cards]]
<1>1. Len(es) \in Nat
  BY LenProperties
<1>2. \A i \in 1 .. Len(es) : es[i] \in Events
  BY ElementOfSeq
<1>3. r \in [1 .. Len(es) + 1 -> States]
  BY <1>1 DEF States
<1>4. \A i \in 1 .. Len(es) : Fine(r[i], es[i]) /\ r[i + 1] = After(r[i], es[i])
  <2> TAKE i \in 1 .. Len(es)
  <2>1. i + 1 \in 1 .. Len(es) + 1 /\ i + 1 # 1 /\ (i + 1) - 1 = i /\ i \in 1 .. Len(es) + 1
    BY <1>1
  <2>2. r[i + 1] = [open |-> es[i].kind \in Chunks, cards |-> s.cards]
    BY <2>1
  <2>3. r[i].cards = s.cards /\ (i = 1 => ~r[i].open)
    BY <2>1
  <2>4. es[i].kind \in Chunks \union {"retrying"} /\ (r[i].open => es[i].kind \in Chunks)
    BY <2>3
  <2>5. es[i].kind # "started" /\ es[i].kind # "completed"
    BY <2>4 DEF Chunks
  <2> HIDE DEF r
  <2> QED
    BY <2>2, <2>3, <2>4, <2>5 DEF Fine, After
<1>5. r[1] = s /\ r[Len(es) + 1].cards = s.cards /\ r[Len(es) + 1] \in States
  <2>1. Len(es) + 1 \in 1 .. Len(es) + 1 /\ 1 \in 1 .. Len(es) + 1
    BY <1>1
  <2> QED
    BY <1>3, <2>1
<1> HIDE DEF r
<1> QED
  BY <1>3, <1>4, <1>5 DEF Leads

\* An event that is neither a chunk nor a card's.
LEMMA LeadsPlain ==
    ASSUME NEW e \in Events, NEW s \in States, e.kind \in Plains,
           s.open => e.kind \in Closers
    PROVE  Leads(s, <<e>>, [open |-> FALSE, cards |-> s.cards])
<1>0. (e.kind \in Chunks) = FALSE /\ e.kind # "started" /\ e.kind # "completed"
  BY DEF Plains, Chunks
<1>1. After(s, e) = [open |-> FALSE, cards |-> s.cards]
  BY <1>0 DEF After
<1>2. Fine(s, e)
  BY DEF Fine, Plains
<1> QED
  BY <1>1, <1>2, LeadsOne

LEMMA Pair ==
    ASSUME NEW S, NEW x \in S, NEW y \in S
    PROVE  /\ <<x>> \o <<y>> = <<x, y>>
           /\ <<x>> \in Seq(S) /\ <<y>> \in Seq(S) /\ <<x, y>> \in Seq(S)
<1>1. /\ <<x>> \in Seq(S) /\ <<y>> \in Seq(S) /\ <<x, y>> \in Seq(S)
      /\ Len(<<x>>) = 1 /\ Len(<<y>>) = 1 /\ Len(<<x, y>>) = 2
      /\ <<x>>[1] = x /\ <<y>>[1] = y /\ <<x, y>>[1] = x /\ <<x, y>>[2] = y
  OBVIOUS
<1>2. <<x>> \o <<y>> \in Seq(S) /\ Len(<<x>> \o <<y>>) = 2
  BY <1>1, ConcatProperties
<1>3. \A i \in 1 .. 2 : (<<x>> \o <<y>>)[i] = <<x, y>>[i]
  BY <1>1, ConcatProperties
<1> QED
  BY <1>1, <1>2, <1>3, SeqEqual

LEMMA IdsType ==
    ASSUME NEW cs \in Seq(Calls)
    PROVE  Ids(cs) \in SUBSET Nat
<1>1. DOMAIN cs = 1 .. Len(cs) /\ \A i \in 1 .. Len(cs) : cs[i] \in Calls
  BY LenProperties, ElementOfSeq
<1>2. \A i \in DOMAIN cs : cs[i].id \in Nat
  BY <1>1 DEF Calls
<1> QED
  BY <1>2 DEF Ids

\* The calls of a batch open their cards one after the other ...
LEMMA LeadsStarted ==
    ASSUME NEW cs \in Seq(Calls), InOrder(cs), NEW s \in States, s.cards = {},
           NEW es \in Seq(Events), Len(es) = Len(cs),
           \A i \in 1 .. Len(cs) : es[i] = Event("started", cs[i].id)
    PROVE  Leads(s, es, [open |-> s.open /\ cs = <<>>, cards |-> Ids(cs)])
<1>0. \A i \in 1 .. Len(es) : es[i].kind = "started" /\ es[i].id = cs[i].id
  BY EventIs
<1> DEFINE upto(i) == {cs[k].id : k \in 1 .. i - 1}
           r == [i \in 1 .. Len(es) + 1 |-> [open |-> s.open /\ i = 1, cards |-> upto(i)]]
<1>1. Len(es) \in Nat /\ DOMAIN cs = 1 .. Len(es)
  BY LenProperties
<1>2. \A i \in 1 .. Len(es) : cs[i] \in Calls /\ cs[i].id \in Nat
  <2>1. \A i \in 1 .. Len(es) : cs[i] \in Calls
    BY ElementOfSeq
  <2> QED
    BY <2>1 DEF Calls
<1>3. r \in [1 .. Len(es) + 1 -> States]
  <2>1. ASSUME NEW i \in 1 .. Len(es) + 1 PROVE upto(i) \in SUBSET Nat
    BY <1>1, <1>2
  <2> HIDE DEF upto
  <2>2. ASSUME NEW i \in 1 .. Len(es) + 1
        PROVE  [open |-> s.open /\ i = 1, cards |-> upto(i)] \in States
    BY <2>1 DEF States
  <2> QED
    BY <2>2
<1>4. ASSUME NEW i \in 1 .. Len(es)
      PROVE  Fine(r[i], es[i]) /\ r[i + 1] = After(r[i], es[i])
  <2>1. i \in 1 .. Len(es) + 1 /\ i + 1 \in 1 .. Len(es) + 1 /\ i + 1 # 1
    BY <1>1
  <2>2. upto(i + 1) = upto(i) \union {cs[i].id}
    BY <1>1
  <2>3. \A y \in upto(i) : y < cs[i].id
    <3>1. \A k \in 1 .. i - 1 : cs[k].id < cs[i].id
      <4> TAKE k \in 1 .. i - 1
      <4>1. k \in DOMAIN cs /\ i \in DOMAIN cs /\ k < i
        BY <1>1
      <4> QED
        BY <4>1 DEF InOrder
    <3> QED
      BY <3>1
  <2>4. es[i].kind = "started" /\ es[i].id = cs[i].id /\ (es[i].kind \in Chunks) = FALSE
    BY <1>0 DEF Chunks
  <2> HIDE DEF upto
  <2>5. r[i] = [open |-> s.open /\ i = 1, cards |-> upto(i)]
    BY <2>1
  <2>6. r[i + 1] = [open |-> FALSE, cards |-> upto(i + 1)]
    BY <2>1
  <2> HIDE DEF r
  <2>7. Fine(r[i], es[i])
    BY <2>3, <2>4, <2>5 DEF Fine, Closers
  <2>8. After(r[i], es[i]) = [open |-> FALSE, cards |-> upto(i) \union {cs[i].id}]
    <3>1. r[i].cards = upto(i)
      BY <2>5
    <3>2. After(r[i], es[i]) = [open |-> FALSE, cards |-> r[i].cards \union {es[i].id}]
      BY <2>4, AfterIs
    <3> QED
      BY <2>4, <3>1, <3>2
  <2> QED
    BY <2>2, <2>6, <2>7, <2>8
<1>5. r[1] = s
  <2>1. upto(1) = {} /\ 1 \in 1 .. Len(es) + 1
    BY <1>1
  <2> HIDE DEF upto
  <2>2. r[1] = [open |-> s.open, cards |-> {}]
    BY <2>1 DEF States
  <2> QED
    BY <2>2 DEF States
<1>6. r[Len(es) + 1] = [open |-> s.open /\ cs = <<>>, cards |-> Ids(cs)]
  <2>1. upto(Len(es) + 1) = Ids(cs)
    BY <1>1 DEF Ids
  <2>2. Len(es) + 1 \in 1 .. Len(es) + 1 /\ (Len(es) + 1 = 1 <=> cs = <<>>)
    BY <1>1, EmptySeq
  <2> HIDE DEF upto
  <2>3. r[Len(es) + 1] = [open |-> s.open /\ Len(es) + 1 = 1, cards |-> upto(Len(es) + 1)]
    BY <2>2
  <2> QED
    BY <2>1, <2>2, <2>3
<1> HIDE DEF r
<1> QED
  BY <1>3, <1>4, <1>5, <1>6 DEF Leads

\* ... and close them in the same order.
LEMMA LeadsCompleted ==
    ASSUME NEW cs \in Seq(Calls), InOrder(cs), NEW s \in States, s.cards = Ids(cs),
           NEW es \in Seq(Events), Len(es) = Len(cs),
           \A i \in 1 .. Len(cs) : es[i] = Event("completed", cs[i].id)
    PROVE  Leads(s, es, [open |-> s.open /\ cs = <<>>, cards |-> {}])
<1>0. \A i \in 1 .. Len(es) : es[i].kind = "completed" /\ es[i].id = cs[i].id
  BY EventIs
<1> DEFINE from(i) == {cs[k].id : k \in i .. Len(es)}
           r == [i \in 1 .. Len(es) + 1 |-> [open |-> s.open /\ i = 1, cards |-> from(i)]]
<1>1. Len(es) \in Nat /\ DOMAIN cs = 1 .. Len(es)
  BY LenProperties
<1>2. \A i \in 1 .. Len(es) : cs[i] \in Calls /\ cs[i].id \in Nat
  <2>1. \A i \in 1 .. Len(es) : cs[i] \in Calls
    BY ElementOfSeq
  <2> QED
    BY <2>1 DEF Calls
<1>3. r \in [1 .. Len(es) + 1 -> States]
  <2>1. ASSUME NEW i \in 1 .. Len(es) + 1 PROVE from(i) \in SUBSET Nat
    BY <1>1, <1>2
  <2> HIDE DEF from
  <2>2. ASSUME NEW i \in 1 .. Len(es) + 1
        PROVE  [open |-> s.open /\ i = 1, cards |-> from(i)] \in States
    BY <2>1 DEF States
  <2> QED
    BY <2>2
<1>4. ASSUME NEW i \in 1 .. Len(es)
      PROVE  Fine(r[i], es[i]) /\ r[i + 1] = After(r[i], es[i])
  <2>1. i \in 1 .. Len(es) + 1 /\ i + 1 \in 1 .. Len(es) + 1 /\ i + 1 # 1
    BY <1>1
  <2>2. cs[i].id \in from(i) /\ \A y \in from(i) : cs[i].id <= y
    <3>1. \A k \in i .. Len(es) : cs[i].id <= cs[k].id
      <4> TAKE k \in i .. Len(es)
      <4>1. k \in 1 .. Len(es) /\ (i = k \/ i < k)
        BY <1>1
      <4> QED
        BY <1>1, <1>2, <4>1 DEF InOrder
    <3> QED
      BY <1>1, <3>1
  <2>3. from(i + 1) = from(i) \ {cs[i].id}
    <3>1. \A k \in i + 1 .. Len(es) : cs[i].id # cs[k].id
      BY <1>1, <1>2 DEF InOrder
    <3> QED
      BY <1>1, <3>1
  <2>4. es[i].kind = "completed" /\ es[i].id = cs[i].id /\ (es[i].kind \in Chunks) = FALSE
    BY <1>0 DEF Chunks
  <2> HIDE DEF from
  <2>5. r[i] = [open |-> s.open /\ i = 1, cards |-> from(i)]
    BY <2>1
  <2>6. r[i + 1] = [open |-> FALSE, cards |-> from(i + 1)]
    BY <2>1
  <2> HIDE DEF r
  <2>7. Fine(r[i], es[i])
    BY <2>2, <2>4, <2>5 DEF Fine, Closers
  <2>8. After(r[i], es[i]) = [open |-> FALSE, cards |-> from(i) \ {cs[i].id}]
    <3>1. r[i].cards = from(i)
      BY <2>5
    <3>2. After(r[i], es[i]) = [open |-> FALSE, cards |-> r[i].cards \ {es[i].id}]
      BY <2>4, AfterIs
    <3> QED
      BY <2>4, <3>1, <3>2
  <2> QED
    BY <2>3, <2>6, <2>7, <2>8
<1>5. r[1] = s
  <2>1. from(1) = Ids(cs) /\ 1 \in 1 .. Len(es) + 1
    BY <1>1 DEF Ids
  <2> HIDE DEF from
  <2>2. r[1] = [open |-> s.open, cards |-> Ids(cs)]
    BY <2>1 DEF States
  <2> QED
    BY <2>2 DEF States
<1>6. r[Len(es) + 1] = [open |-> s.open /\ cs = <<>>, cards |-> {}]
  <2>1. from(Len(es) + 1) = {}
    BY <1>1
  <2>2. Len(es) + 1 \in 1 .. Len(es) + 1 /\ (Len(es) + 1 = 1 <=> cs = <<>>)
    BY <1>1, EmptySeq
  <2> HIDE DEF from
  <2>3. r[Len(es) + 1] = [open |-> s.open /\ Len(es) + 1 = 1, cards |-> from(Len(es) + 1)]
    BY <2>2
  <2> QED
    BY <2>1, <2>2, <2>3
<1> HIDE DEF r
<1> QED
  BY <1>3, <1>4, <1>5, <1>6 DEF Leads

-----------------------------------------------------------------------------
(* The transcript.                                                          *)

Told(t) == FlattenSeq(Parts(t))

LEMMA PartsType ==
    ASSUME NEW t \in Seq(Entries)
    PROVE  /\ Parts(t) \in Seq(Seq(Nat)) /\ Len(Parts(t)) = Len(t) /\ Len(t) \in Nat
           /\ \A i \in 1 .. Len(t) : t[i] \in Entries /\ Parts(t)[i] = t[i].parts
           /\ Told(t) \in Seq(Nat)
<1>1. Len(t) \in Nat /\ DOMAIN t = 1 .. Len(t) /\ \A i \in 1 .. Len(t) : t[i] \in Entries
  BY LenProperties, ElementOfSeq
<1>2. \A i \in 1 .. Len(t) : t[i].parts \in Seq(Nat)
  BY <1>1 DEF Entries
<1>3. Parts(t) \in Seq(Seq(Nat)) /\ Len(Parts(t)) = Len(t)
  BY <1>1, <1>2 DEF Parts
<1>4. \A i \in 1 .. Len(t) : Parts(t)[i] = t[i].parts
  BY <1>1 DEF Parts
<1>5. <<>> \in Seq(Nat)
  BY EmptySeq
<1>6. Told(t) \in Seq(Nat)
  BY <1>3, <1>5, FlattenAppend DEF Told
<1> QED
  BY <1>1, <1>3, <1>4, <1>6

LEMMA EntryTypes ==
    /\ \A n \in Nat : /\ Shown("agent", <<n>>, TRUE) \in Entries
                      /\ Shown("thinking", <<n>>, TRUE) \in Entries
                      /\ Shown("card", <<n>>, TRUE) \in Entries
                      /\ Shown("note", <<n>>, FALSE) \in Entries
                      /\ [Shown("card", <<>>, FALSE) EXCEPT !.result = n] \in Entries
    /\ Note \in Entries /\ Shown("user", <<>>, FALSE) \in Entries
    /\ \A e \in Entries : \A n \in Nat :
          /\ e.kind # "user" /\ e.kind # "note" => [e EXCEPT !.parts = Append(@, n)] \in Entries
          /\ [e EXCEPT !.open = FALSE] \in Entries
          /\ e.kind = "card" => [e EXCEPT !.open = FALSE, !.result = n] \in Entries
<1>1. \A n \in Nat : <<n>> \in Seq(Nat) /\ <<n>> # <<>>
  OBVIOUS
<1>2. <<>> \in Seq(Nat)
  BY EmptySeq
<1>3. \A p \in Seq(Nat) : \A n \in Nat : Append(p, n) \in Seq(Nat) /\ Append(p, n) # <<>>
  BY AppendProperties
<1>4. \A n \in Nat : /\ Shown("agent", <<n>>, TRUE) \in Entries
                     /\ Shown("thinking", <<n>>, TRUE) \in Entries
                     /\ Shown("card", <<n>>, TRUE) \in Entries
                     /\ Shown("note", <<n>>, FALSE) \in Entries
                     /\ [Shown("card", <<>>, FALSE) EXCEPT !.result = n] \in Entries
  BY <1>1, <1>2 DEF Shown, Entries
<1>5. Note \in Entries /\ Shown("user", <<>>, FALSE) \in Entries
  BY <1>2 DEF Shown, Note, Entries
<1>6. ASSUME NEW e \in Entries, NEW n \in Nat
      PROVE  /\ e.kind # "user" /\ e.kind # "note" => [e EXCEPT !.parts = Append(@, n)] \in Entries
             /\ [e EXCEPT !.open = FALSE] \in Entries
             /\ e.kind = "card" => [e EXCEPT !.open = FALSE, !.result = n] \in Entries
  <2>1. e.parts \in Seq(Nat) /\ Append(e.parts, n) \in Seq(Nat) /\ Append(e.parts, n) # <<>>
    BY <1>3 DEF Entries
  <2> QED
    BY <2>1 DEF Entries
<1> QED
  BY <1>4, <1>5, <1>6

LEMMA ToldAppend ==
    ASSUME NEW t \in Seq(Entries), NEW e \in Entries
    PROVE  Told(Append(t, e)) = Told(t) \o e.parts
<1>1. /\ Append(t, e) \in Seq(Entries) /\ Len(Append(t, e)) = Len(t) + 1
      /\ \A i \in 1 .. Len(t) : Append(t, e)[i] = t[i]
      /\ Append(t, e)[Len(t) + 1] = e
  BY AppendProperties
<1>2. Len(t) \in Nat /\ Parts(t) \in Seq(Seq(Nat)) /\ Len(Parts(t)) = Len(t) /\ e.parts \in Seq(Nat)
  BY PartsType DEF Entries
<1>3. Parts(Append(t, e)) = Append(Parts(t), e.parts)
  <2>1. /\ Append(Parts(t), e.parts) \in Seq(Seq(Nat))
        /\ Len(Append(Parts(t), e.parts)) = Len(t) + 1
        /\ \A i \in 1 .. Len(t) : Append(Parts(t), e.parts)[i] = t[i].parts
        /\ Append(Parts(t), e.parts)[Len(t) + 1] = e.parts
    <3>1. \A i \in 1 .. Len(t) : Parts(t)[i] = t[i].parts
      BY PartsType
    <3>2. /\ Append(Parts(t), e.parts) \in Seq(Seq(Nat))
          /\ Len(Append(Parts(t), e.parts)) = Len(Parts(t)) + 1
          /\ \A i \in 1 .. Len(Parts(t)) : Append(Parts(t), e.parts)[i] = Parts(t)[i]
          /\ Append(Parts(t), e.parts)[Len(Parts(t)) + 1] = e.parts
      BY <1>2, AppendProperties
    <3> QED
      BY <1>2, <3>1, <3>2
  <2>2. /\ Parts(Append(t, e)) \in Seq(Seq(Nat)) /\ Len(Parts(Append(t, e))) = Len(t) + 1
        /\ \A i \in 1 .. Len(t) + 1 : Parts(Append(t, e))[i] = Append(t, e)[i].parts
    BY <1>1, PartsType
  <2>3. \A i \in 1 .. Len(t) + 1 : Parts(Append(t, e))[i] = Append(Parts(t), e.parts)[i]
    <3> TAKE i \in 1 .. Len(t) + 1
    <3>1. i \in 1 .. Len(t) \/ i = Len(t) + 1
      BY <1>2
    <3> QED
      BY <1>1, <2>1, <2>2, <3>1
  <2> QED
    BY <2>1, <2>2, <2>3, SeqEqual
<1> QED
  BY <1>2, <1>3, FlattenAppend DEF Told

LEMMA ToldSame ==
    ASSUME NEW t \in Seq(Entries), NEW u \in Seq(Entries), Len(u) = Len(t),
           \A i \in 1 .. Len(t) : u[i].parts = t[i].parts
    PROVE  Told(u) = Told(t)
<1>1. /\ Parts(t) \in Seq(Seq(Nat)) /\ Len(Parts(t)) = Len(t)
      /\ \A i \in 1 .. Len(t) : Parts(t)[i] = t[i].parts
      /\ Parts(u) \in Seq(Seq(Nat)) /\ Len(Parts(u)) = Len(t)
      /\ \A i \in 1 .. Len(t) : Parts(u)[i] = u[i].parts
  BY PartsType
<1>2. Parts(u) = Parts(t)
  BY <1>1, SeqEqual
<1> QED
  BY <1>2 DEF Told

\* The cards are where they were, and nothing new is one.
LEMMA CardedSame ==
    ASSUME NEW t \in Seq(Entries), NEW u \in Seq(Entries), NEW R, Carded(t, R),
           Len(t) <= Len(u),
           \A i \in 1 .. Len(t) : t[i].kind = "card" \/ u[i].kind = "card" => u[i] = t[i],
           \A i \in 1 .. Len(u) : Len(t) < i => u[i].kind # "card"
    PROVE  Carded(u, R)
<1>1. Len(t) \in Nat /\ Len(u) \in Nat
  BY LenProperties
<1>2. \A i \in 1 .. Len(u) : u[i].kind = "card" => i \in 1 .. Len(t) /\ u[i] = t[i]
  BY <1>1
<1>3. \A i \in 1 .. Len(t) : t[i].kind = "card" => i \in 1 .. Len(u) /\ u[i] = t[i]
  BY <1>1
<1>4. RunningCards(u) = RunningCards(t)
  BY <1>2, <1>3 DEF RunningCards
<1>5. \A i \in RunningCards(t) : u[i] = t[i]
  BY DEF RunningCards
<1> QED
  BY <1>2, <1>4, <1>5 DEF Carded

-----------------------------------------------------------------------------
(* finish_thinking and finish_stream.                                       *)

\* u is t, its last entry closed when it is of one of the kinds.
Settles(t, u, kinds) ==
    /\ u \in Seq(Entries) /\ Len(u) = Len(t)
    /\ \A i \in 1 .. Len(t) :
          u[i] = IF i = Len(t) /\ t[i].kind \in kinds THEN [t[i] EXCEPT !.open = FALSE] ELSE t[i]

LEMMA WithLastIs ==
    ASSUME NEW S, NEW t \in Seq(S), t # <<>>, NEW e \in S
    PROVE  /\ WithLast(t, e) \in Seq(S) /\ Len(WithLast(t, e)) = Len(t)
           /\ \A i \in 1 .. Len(t) - 1 : WithLast(t, e)[i] = t[i]
           /\ WithLast(t, e)[Len(t)] = e
<1>1. /\ Front(t) \in Seq(S) /\ Len(t) \in Nat \ {0} /\ Len(Front(t)) = Len(t) - 1
      /\ \A i \in 1 .. Len(t) - 1 : Front(t)[i] = t[i]
  BY FrontLast
<1>2. /\ Append(Front(t), e) \in Seq(S) /\ Len(Append(Front(t), e)) = Len(Front(t)) + 1
      /\ \A i \in 1 .. Len(Front(t)) : Append(Front(t), e)[i] = Front(t)[i]
      /\ Append(Front(t), e)[Len(Front(t)) + 1] = e
  BY <1>1, AppendProperties
<1>3. Len(Front(t)) + 1 = Len(t)
  BY <1>1
<1> QED
  BY <1>1, <1>2, <1>3 DEF WithLast

LEMMA LastEntry ==
    ASSUME NEW t \in Seq(Entries), t # <<>>
    PROVE  /\ Last(t) = t[Len(t)] /\ Last(t) \in Entries /\ Len(t) \in 1 .. Len(t)
           /\ Len(t) \in Nat /\ Last(t).open \in BOOLEAN
<1>1. Last(t) = t[Len(t)] /\ Last(t) \in Entries /\ Len(t) \in Nat \ {0}
  BY FrontLast
<1> QED
  BY <1>1 DEF Entries

LEMMA ThinkingSettles ==
    ASSUME NEW t \in Seq(Entries)
    PROVE  Settles(t, FinishThinking(t), {"thinking"})
<1>0. Len(t) \in Nat /\ \A i \in 1 .. Len(t) : t[i] \in Entries
  BY LenProperties, ElementOfSeq
<1>1. CASE LastIs(t, "thinking")
  <2>1. t # <<>> /\ Last(t).kind = "thinking"
    BY <1>1 DEF LastIs
  <2>2. Last(t) = t[Len(t)] /\ Last(t) \in Entries /\ [Last(t) EXCEPT !.open = FALSE] \in Entries
    BY <2>1, LastEntry, EntryTypes
  <2> DEFINE u == WithLast(t, [Last(t) EXCEPT !.open = FALSE])
  <2>3. /\ u \in Seq(Entries) /\ Len(u) = Len(t)
        /\ \A i \in 1 .. Len(t) - 1 : u[i] = t[i]
        /\ u[Len(t)] = [Last(t) EXCEPT !.open = FALSE]
    <3>1. \A e \in Entries : /\ WithLast(t, e) \in Seq(Entries) /\ Len(WithLast(t, e)) = Len(t)
                             /\ \A i \in 1 .. Len(t) - 1 : WithLast(t, e)[i] = t[i]
                             /\ WithLast(t, e)[Len(t)] = e
      BY <2>1, WithLastIs
    <3> QED
      BY <2>2, <3>1
  <2>4. FinishThinking(t) = u
    BY <1>1 DEF FinishThinking
  <2> HIDE DEF u
  <2>5. \A i \in 1 .. Len(t) : i # Len(t) => i \in 1 .. Len(t) - 1
    BY <1>0
  <2> QED
    BY <2>1, <2>2, <2>3, <2>4, <2>5 DEF Settles
<1>2. CASE ~LastIs(t, "thinking")
  <2>1. FinishThinking(t) = t
    BY <1>2 DEF FinishThinking
  <2>2. ASSUME NEW i \in 1 .. Len(t), i = Len(t), t[i].kind = "thinking"
        PROVE  t[i] = [t[i] EXCEPT !.open = FALSE]
    <3>1. t # <<>>
      BY <2>2, EmptySeq
    <3>2. Last(t) = t[i] /\ t[i] \in Entries
      BY <2>2, <3>1, LastEntry
    <3>3. ~t[i].open /\ t[i].open \in BOOLEAN
      BY <1>2, <2>2, <3>1, <3>2 DEF LastIs, Entries
    <3>4. t[i].open = FALSE
      BY <3>3
    <3> QED
      BY <3>2, <3>4 DEF Entries
  <2> QED
    BY <2>1, <2>2 DEF Settles
<1> QED
  BY <1>1, <1>2

LEMMA StreamSettles ==
    ASSUME NEW t \in Seq(Entries)
    PROVE  Settles(t, FinishStream(t), {"agent", "thinking"})
<1> DEFINE u == FinishThinking(t)
<1>0. Len(t) \in Nat /\ \A i \in 1 .. Len(t) : t[i] \in Entries
  BY LenProperties, ElementOfSeq
<1>1. /\ u \in Seq(Entries) /\ Len(u) = Len(t)
      /\ \A i \in 1 .. Len(t) :
            u[i] = IF i = Len(t) /\ t[i].kind = "thinking" THEN [t[i] EXCEPT !.open = FALSE] ELSE t[i]
  BY ThinkingSettles DEF Settles
<1>2. CASE LastIs(u, "agent")
  <2>1. u # <<>> /\ Last(u).kind = "agent"
    BY <1>2 DEF LastIs
  <2>2. Last(u) = u[Len(u)] /\ Last(u) \in Entries /\ Len(t) \in 1 .. Len(t)
    BY <1>1, <2>1, LastEntry
  <2>3. u[Len(t)] = t[Len(t)] /\ t[Len(t)].kind = "agent"
    <3>1. CASE t[Len(t)].kind = "thinking"
      <4>1. u[Len(t)] = [t[Len(t)] EXCEPT !.open = FALSE] /\ t[Len(t)] \in Entries
        BY <1>0, <1>1, <2>2, <3>1
      <4>2. u[Len(t)].kind = "thinking"
        BY <3>1, <4>1 DEF Entries
      <4> QED
        BY <1>1, <2>1, <2>2, <4>2
    <3>2. CASE t[Len(t)].kind # "thinking"
      BY <1>1, <2>1, <2>2, <3>2
    <3> QED
      BY <3>1, <3>2
  <2>4. Last(u).parts # <<>>
    BY <2>1, <2>2 DEF Entries
  <2> DEFINE v == WithLast(u, [Last(u) EXCEPT !.open = FALSE])
  <2>5. FinishStream(t) = v
    BY <1>2, <2>4 DEF FinishStream
  <2>6. [Last(u) EXCEPT !.open = FALSE] \in Entries
    BY <2>2, EntryTypes
  <2>7. /\ v \in Seq(Entries) /\ Len(v) = Len(t)
        /\ \A i \in 1 .. Len(t) - 1 : v[i] = u[i]
        /\ v[Len(t)] = [t[Len(t)] EXCEPT !.open = FALSE]
    <3> HIDE DEF u
    <3>1. \A e \in Entries : /\ WithLast(u, e) \in Seq(Entries) /\ Len(WithLast(u, e)) = Len(u)
                             /\ \A i \in 1 .. Len(u) - 1 : WithLast(u, e)[i] = u[i]
                             /\ WithLast(u, e)[Len(u)] = e
      BY <1>1, <2>1, WithLastIs
    <3>2. Last(u) = t[Len(t)]
      BY <1>1, <2>2, <2>3
    <3> QED
      BY <1>1, <2>6, <3>1, <3>2
  <2>8. \A i \in 1 .. Len(t) : i # Len(t) => i \in 1 .. Len(t) - 1
    BY <1>0
  <2> HIDE DEF u, v
  <2>9. \A i \in 1 .. Len(t) :
           v[i] = IF i = Len(t) /\ t[i].kind \in {"agent", "thinking"}
                  THEN [t[i] EXCEPT !.open = FALSE] ELSE t[i]
    BY <1>1, <2>3, <2>7, <2>8
  <2> QED
    BY <2>5, <2>7, <2>9 DEF Settles
<1>3. CASE ~LastIs(u, "agent")
  <2>1. FinishStream(t) = u
    BY <1>3 DEF FinishStream
  <2>2. ASSUME NEW i \in 1 .. Len(t), i = Len(t), t[i].kind = "agent"
        PROVE  t[i] = [t[i] EXCEPT !.open = FALSE]
    <3>1. u # <<>>
      BY <1>1, <2>2, EmptySeq
    <3>2. u[i] = t[i]
      BY <1>1, <2>2
    <3>3. Last(u) = t[i] /\ t[i] \in Entries
      BY <1>1, <2>2, <3>1, <3>2, LastEntry
    <3>4. ~t[i].open /\ t[i].open \in BOOLEAN
      BY <1>3, <2>2, <3>1, <3>3 DEF LastIs, Entries
    <3>5. t[i].open = FALSE
      BY <3>4
    <3> QED
      BY <3>3, <3>5 DEF Entries
  <2> HIDE DEF u
  <2>3. \A i \in 1 .. Len(t) :
           u[i] = IF i = Len(t) /\ t[i].kind \in {"agent", "thinking"}
                  THEN [t[i] EXCEPT !.open = FALSE] ELSE t[i]
    BY <1>1, <2>2
  <2> QED
    BY <1>1, <2>1, <2>3 DEF Settles
<1> QED
  BY <1>2, <1>3

\* What closing keeps: what was told, the cards, and that nothing streams above.
LEMMA SettlesKeeps ==
    ASSUME NEW t \in Seq(Entries), NEW u, NEW kinds \in SUBSET {"agent", "thinking"}, Settles(t, u, kinds)
    PROVE  /\ u \in Seq(Entries) /\ Len(u) = Len(t)
           /\ Told(u) = Told(t)
           /\ \A i \in 1 .. Len(t) : u[i].kind = t[i].kind
           /\ Tidy(t) => Tidy(u)
           /\ Tidy(t) /\ (Len(t) # 0 /\ t[Len(t)].kind # "card" /\ t[Len(t)].open => t[Len(t)].kind \in kinds)
                 => Closed(u)
           /\ \A R : Carded(t, R) => Carded(u, R)
<1>1. Len(t) \in Nat /\ \A i \in 1 .. Len(t) : t[i] \in Entries
  BY LenProperties, ElementOfSeq
<1>2. /\ u \in Seq(Entries) /\ Len(u) = Len(t)
      /\ \A i \in 1 .. Len(t) :
            u[i] = IF i = Len(t) /\ t[i].kind \in kinds THEN [t[i] EXCEPT !.open = FALSE] ELSE t[i]
  BY DEF Settles
<1>3. ASSUME NEW i \in 1 .. Len(t)
      PROVE  /\ u[i].kind = t[i].kind /\ u[i].parts = t[i].parts
             /\ (t[i].kind = "card" => u[i] = t[i])
             /\ (i # Len(t) => u[i] = t[i])
             /\ (t[i].kind \in kinds /\ i = Len(t) => ~u[i].open)
             /\ (t[i].kind \notin kinds => u[i] = t[i])
  <2>1. t[i] \in Entries
    BY <1>1
  <2>2. CASE i = Len(t) /\ t[i].kind \in kinds
    <3>1. u[i] = [t[i] EXCEPT !.open = FALSE]
      BY <1>2, <2>2
    <3> QED
      BY <2>1, <2>2, <3>1 DEF Entries
  <2>3. CASE ~(i = Len(t) /\ t[i].kind \in kinds)
    <3>1. u[i] = t[i]
      BY <1>2, <2>3
    <3> QED
      BY <2>3, <3>1
  <2> QED
    BY <2>2, <2>3
<1>4. Told(u) = Told(t)
  BY <1>2, <1>3, ToldSame
<1>5. Tidy(t) => Tidy(u)
  <2>1. \A i \in 1 .. Len(t) - 1 : i \in 1 .. Len(t) /\ i # Len(t)
    BY <1>1
  <2> QED
    BY <1>2, <1>3, <2>1 DEF Tidy
<1>6. ASSUME Tidy(t), Len(t) # 0 /\ t[Len(t)].kind # "card" /\ t[Len(t)].open => t[Len(t)].kind \in kinds
      PROVE  Closed(u)
  <2> SUFFICES ASSUME NEW i \in 1 .. Len(t), u[i].kind # "card" PROVE ~u[i].open
    BY <1>2 DEF Closed
  <2>1. CASE i # Len(t)
    <3>1. i \in 1 .. Len(t) - 1
      BY <1>1, <2>1
    <3> QED
      BY <1>3, <1>6, <2>1, <3>1 DEF Tidy
  <2>2. CASE i = Len(t)
    BY <1>1, <1>3, <1>6, <2>2
  <2> QED
    BY <2>1, <2>2
<1>7. ASSUME NEW R, Carded(t, R) PROVE Carded(u, R)
  <2>1. Len(t) <= Len(u) /\ \A i \in 1 .. Len(u) : ~(Len(t) < i)
    BY <1>1, <1>2
  <2>2. \A i \in 1 .. Len(t) : t[i].kind = "card" \/ u[i].kind = "card" => u[i] = t[i]
    BY <1>3
  <2> QED
    BY <1>2, <1>7, <2>1, <2>2, CardedSame
<1> QED
  BY <1>2, <1>3, <1>4, <1>5, <1>6, <1>7

LEMMA FinishedStream ==
    ASSUME NEW t \in Seq(Entries)
    PROVE  /\ FinishStream(t) \in Seq(Entries) /\ Len(FinishStream(t)) = Len(t)
           /\ Told(FinishStream(t)) = Told(t) /\ Told(t) \in Seq(Nat)
           /\ Tidy(t) => Closed(FinishStream(t))
           /\ \A R : Carded(t, R) => Carded(FinishStream(t), R)
<1>1. Settles(t, FinishStream(t), {"agent", "thinking"})
  BY StreamSettles
<1>2. /\ FinishStream(t) \in Seq(Entries) /\ Len(FinishStream(t)) = Len(t)
      /\ Told(FinishStream(t)) = Told(t) /\ Told(t) \in Seq(Nat)
      /\ \A R : Carded(t, R) => Carded(FinishStream(t), R)
  BY <1>1, SettlesKeeps, PartsType
<1>3. Len(t) # 0 /\ t[Len(t)].kind # "card" /\ t[Len(t)].open => t[Len(t)].kind \in {"agent", "thinking"}
  <2>1. Len(t) # 0 => t[Len(t)] \in Entries
    BY LenProperties, ElementOfSeq
  <2> QED
    BY <2>1 DEF Entries
<1>4. Tidy(t) => Closed(FinishStream(t))
  BY <1>1, <1>3, SettlesKeeps
<1> QED
  BY <1>2, <1>4

-----------------------------------------------------------------------------
(* A new entry, and a chunk more in the last one.                           *)

LEMMA AppendedEntry ==
    ASSUME NEW t \in Seq(Entries), NEW e \in Entries
    PROVE  /\ Append(t, e) \in Seq(Entries) /\ Len(Append(t, e)) = Len(t) + 1
           /\ Told(Append(t, e)) = Told(t) \o e.parts
           /\ Closed(t) => Tidy(Append(t, e))
           /\ ~Streams(t) /\ Tidy(t) => Closed(t)
           /\ Streams(Append(t, e)) <=> e.kind \in {"agent", "thinking"} /\ e.open
           /\ e.kind # "card" => \A R : Carded(t, R) => Carded(Append(t, e), R)
<1> DEFINE u == Append(t, e)
<1>1. /\ u \in Seq(Entries) /\ Len(u) = Len(t) + 1 /\ Len(t) \in Nat
      /\ \A i \in 1 .. Len(t) : u[i] = t[i]
      /\ u[Len(t) + 1] = e
  BY AppendProperties, LenProperties
<1> HIDE DEF u
<1>2. Told(u) = Told(t) \o e.parts
  BY ToldAppend DEF u
<1>3. Closed(t) => Tidy(u)
  <2>1. \A i \in 1 .. Len(u) - 1 : i \in 1 .. Len(t)
    BY <1>1
  <2> QED
    BY <1>1, <2>1 DEF Tidy, Closed
<1>4. ASSUME ~Streams(t), Tidy(t) PROVE Closed(t)
  <2> SUFFICES ASSUME NEW i \in 1 .. Len(t), t[i].kind # "card" PROVE ~t[i].open
    BY DEF Closed
  <2>1. CASE i # Len(t)
    <3>1. i \in 1 .. Len(t) - 1
      BY <1>1, <2>1
    <3> QED
      BY <1>4, <3>1 DEF Tidy
  <2>2. CASE i = Len(t)
    <3>1. t # <<>>
      BY <1>1, <2>2
    <3>2. Last(t) = t[i] /\ t[i] \in Entries
      BY <2>2, <3>1, LastEntry
    <3>3. t[i].kind \in {"user", "note", "agent", "thinking"}
      BY <3>2 DEF Entries
    <3> QED
      BY <1>4, <3>1, <3>2, <3>3 DEF Streams, LastIs, Entries
  <2> QED
    BY <2>1, <2>2
<1>5. Streams(u) <=> e.kind \in {"agent", "thinking"} /\ e.open
  <2>1. u # <<>>
    BY <1>1
  <2>2. Last(u) = e
    BY <1>1, <2>1, LastEntry
  <2> QED
    BY <2>1, <2>2 DEF Streams, LastIs
<1>6. ASSUME e.kind # "card", NEW R, Carded(t, R) PROVE Carded(u, R)
  <2>1. Len(t) <= Len(u) /\ \A i \in 1 .. Len(u) : Len(t) < i => u[i].kind # "card"
    <3>1. \A i \in 1 .. Len(u) : Len(t) < i => i = Len(t) + 1
      BY <1>1
    <3> QED
      BY <1>1, <1>6, <3>1
  <2> QED
    BY <1>1, <1>6, <2>1, CardedSame
<1> QED
  BY <1>1, <1>2, <1>3, <1>4, <1>5, <1>6 DEF u

LEMMA LastGrows ==
    ASSUME NEW t \in Seq(Entries), t # <<>>, Last(t).kind \in {"agent", "thinking"}, NEW n \in Nat,
           NEW u, u = WithLast(t, [Last(t) EXCEPT !.parts = Append(@, n)])
    PROVE  /\ u \in Seq(Entries)
           /\ Told(u) = Append(Told(t), n)
           /\ Tidy(t) => Tidy(u)
           /\ \A R : Carded(t, R) => Carded(u, R)
<1> DEFINE f == Front(t)
           g == [Last(t) EXCEPT !.parts = Append(@, n)]
<1>1. /\ f \in Seq(Entries) /\ t = Append(f, Last(t)) /\ Len(t) \in Nat \ {0}
      /\ Last(t) = t[Len(t)] /\ Last(t) \in Entries
  BY FrontLast
<1>2. g \in Entries
  BY <1>1, EntryTypes
<1>3. u = Append(f, g)
  BY DEF WithLast
<1>4. g.kind = Last(t).kind /\ g.parts = Append(Last(t).parts, n) /\ Last(t).parts \in Seq(Nat)
  BY <1>1 DEF Entries
<1>5. u \in Seq(Entries) /\ Len(u) = Len(t) /\ \A i \in 1 .. Len(t) - 1 : u[i] = t[i]
  <2>1. \A e \in Entries : /\ WithLast(t, e) \in Seq(Entries) /\ Len(WithLast(t, e)) = Len(t)
                           /\ \A i \in 1 .. Len(t) - 1 : WithLast(t, e)[i] = t[i]
    BY WithLastIs
  <2> QED
    BY <1>2, <2>1
<1>6. u[Len(t)] = g
  <2>1. \A e \in Entries : WithLast(t, e)[Len(t)] = e
    BY WithLastIs
  <2> QED
    BY <1>2, <2>1
<1> HIDE DEF f, g
<1>7. Told(u) = Append(Told(t), n)
  <2>1. Told(u) = Told(f) \o g.parts
    BY <1>1, <1>2, <1>3, ToldAppend
  <2>2. Told(t) = Told(f) \o Last(t).parts
    BY <1>1, ToldAppend
  <2>3. Told(f) \in Seq(Nat)
    BY <1>1, PartsType
  <2>4. \A p, q \in Seq(Nat) : p \o Append(q, n) = Append(p \o q, n)
    <3> TAKE p, q \in Seq(Nat)
    <3>1. /\ Append(q, n) \in Seq(Nat) /\ Len(Append(q, n)) = Len(q) + 1
          /\ \A i \in 1 .. Len(q) : Append(q, n)[i] = q[i]
          /\ Append(q, n)[Len(q) + 1] = n
      BY AppendProperties
    <3>2. /\ p \o q \in Seq(Nat) /\ Len(p \o q) = Len(p) + Len(q)
          /\ \A i \in 1 .. Len(p) + Len(q) : (p \o q)[i] = IF i <= Len(p) THEN p[i] ELSE q[i - Len(p)]
      BY ConcatProperties
    <3>3. /\ p \o Append(q, n) \in Seq(Nat) /\ Len(p \o Append(q, n)) = Len(p) + (Len(q) + 1)
          /\ \A i \in 1 .. Len(p) + (Len(q) + 1) :
                (p \o Append(q, n))[i] = IF i <= Len(p) THEN p[i] ELSE Append(q, n)[i - Len(p)]
      BY <3>1, ConcatProperties
    <3>4. /\ Append(p \o q, n) \in Seq(Nat) /\ Len(Append(p \o q, n)) = (Len(p) + Len(q)) + 1
          /\ \A i \in 1 .. Len(p) + Len(q) : Append(p \o q, n)[i] = (p \o q)[i]
          /\ Append(p \o q, n)[(Len(p) + Len(q)) + 1] = n
      BY <3>2, AppendProperties
    <3>5. Len(p) \in Nat /\ Len(q) \in Nat
      BY LenProperties
    <3>6. \A i \in 1 .. Len(p) + (Len(q) + 1) : (p \o Append(q, n))[i] = Append(p \o q, n)[i]
      <4> TAKE i \in 1 .. Len(p) + (Len(q) + 1)
      <4>1. CASE i <= Len(p)
        BY <3>2, <3>3, <3>4, <3>5, <4>1
      <4>2. CASE Len(p) < i /\ i <= Len(p) + Len(q)
        <5>1. i - Len(p) \in 1 .. Len(q) /\ i \in 1 .. Len(p) + Len(q) /\ ~(i <= Len(p))
          BY <3>5, <4>2
        <5> QED
          BY <3>1, <3>2, <3>3, <3>4, <5>1
      <4>3. CASE i = Len(p) + (Len(q) + 1)
        <5>1. i - Len(p) = Len(q) + 1 /\ ~(i <= Len(p)) /\ i = (Len(p) + Len(q)) + 1
          BY <3>5, <4>3
        <5> QED
          BY <3>1, <3>3, <3>4, <5>1
      <4> QED
        BY <3>5, <4>1, <4>2, <4>3
    <3>7. Len(p \o Append(q, n)) = Len(Append(p \o q, n))
      BY <3>3, <3>4, <3>5
    <3> QED
      BY <3>3, <3>4, <3>6, <3>7, SeqEqual
  <2> QED
    BY <1>4, <2>1, <2>2, <2>3, <2>4
<1>8. Tidy(t) => Tidy(u)
  BY <1>5 DEF Tidy
<1>9. ASSUME NEW R, Carded(t, R) PROVE Carded(u, R)
  <2>1. Len(t) <= Len(u) /\ \A i \in 1 .. Len(u) : ~(Len(t) < i)
    <3>1. \A m \in Nat : m <= m /\ \A i \in 1 .. m : ~(m < i)
      OBVIOUS
    <3>2. Len(t) \in Nat /\ Len(u) = Len(t)
      BY <1>1, <1>5
    <3> QED
      BY <3>1, <3>2
  <2>2. ASSUME NEW i \in 1 .. Len(t), t[i].kind = "card" \/ u[i].kind = "card" PROVE u[i] = t[i]
    <3>1. i # Len(t)
      BY <1>1, <1>4, <1>6, <2>2
    <3>2. i \in 1 .. Len(t) - 1
      BY <1>1, <3>1
    <3> QED
      BY <1>5, <3>2
  <2> QED
    BY <1>5, <1>9, <2>1, <2>2, CardedSame
<1> QED
  BY <1>5, <1>7, <1>8, <1>9

-----------------------------------------------------------------------------
(* What each event does to the transcript.                                  *)

LEMMA Spelled ==
    \A p \in Seq(Nat) : \A n \in Nat : p \o <<n>> = Append(p, n) /\ p \o <<>> = p
  BY AppendIsConcat, ConcatEmptySeq

LEMMA TextFolds ==
    ASSUME NEW t \in Seq(Entries), NEW n \in Nat
    PROVE  /\ AppendStream(t, n) \in Seq(Entries)
           /\ Told(AppendStream(t, n)) = Append(Told(t), n)
           /\ Tidy(t) => Tidy(AppendStream(t, n))
           /\ \A R : Carded(t, R) => Carded(AppendStream(t, n), R)
<1> DEFINE v == FinishThinking(t)
<1>1. Settles(t, v, {"thinking"}) /\ {"thinking"} \in SUBSET {"agent", "thinking"}
  BY ThinkingSettles
<1>2. /\ v \in Seq(Entries) /\ Told(v) = Told(t) /\ Told(t) \in Seq(Nat)
      /\ Tidy(t) => Tidy(v)
      /\ \A R : Carded(t, R) => Carded(v, R)
  BY <1>1, SettlesKeeps, PartsType
<1>3. CASE LastIs(v, "agent")
  <2> DEFINE u == WithLast(v, [Last(v) EXCEPT !.parts = Append(@, n)])
  <2>1. v # <<>> /\ Last(v).kind \in {"agent", "thinking"} /\ AppendStream(t, n) = u
    BY <1>3 DEF LastIs, AppendStream
  <2>2. /\ u \in Seq(Entries) /\ Told(u) = Append(Told(v), n)
        /\ Tidy(v) => Tidy(u)
        /\ \A R : Carded(v, R) => Carded(u, R)
    <3> HIDE DEF v
    <3> QED
      BY <1>2, <2>1, LastGrows, ZenonT(60)
  <2> HIDE DEF u, v
  <2> QED
    BY <1>2, <2>1, <2>2
<1>4. CASE ~LastIs(v, "agent")
  <2> DEFINE e == Shown("agent", <<n>>, TRUE)
  <2>1. AppendStream(t, n) = Append(v, e) /\ e \in Entries /\ e.parts = <<n>> /\ e.kind = "agent"
    BY <1>4, EntryTypes DEF AppendStream, Shown
  <2>2. ~LastIs(v, "thinking")
    <3> SUFFICES ASSUME LastIs(v, "thinking") PROVE FALSE
      OBVIOUS
    <3>1. v # <<>> /\ Last(v).kind = "thinking" /\ Last(v).open
      BY DEF LastIs
    <3>2. Last(v) = v[Len(v)] /\ Len(v) \in 1 .. Len(v)
      BY <1>2, <3>1, LastEntry
    <3>3. Len(v) = Len(t) /\ Len(t) \in 1 .. Len(t) /\ t[Len(t)] \in Entries
      BY <1>1, <3>2, ElementOfSeq DEF Settles
    <3>4. v[Len(t)] = IF t[Len(t)].kind \in {"thinking"} THEN [t[Len(t)] EXCEPT !.open = FALSE] ELSE t[Len(t)]
      BY <1>1, <3>3 DEF Settles
    <3> HIDE DEF v
    <3> QED
      BY <3>1, <3>2, <3>3, <3>4 DEF Entries
  <2>3. Tidy(v) => Closed(v)
    <3>1. ~Streams(v)
      BY <1>4, <2>2 DEF Streams
    <3> HIDE DEF v, e
    <3> QED
      BY <1>2, <2>1, <3>1, AppendedEntry
  <2> HIDE DEF v, e
  <2>4. /\ Append(v, e) \in Seq(Entries) /\ Told(Append(v, e)) = Told(v) \o e.parts
        /\ Closed(v) => Tidy(Append(v, e))
        /\ \A R : Carded(v, R) => Carded(Append(v, e), R)
    BY <1>2, <2>1, AppendedEntry
  <2> QED
    BY <1>2, <2>1, <2>3, <2>4, Spelled
<1> QED
  BY <1>3, <1>4

LEMMA ReasoningFolds ==
    ASSUME NEW t \in Seq(Entries), NEW n \in Nat
    PROVE  /\ AppendReasoning(t, n) \in Seq(Entries)
           /\ Told(AppendReasoning(t, n)) = Append(Told(t), n)
           /\ Tidy(t) /\ ~LastIs(t, "agent") => Tidy(AppendReasoning(t, n))
           /\ \A R : Carded(t, R) => Carded(AppendReasoning(t, n), R)
<1>0. Told(t) \in Seq(Nat)
  BY PartsType
<1>1. CASE LastIs(t, "thinking")
  <2> DEFINE u == WithLast(t, [Last(t) EXCEPT !.parts = Append(@, n)])
  <2>1. t # <<>> /\ Last(t).kind \in {"agent", "thinking"} /\ AppendReasoning(t, n) = u
    BY <1>1 DEF LastIs, AppendReasoning
  <2>2. /\ u \in Seq(Entries) /\ Told(u) = Append(Told(t), n)
        /\ Tidy(t) => Tidy(u)
        /\ \A R : Carded(t, R) => Carded(u, R)
    BY <2>1, LastGrows
  <2> HIDE DEF u
  <2> QED
    BY <2>1, <2>2
<1>2. CASE ~LastIs(t, "thinking")
  <2> DEFINE e == Shown("thinking", <<n>>, TRUE)
  <2>1. AppendReasoning(t, n) = Append(t, e) /\ e \in Entries /\ e.parts = <<n>> /\ e.kind = "thinking"
    BY <1>2, EntryTypes DEF AppendReasoning, Shown
  <2>2. ~LastIs(t, "agent") => ~Streams(t)
    BY <1>2 DEF Streams
  <2> HIDE DEF e
  <2>3. /\ Append(t, e) \in Seq(Entries) /\ Told(Append(t, e)) = Told(t) \o e.parts
        /\ Closed(t) => Tidy(Append(t, e))
        /\ ~Streams(t) /\ Tidy(t) => Closed(t)
        /\ \A R : Carded(t, R) => Carded(Append(t, e), R)
    BY <2>1, AppendedEntry
  <2> QED
    BY <1>0, <2>1, <2>2, <2>3, Spelled
<1> QED
  BY <1>1, <1>2

\* started: the calls' cards are in the order of their numbers.
LEMMA StartedFolds ==
    ASSUME NEW t \in Seq(Entries), NEW n \in Nat
    PROVE  LET u == Append(FinishStream(t), Shown("card", <<n>>, TRUE))
           IN  /\ u \in Seq(Entries)
               /\ Told(u) = Append(Told(t), n)
               /\ Tidy(t) => Closed(u)
               /\ \A R \in SUBSET Nat :
                     (\A y \in R : y < n) /\ Carded(t, R) => Carded(u, R \union {n})
<1> DEFINE v == FinishStream(t)
           e == Shown("card", <<n>>, TRUE)
           u == Append(v, e)
<1>1. /\ v \in Seq(Entries) /\ Len(v) = Len(t) /\ Told(v) = Told(t) /\ Told(t) \in Seq(Nat)
      /\ Tidy(t) => Closed(v)
      /\ \A R : Carded(t, R) => Carded(v, R)
  BY FinishedStream
<1>2. e \in Entries /\ e.parts = <<n>> /\ e.kind = "card" /\ e.open
  BY EntryTypes DEF Shown
<1> HIDE DEF v, e
<1>3. /\ u \in Seq(Entries) /\ Len(u) = Len(v) + 1 /\ Len(v) \in Nat
      /\ \A i \in 1 .. Len(v) : u[i] = v[i]
      /\ u[Len(v) + 1] = e
  BY <1>1, <1>2, AppendProperties, LenProperties
<1>4. Told(u) = Append(Told(t), n)
  <2>1. Told(u) = Told(v) \o e.parts
    BY <1>1, <1>2, ToldAppend
  <2> HIDE DEF u
  <2> QED
    BY <1>1, <1>2, <2>1, Spelled
<1> HIDE DEF u
<1>5. Tidy(t) => Closed(u)
  <2>1. \A i \in 1 .. Len(u) : i \in 1 .. Len(v) \/ i = Len(v) + 1
    BY <1>3
  <2> QED
    BY <1>1, <1>2, <1>3, <2>1 DEF Closed
<1>6. ASSUME NEW R \in SUBSET Nat, \A y \in R : y < n, Carded(v, R)
      PROVE  Carded(u, R \union {n})
  <2> DEFINE m == Len(v) + 1
  <2>1. RunningCards(u) = RunningCards(v) \union {m} /\ m \notin RunningCards(v)
    <3>1. \A i : i \in 1 .. Len(u) <=> i \in 1 .. Len(v) \/ i = m
      BY <1>3
    <3>2. ~(m \in 1 .. Len(v))
      BY <1>3
    <3> QED
      BY <1>2, <1>3, <3>1, <3>2 DEF RunningCards
  <2>2. \A i \in RunningCards(v) : i \in 1 .. Len(v) /\ u[i] = v[i] /\ i < m
    BY <1>3 DEF RunningCards
  <2>3. u[m].parts = <<n>> /\ u[m].kind = "card" /\ u[m].open
    BY <1>2, <1>3
  <2>4. \A i \in RunningCards(v) : \E x \in R : v[i].parts = <<x>>
    BY <1>6 DEF Carded
  <2>5. \A i \in RunningCards(u) : \E x \in R \union {n} : u[i].parts = <<x>>
    BY <2>1, <2>2, <2>3, <2>4
  <2>6. \A x \in R \union {n} : \E i \in RunningCards(u) : u[i].parts = <<x>>
    BY <1>6, <2>1, <2>2, <2>3 DEF Carded
  <2>7. ASSUME NEW i \in RunningCards(u), NEW j \in RunningCards(u), i < j
        PROVE  u[i].parts[1] < u[j].parts[1]
    <3>1. i \in RunningCards(v)
      <4> SUFFICES ASSUME i = m PROVE FALSE
        BY <2>1
      <4>1. j \in 1 .. Len(u)
        BY DEF RunningCards
      <4> QED
        BY <1>3, <2>7, <4>1
    <3>2. CASE j \in RunningCards(v)
      BY <1>6, <2>2, <2>7, <3>1, <3>2 DEF Carded
    <3>3. CASE j = m
      <4>1. PICK x \in R : v[i].parts = <<x>>
        BY <2>4, <3>1
      <4>2. u[i].parts[1] = x /\ x < n
        BY <1>6, <2>2, <3>1, <4>1
      <4>3. u[j].parts[1] = n
        BY <2>3, <3>3
      <4> QED
        BY <4>2, <4>3
    <3> QED
      BY <2>1, <3>2, <3>3
  <2>8. \A i \in 1 .. Len(u) : u[i].kind = "card" /\ ~u[i].open => u[i].parts = <<u[i].result>>
    <3>1. \A i \in 1 .. Len(u) : i \in 1 .. Len(v) \/ i = m
      BY <1>3
    <3> QED
      BY <1>3, <1>6, <2>3, <3>1 DEF Carded
  <2> HIDE DEF m
  <2> QED
    BY <2>5, <2>6, <2>7, <2>8 DEF Carded
<1>7. \A R \in SUBSET Nat : (\A y \in R : y < n) /\ Carded(t, R) => Carded(u, R \union {n})
  BY <1>1, <1>6
<1> QED
  BY <1>3, <1>4, <1>5, <1>7 DEF u, v, e

\* completed: the oldest running card is the call's own.
LEMMA CompletedFolds ==
    ASSUME NEW t \in Seq(Entries), NEW n \in Nat
    PROVE  LET u == Complete(FinishStream(t), n)
           IN  /\ u \in Seq(Entries)
               /\ Told(u) = Told(t)
               /\ Tidy(t) => Closed(u)
               /\ \A R \in SUBSET Nat :
                     n \in R /\ (\A y \in R : n <= y) /\ Carded(t, R) => Carded(u, R \ {n})
<1> DEFINE v == FinishStream(t)
           u == Complete(v, n)
           cards == RunningCards(v)
           oldest == CHOOSE i \in cards : \A j \in cards : i <= j
<1>1. /\ v \in Seq(Entries) /\ Len(v) = Len(t) /\ Told(v) = Told(t) /\ Told(t) \in Seq(Nat)
      /\ Tidy(t) => Closed(v)
      /\ \A R : Carded(t, R) => Carded(v, R)
  BY FinishedStream
<1> HIDE DEF v
<1>2. Len(v) \in Nat /\ \A i \in 1 .. Len(v) : v[i] \in Entries
  BY <1>1, LenProperties, ElementOfSeq
<1>3. CASE cards = {}
  <2> DEFINE e == [Shown("card", <<>>, FALSE) EXCEPT !.result = n]
  <2>1. e \in Entries /\ e.parts = <<>> /\ e.kind = "card" /\ ~e.open
    BY EntryTypes DEF Shown
  <2>2. u = Append(v, e)
    BY <1>3 DEF Complete
  <2> HIDE DEF e, u
  <2>3. /\ u \in Seq(Entries) /\ Len(u) = Len(v) + 1
        /\ \A i \in 1 .. Len(v) : u[i] = v[i]
        /\ u[Len(v) + 1] = e
    BY <1>1, <2>1, <2>2, AppendProperties
  <2>4. Told(u) = Told(t)
    BY <1>1, <2>1, <2>2, ToldAppend, Spelled, ZenonT(60)
  <2>5. Tidy(t) => Closed(u)
    <3>1. \A i \in 1 .. Len(u) : i \in 1 .. Len(v) \/ i = Len(v) + 1
      BY <1>2, <2>3
    <3> QED
      BY <1>1, <2>1, <2>3, <3>1 DEF Closed
  <2>6. ASSUME NEW R \in SUBSET Nat, n \in R, Carded(v, R) PROVE FALSE
    BY <1>3, <2>6 DEF Carded
  <2> QED
    BY <1>1, <2>3, <2>4, <2>5, <2>6 DEF u, v
<1>4. CASE cards # {}
  <2>1. oldest \in cards /\ \A j \in cards : oldest <= j
    <3>1. cards \in SUBSET Nat
      BY DEF RunningCards
    <3>2. \E i \in cards : \A j \in cards : i <= j
      <4> HIDE DEF cards
      <4> QED
        BY <1>4, <3>1, Least
    <3> QED
      BY <3>2
  <2>2. u = [v EXCEPT ![oldest].open = FALSE, ![oldest].result = n]
    BY <1>4 DEF Complete
  <2> HIDE DEF oldest
  <2>3. oldest \in 1 .. Len(v) /\ v[oldest].kind = "card" /\ v[oldest].open /\ v[oldest] \in Entries
    BY <1>2, <2>1 DEF RunningCards
  <2> DEFINE e == [v[oldest] EXCEPT !.open = FALSE, !.result = n]
  <2>4. e \in Entries /\ e.kind = "card" /\ e.parts = v[oldest].parts /\ ~e.open /\ e.result = n
    BY <2>3, EntryTypes, ZenonT(60) DEF Entries
  <2>5. u = [v EXCEPT ![oldest] = e]
    BY <1>1, <2>2, <2>3, LenProperties
  <2> HIDE DEF e, u
  <2>6. /\ u \in Seq(Entries) /\ Len(u) = Len(v)
        /\ \A i \in 1 .. Len(v) : u[i] = IF i = oldest THEN e ELSE v[i]
    BY <1>1, <2>3, <2>4, <2>5, ExceptSeq
  <2>7. Told(u) = Told(t)
    <3>1. \A i \in 1 .. Len(v) : u[i].parts = v[i].parts
      BY <2>4, <2>6
    <3> QED
      BY <1>1, <2>6, <3>1, ToldSame
  <2>8. Tidy(t) => Closed(u)
    BY <1>1, <2>4, <2>6 DEF Closed
  <2>9. ASSUME NEW R \in SUBSET Nat, n \in R, \A y \in R : n <= y, Carded(v, R)
        PROVE  Carded(u, R \ {n})
    <3>1. v[oldest].parts = <<n>>
      <4>1. PICK x \in R : v[oldest].parts = <<x>>
        BY <2>1, <2>9 DEF Carded
      <4>2. PICK i \in cards : v[i].parts = <<n>>
        BY <2>9 DEF Carded
      <4>3. i = oldest \/ oldest < i
        <5>1. i \in Nat /\ oldest \in Nat
          BY <1>2, <2>1, <4>2 DEF RunningCards
        <5> QED
          BY <2>1, <4>2, <5>1
      <4>4. CASE oldest < i
        <5>1. v[oldest].parts[1] < v[i].parts[1]
          BY <2>1, <2>9, <4>2, <4>4 DEF Carded
        <5>2. <<x>>[1] = x /\ <<n>>[1] = n
          OBVIOUS
        <5>3. x < n
          BY <4>1, <4>2, <5>1, <5>2
        <5>4. n <= x
          BY <2>9, <4>1
        <5> QED
          BY <2>9, <5>3, <5>4
      <4> QED
        BY <4>2, <4>3, <4>4
    <3>2. RunningCards(u) = cards \ {oldest}
      BY <2>3, <2>4, <2>6 DEF RunningCards
    <3>3. \A i \in RunningCards(u) : i \in cards /\ i # oldest /\ i \in 1 .. Len(v) /\ u[i] = v[i]
      BY <2>6, <3>2 DEF RunningCards
    <3>4. \A i, j \in cards : i # j => v[i].parts[1] # v[j].parts[1]
      <4> TAKE i, j \in cards
      <4> HAVE i # j
      <4>1. i \in Nat /\ j \in Nat
        BY <1>2 DEF RunningCards
      <4>2. i < j \/ j < i
        BY <4>1
      <4>3. \A k \in cards : v[k].parts[1] \in Nat
        <5>1. \A k \in cards : \E x \in R : v[k].parts = <<x>>
          BY <2>9 DEF Carded
        <5> QED
          BY <5>1
      <4> QED
        BY <2>9, <4>2, <4>3 DEF Carded
    <3>5. ASSUME NEW i \in RunningCards(u) PROVE \E x \in R \ {n} : u[i].parts = <<x>>
      <4>1. PICK x \in R : v[i].parts = <<x>>
        BY <2>9, <3>3 DEF Carded
      <4>2. v[i].parts[1] # v[oldest].parts[1]
        BY <2>1, <3>3, <3>4
      <4>3. x # n
        BY <3>1, <4>1, <4>2
      <4> QED
        BY <3>3, <4>1, <4>3
    <3>6. ASSUME NEW x \in R \ {n} PROVE \E i \in RunningCards(u) : u[i].parts = <<x>>
      <4>1. PICK i \in cards : v[i].parts = <<x>>
        BY <2>9 DEF Carded
      <4>2. i # oldest
        BY <3>1, <4>1
      <4> QED
        BY <3>2, <3>3, <4>1, <4>2
    <3>7. \A i, j \in RunningCards(u) : i < j => u[i].parts[1] < u[j].parts[1]
      BY <2>9, <3>3 DEF Carded
    <3>8. \A i \in 1 .. Len(u) : u[i].kind = "card" /\ ~u[i].open => u[i].parts = <<u[i].result>>
      <4> TAKE i \in 1 .. Len(u)
      <4>1. CASE i = oldest
        BY <2>4, <2>6, <3>1, <4>1
      <4>2. CASE i # oldest
        BY <2>6, <2>9, <4>2 DEF Carded
      <4> QED
        BY <4>1, <4>2
    <3> QED
      BY <3>5, <3>6, <3>7, <3>8 DEF Carded
  <2> QED
    BY <1>1, <2>6, <2>7, <2>8, <2>9 DEF u, v
<1> QED
  BY <1>3, <1>4

\* A line of the UI's own or of the user's, after what is closed already.
LEMMA LineFolds ==
    ASSUME NEW t \in Seq(Entries), NEW e \in Entries, e.kind \in {"user", "note"}
    PROVE  /\ Append(t, e) \in Seq(Entries)
           /\ Told(Append(t, e)) = Told(t) \o e.parts
           /\ Closed(t) => Tidy(Append(t, e))
           /\ ~Streams(t) /\ Tidy(t) => Closed(t)
           /\ ~Streams(Append(t, e))
           /\ \A R : Carded(t, R) => Carded(Append(t, e), R)
<1>1. ~e.open /\ e.kind # "card" /\ e.kind \notin {"agent", "thinking"}
  BY DEF Entries
<1> QED
  BY <1>1, AppendedEntry

\* A closed transcript does not stream.
LEMMA ClosedIs ==
    ASSUME NEW t \in Seq(Entries), Closed(t)
    PROVE  ~Streams(t) /\ Tidy(t)
<1>1. Len(t) \in Nat
  BY LenProperties
<1>2. Tidy(t)
  BY <1>1 DEF Tidy, Closed
<1>3. ~Streams(t)
  <2> SUFFICES ASSUME Streams(t) PROVE FALSE
    OBVIOUS
  <2>1. t # <<>> /\ Last(t).kind # "card" /\ Last(t).open
    BY DEF Streams, LastIs
  <2> QED
    BY <2>1, LastEntry DEF Closed
<1> QED
  BY <1>2, <1>3

\* An event with the transcript it comes to, and what it leaves.
LEMMA FoldKeeps ==
    ASSUME NEW t \in Seq(Entries), NEW e \in Events, NEW s \in States, NEW b,
           Fine(s, e), ~b => Tidy(t), ~b /\ Streams(t) => s.open, e.kind # "compacted"
    PROVE  LET u == Fold(t, e)
               c == b \/ (e.kind = "reasoning" /\ LastIs(t, "agent"))
           IN  /\ u \in Seq(Entries)
               /\ Told(u) = IF e.kind \in {"text", "reasoning", "started", "retrying"}
                            THEN Append(Told(t), e.id) ELSE Told(t)
               /\ ~c => Tidy(u)
               /\ ~c /\ Streams(u) => After(s, e).open
               /\ Carded(t, s.cards) => Carded(u, After(s, e).cards)
<1> DEFINE u == Fold(t, e)
           c == b \/ (e.kind = "reasoning" /\ LastIs(t, "agent"))
<1>0. /\ e.kind \in Numbers => e.id \in Nat
      /\ e.kind \in Numbers \union Plains
      /\ s.cards \in SUBSET Nat
      /\ Told(t) \in Seq(Nat)
  <2>1. Numbers \cap Plains = {}
    BY DEF Numbers, Plains
  <2> QED
    BY <2>1, PartsType DEF Events, States
<1>1. CASE e.kind = "text"
  <2>1. e.id \in Nat /\ u = AppendStream(t, e.id)
    BY <1>0, <1>1 DEF Numbers, Fold
  <2>2. After(s, e) = [open |-> TRUE, cards |-> s.cards]
    BY <1>1, AfterIs DEF Chunks
  <2>3. /\ AppendStream(t, e.id) \in Seq(Entries)
        /\ Told(AppendStream(t, e.id)) = Append(Told(t), e.id)
        /\ Tidy(t) => Tidy(AppendStream(t, e.id))
        /\ Carded(t, s.cards) => Carded(AppendStream(t, e.id), s.cards)
    BY <2>1, TextFolds
  <2> HIDE DEF u
  <2> QED
    BY <1>1, <2>1, <2>2, <2>3 DEF u
<1>2. CASE e.kind = "reasoning"
  <2>1. e.id \in Nat /\ u = AppendReasoning(t, e.id)
    BY <1>0, <1>2 DEF Numbers, Fold
  <2>2. After(s, e) = [open |-> TRUE, cards |-> s.cards]
    BY <1>2, AfterIs DEF Chunks
  <2>3. /\ AppendReasoning(t, e.id) \in Seq(Entries)
        /\ Told(AppendReasoning(t, e.id)) = Append(Told(t), e.id)
        /\ Tidy(t) /\ ~LastIs(t, "agent") => Tidy(AppendReasoning(t, e.id))
        /\ Carded(t, s.cards) => Carded(AppendReasoning(t, e.id), s.cards)
    BY <2>1, ReasoningFolds
  <2> HIDE DEF u
  <2> QED
    BY <1>2, <2>1, <2>2, <2>3 DEF u
<1>3. CASE e.kind = "started"
  <2>1. e.id \in Nat /\ u = Append(FinishStream(t), Shown("card", <<e.id>>, TRUE))
    BY <1>0, <1>3 DEF Numbers, Fold
  <2>2. After(s, e) = [open |-> FALSE, cards |-> s.cards \union {e.id}]
    BY <1>3, AfterIs
  <2>3. \A y \in s.cards : y < e.id
    BY <1>3 DEF Fine
  <2>4. /\ u \in Seq(Entries)
        /\ Told(u) = Append(Told(t), e.id)
        /\ Tidy(t) => Closed(u)
        /\ Carded(t, s.cards) => Carded(u, s.cards \union {e.id})
    <3>1. LET w == Append(FinishStream(t), Shown("card", <<e.id>>, TRUE))
          IN  /\ w \in Seq(Entries)
              /\ Told(w) = Append(Told(t), e.id)
              /\ Tidy(t) => Closed(w)
              /\ \A R \in SUBSET Nat :
                    (\A y \in R : y < e.id) /\ Carded(t, R) => Carded(w, R \union {e.id})
      BY <2>1, StartedFolds
    <3> HIDE DEF u
    <3> QED
      BY <1>0, <2>1, <2>3, <3>1
  <2> HIDE DEF u
  <2>5. ~b => Tidy(u) /\ ~Streams(u)
    BY <2>4, ClosedIs
  <2> QED
    BY <1>3, <2>2, <2>4, <2>5 DEF u
<1>4. CASE e.kind = "completed"
  <2>1. e.id \in Nat /\ u = Complete(FinishStream(t), e.id)
    BY <1>0, <1>4 DEF Numbers, Fold
  <2>2. After(s, e) = [open |-> FALSE, cards |-> s.cards \ {e.id}]
    BY <1>4, AfterIs
  <2>3. e.id \in s.cards /\ \A y \in s.cards : e.id <= y
    BY <1>4 DEF Fine
  <2>4. /\ u \in Seq(Entries)
        /\ Told(u) = Told(t)
        /\ Tidy(t) => Closed(u)
        /\ Carded(t, s.cards) => Carded(u, s.cards \ {e.id})
    <3>1. LET w == Complete(FinishStream(t), e.id)
          IN  /\ w \in Seq(Entries)
              /\ Told(w) = Told(t)
              /\ Tidy(t) => Closed(w)
              /\ \A R \in SUBSET Nat :
                    e.id \in R /\ (\A y \in R : e.id <= y) /\ Carded(t, R) => Carded(w, R \ {e.id})
      BY <2>1, CompletedFolds
    <3> HIDE DEF u
    <3> QED
      BY <1>0, <2>1, <2>3, <3>1
  <2> HIDE DEF u
  <2>5. ~b => Tidy(u) /\ ~Streams(u)
    BY <2>4, ClosedIs
  <2> QED
    BY <1>4, <2>2, <2>4, <2>5 DEF u
<1>5. CASE e.kind = "retrying"
  <2> DEFINE n == Shown("note", <<e.id>>, FALSE)
  <2>1. /\ e.id \in Nat /\ n \in Entries /\ n.kind = "note" /\ n.parts = <<e.id>>
        /\ u = Append(t, n)
    BY <1>0, <1>5, EntryTypes DEF Numbers, Fold, Shown
  <2>2. After(s, e) = [open |-> FALSE, cards |-> s.cards]
    BY <1>5, AfterIs DEF Chunks
  <2>3. ~s.open
    BY <1>5 DEF Fine, Chunks, Closers
  <2> HIDE DEF n
  <2>4. /\ Append(t, n) \in Seq(Entries)
        /\ Told(Append(t, n)) = Told(t) \o n.parts
        /\ Closed(t) => Tidy(Append(t, n))
        /\ ~Streams(t) /\ Tidy(t) => Closed(t)
        /\ ~Streams(Append(t, n))
        /\ \A R : Carded(t, R) => Carded(Append(t, n), R)
    BY <2>1, LineFolds
  <2>5. Told(t) \o n.parts = Append(Told(t), e.id)
    BY <1>0, <2>1, Spelled
  <2> HIDE DEF u
  <2> QED
    BY <1>5, <2>1, <2>2, <2>3, <2>4, <2>5 DEF u
<1>6. CASE e.kind \in {"marker", "error", "interrupted"}
  <2> DEFINE v == FinishStream(t)
  <2>1. u = Append(v, Note) /\ Note \in Entries /\ Note.kind = "note" /\ Note.parts = <<>>
    BY <1>6, EntryTypes DEF Fold, Note, Shown
  <2>2. /\ v \in Seq(Entries) /\ Told(v) = Told(t)
        /\ Tidy(t) => Closed(v)
        /\ \A R : Carded(t, R) => Carded(v, R)
    BY FinishedStream
  <2> HIDE DEF u, v
  <2>3. /\ Append(v, Note) \in Seq(Entries)
        /\ Told(Append(v, Note)) = Told(v) \o Note.parts
        /\ Closed(v) => Tidy(Append(v, Note))
        /\ ~Streams(Append(v, Note))
        /\ \A R : Carded(v, R) => Carded(Append(v, Note), R)
    BY <2>1, <2>2, LineFolds
  <2>4. After(s, e) = [open |-> FALSE, cards |-> s.cards]
    BY <1>6, AfterIs DEF Chunks
  <2>5. Told(v) \o Note.parts = Told(t)
    BY <1>0, <2>1, <2>2, Spelled
  <2> HIDE DEF u
  <2> QED
    BY <1>6, <2>1, <2>2, <2>3, <2>4, <2>5 DEF u
<1>7. CASE e.kind = "done"
  <2>1. u = FinishStream(t)
    BY <1>7 DEF Fold
  <2>2. /\ u \in Seq(Entries) /\ Told(u) = Told(t)
        /\ Tidy(t) => Closed(u)
        /\ \A R : Carded(t, R) => Carded(u, R)
    BY <2>1, FinishedStream
  <2>3. After(s, e) = [open |-> FALSE, cards |-> s.cards]
    BY <1>7, AfterIs DEF Chunks
  <2> HIDE DEF u
  <2>4. ~b => Tidy(u) /\ ~Streams(u)
    <3> SUFFICES ASSUME ~b PROVE Tidy(u) /\ ~Streams(u)
      OBVIOUS
    <3>1. Closed(u) /\ u \in Seq(Entries)
      BY <2>2
    <3> QED
      BY <3>1, ClosedIs
  <2> QED
    BY <1>7, <2>2, <2>3, <2>4 DEF u
<1>8. CASE e.kind \in {"tasks", "permission", "plan"}
  <2>1. u = t
    BY <1>8 DEF Fold
  <2>2. After(s, e) = [open |-> FALSE, cards |-> s.cards]
    BY <1>8, AfterIs DEF Chunks
  <2>3. ~s.open
    BY <1>8 DEF Fine, Chunks, Closers
  <2> HIDE DEF u
  <2> QED
    BY <1>8, <2>1, <2>2, <2>3 DEF u
<1> QED
  BY <1>0, <1>1, <1>2, <1>3, <1>4, <1>5, <1>6, <1>7, <1>8 DEF Numbers, Plains

-----------------------------------------------------------------------------
(* What the user and the UI do to the transcript.                           *)

LEMMA NothingChanges ==
    ASSUME IInv, UNCHANGED <<transcript, events, agent, serial, heard, running, broken>>
    PROVE  IInv'
  BY DEF IInv, Types, Coming

LEMMA PushKeeps ==
    ASSUME IInv, NEW e \in Entries, e.kind \in {"user", "note"}, e.parts = <<>>,
           Push(e), UNCHANGED <<events, agent, serial>>
    PROVE  IInv'
<1>1. /\ transcript \in Seq(Entries) /\ events \in Seq(Events) /\ heard \in Seq(Nat)
      /\ broken \in [stream : BOOLEAN, cards : BOOLEAN]
      /\ Told(transcript) = heard
  BY DEF IInv, Types, Told
<1>2. /\ transcript' = Append(transcript, e)
      /\ broken' = [broken EXCEPT !.stream = @ \/ Streams(transcript)]
      /\ heard' = heard /\ running' = running
  BY DEF Push, Streams
<1>3. /\ Append(transcript, e) \in Seq(Entries)
      /\ Told(Append(transcript, e)) = Told(transcript) \o e.parts
      /\ Closed(transcript) => Tidy(Append(transcript, e))
      /\ ~Streams(transcript) /\ Tidy(transcript) => Closed(transcript)
      /\ ~Streams(Append(transcript, e))
      /\ \A R : Carded(transcript, R) => Carded(Append(transcript, e), R)
  BY <1>1, LineFolds
<1>4. broken'.stream = (broken.stream \/ Streams(transcript)) /\ broken'.cards = broken.cards
  BY <1>1, <1>2
<1>5. broken' \in [stream : BOOLEAN, cards : BOOLEAN]
  <2>1. (broken.stream \/ Streams(transcript)) \in BOOLEAN
    OBVIOUS
  <2> QED
    BY <1>1, <1>2, <2>1
<1>6. Types'
  BY <1>2, <1>3, <1>5 DEF IInv, Types
<1>7. FlattenSeq(Parts(transcript')) = heard'
  BY <1>1, <1>2, <1>3, Spelled DEF Told
<1>8. ~broken'.stream => Tidy(transcript')
  BY <1>2, <1>3, <1>4 DEF IInv
<1>9. ~broken'.cards => Carded(transcript', running')
  BY <1>2, <1>3, <1>4 DEF IInv
<1>10. Coming'
  BY <1>2, <1>3 DEF IInv, Coming
<1> QED
  BY <1>6, <1>7, <1>8, <1>9, <1>10 DEF IInv

\* What a cleared transcript is left with.
LEMMA ClearedIs ==
    ASSUME NEW t \in {<<>>, <<Note>>}
    PROVE  /\ t \in Seq(Entries) /\ Closed(t)
           /\ FlattenSeq(Parts(t)) = <<>>
           /\ Carded(t, {})
<1>1. Note \in Entries /\ Note.kind = "note" /\ Note.parts = <<>> /\ ~Note.open
  BY EntryTypes DEF Note, Shown
<1>2. <<>> \in Seq(Entries) /\ Append(<<>>, Note) = <<Note>>
  OBVIOUS
<1>3. Told(<<>>) = <<>>
  <2>1. Parts(<<>>) = <<>>
    BY DEF Parts
  <2> QED
    BY <2>1, FlattenEmpty DEF Told
<1>4. Told(<<Note>>) = <<>>
  <2>1. Told(Append(<<>>, Note)) = Told(<<>>) \o Note.parts
    BY <1>1, <1>2, ToldAppend
  <2>2. <<>> \o <<>> = <<>>
    OBVIOUS
  <2> QED
    BY <1>1, <1>2, <1>3, <2>1, <2>2
<1>5. t \in Seq(Entries)
  <2>1. Append(<<>>, Note) \in Seq(Entries)
    BY <1>1, <1>2, AppendProperties
  <2> QED
    BY <1>2, <2>1
<1>6. \A i \in 1 .. Len(t) : t[i] = Note
  OBVIOUS
<1>7. Closed(t)
  BY <1>1, <1>6 DEF Closed
<1>8. Carded(t, {})
  <2>1. RunningCards(t) = {}
    BY <1>1, <1>6 DEF RunningCards
  <2> QED
    BY <1>1, <1>6, <2>1 DEF Carded
<1> QED
  BY <1>3, <1>4, <1>5, <1>7, <1>8 DEF Told

LEMMA ClearKeeps ==
    ASSUME IInv, NEW t \in {<<>>, <<Note>>}, ClearTranscript(t),
           UNCHANGED <<running, agent, serial>>,
           events' = events \/ (events # <<>> /\ Head(events).kind = "compacted" /\ events' = Tail(events))
    PROVE  IInv'
<1>1. /\ transcript' = t /\ heard' = <<>> /\ running' = running
      /\ broken' = [stream |-> FALSE, cards |-> running # {}]
  BY DEF ClearTranscript
<1>2. t \in Seq(Entries) /\ Closed(t) /\ FlattenSeq(Parts(t)) = <<>> /\ Carded(t, {})
  BY ClearedIs
<1>3. broken'.stream = FALSE /\ broken'.cards = (running # {})
  BY <1>1
<1>4. Tidy(t) /\ ~Streams(t)
  BY <1>2, ClosedIs
<1>5. Types'
  <2>1. heard' \in Seq(Nat)
    BY <1>1, EmptySeq
  <2>2. broken' \in [stream : BOOLEAN, cards : BOOLEAN]
    BY <1>1
  <2>3. events' \in Seq(Events)
    BY HeadTailProperties, ZenonT(60) DEF IInv, Types
  <2> QED
    BY <1>1, <1>2, <2>1, <2>2, <2>3 DEF IInv, Types
<1>6. ~broken'.cards => Carded(transcript', running')
  BY <1>1, <1>2, <1>3
<1>7. Coming'
  <2>1. PICK s \in States, u \in States :
           s.cards = running /\ Leads(s, events, u) /\ Ends(u, agent)
    BY DEF IInv, Coming
  <2>2. CASE events' = events
    BY <1>1, <1>4, <2>1, <2>2 DEF IInv, Coming
  <2>3. CASE events # <<>> /\ Head(events).kind = "compacted" /\ events' = Tail(events)
    <3>1. events \in Seq(Events) /\ Head(events) \in Events
      BY <2>3, HeadTailProperties DEF IInv, Types
    <3>2. Leads(After(s, Head(events)), Tail(events), u)
      BY <2>1, <2>3, <3>1, LeadsOn
    <3>3. After(s, Head(events)).cards = s.cards /\ After(s, Head(events)) \in States
      <4>1. Head(events).kind \notin Chunks \union {"started", "completed"}
        BY <2>3 DEF Chunks
      <4>2. After(s, Head(events)) = [open |-> FALSE, cards |-> s.cards]
        BY <4>1, AfterIs
      <4> QED
        BY <3>1, <4>2, AfterType
    <3> QED
      BY <1>1, <1>4, <2>1, <2>3, <3>2, <3>3 DEF IInv, Coming
  <2> QED
    BY <2>2, <2>3
<1> QED
  BY <1>1, <1>2, <1>3, <1>4, <1>5, <1>6, <1>7 DEF IInv

LEMMA IdleIs ==
    /\ Idle \in Agents /\ Idle.at = "idle" /\ Idle.started = <<>>
    /\ InOrder(<<>>)
<1>1. <<>> \in Seq(Calls)
  BY EmptySeq
<1> QED
  BY <1>1 DEF Idle, Agents, InOrder

LEMMA SpawnKeeps ==
    ASSUME IInv, SpawnSession, UNCHANGED serial
    PROVE  IInv'
<1>1. /\ transcript' = <<>> /\ heard' = <<>> /\ running' = {} /\ events' = <<>> /\ agent' = Idle
      /\ broken' = [stream |-> FALSE, cards |-> running # {}]
  BY DEF SpawnSession, ClearTranscript
<1>2. <<>> \in Seq(Entries) /\ Closed(<<>>) /\ FlattenSeq(Parts(<<>>)) = <<>> /\ Carded(<<>>, {})
  BY ClearedIs
<1>3. Tidy(<<>>) /\ ~Streams(<<>>)
  BY <1>2, ClosedIs
<1>4. Types'
  <2>1. <<>> \in Seq(Nat) /\ <<>> \in Seq(Events)
    BY EmptySeq
  <2>2. broken' \in [stream : BOOLEAN, cards : BOOLEAN]
    BY <1>1
  <2> QED
    BY <1>1, <1>2, <2>1, <2>2, IdleIs DEF IInv, Types
<1>5. Coming'
  <2> DEFINE s == [open |-> FALSE, cards |-> {}]
  <2>1. s \in States /\ s.cards = {} /\ ~s.open
    BY DEF States
  <2> HIDE DEF s
  <2>2. Leads(s, <<>>, s)
    BY <2>1, LeadsNowhere
  <2>3. Ends(s, Idle)
    BY <2>1, IdleIs DEF Ends
  <2> QED
    BY <1>1, <1>3, <2>1, <2>2, <2>3, IdleIs DEF Coming
<1> QED
  BY <1>1, <1>2, <1>3, <1>4, <1>5 DEF IInv

-----------------------------------------------------------------------------
(* What the agent emits.                                                    *)

LEMMA EmitsKeep ==
    ASSUME IInv, NEW es \in Seq(Events), events' = events \o es,
           UNCHANGED <<transcript, heard, running, broken>>, serial' \in Nat,
           agent' \in Agents, agent'.at = "calls" => agent'.calls # <<>>, InOrder(agent'.started),
           \A u \in States : Ends(u, agent) => \E v \in States : Leads(u, es, v) /\ Ends(v, agent')
    PROVE  IInv'
<1>1. PICK s \in States, u \in States :
         /\ s.cards = running
         /\ ~broken.stream /\ Streams(transcript) => s.open
         /\ Leads(s, events, u)
         /\ Ends(u, agent)
  BY DEF IInv, Coming
<1>2. PICK v \in States : Leads(u, es, v) /\ Ends(v, agent')
  BY <1>1
<1>3. events \in Seq(Events)
  BY DEF IInv, Types
<1>4. Leads(s, events \o es, v)
  BY <1>1, <1>2, <1>3, LeadsThrough
<1>5. Coming'
  BY <1>1, <1>2, <1>4 DEF Coming
<1>6. Types'
  <2>1. events' \in Seq(Events)
    BY <1>3, ConcatProperties
  <2> QED
    BY <2>1 DEF IInv, Types
<1> QED
  BY <1>5, <1>6 DEF IInv

\* The numbered part of a response.
LEMMA SaidIs ==
    ASSUME serial \in Nat, NEW kinds \in Streamed
    PROVE  /\ Len(kinds) \in Nat /\ DOMAIN kinds = 1 .. Len(kinds)
           /\ Numbered(kinds) \in Seq(Events)
           /\ \A i \in 1 .. Len(Numbered(kinds)) :
                 \/ Numbered(kinds)[i].kind \in Chunks
                 \/ i = 1 /\ Numbered(kinds)[i].kind = "retrying"
<1> DEFINE Said(c) == /\ c \in Seq({"text", "reasoning", "retrying"})
                      /\ \A i \in 1 .. Len(c) : c[i] \in Chunks \/ (i = 1 /\ c[i] = "retrying")
<1>1. \A S, n : \A c \in UpTo(S, n) : \E k \in 0 .. n : c \in [1 .. k -> S]
  BY DEF UpTo
<1>2. ASSUME NEW S \in SUBSET Chunks, NEW n \in Int, NEW c \in UpTo(S, n)
      PROVE  c \in Seq(Chunks)
  <2>1. PICK k \in 0 .. n : c \in [1 .. k -> S]
    BY <1>1
  <2>2. k \in Nat
    BY <2>1
  <2>3. c \in [1 .. k -> Chunks]
    BY <2>1
  <2> QED
    BY <2>2, <2>3, SeqDef
<1>3. ASSUME NEW c \in Seq(Chunks) PROVE Said(c) /\ Said(<<"retrying">> \o c)
  <2>1. /\ Len(c) \in Nat /\ \A i \in 1 .. Len(c) : c[i] \in Chunks
        /\ c \in Seq({"text", "reasoning", "retrying"})
    <3>1. Chunks \subseteq {"text", "reasoning", "retrying"}
      BY DEF Chunks
    <3> QED
      BY <3>1, LenProperties, ElementOfSeq, SeqMonotonic
  <2>2. <<"retrying">> \in Seq({"text", "reasoning", "retrying"}) /\ Len(<<"retrying">>) = 1
    OBVIOUS
  <2> DEFINE d == <<"retrying">> \o c
  <2>3. /\ d \in Seq({"text", "reasoning", "retrying"}) /\ Len(d) = 1 + Len(c)
        /\ \A i \in 1 .. 1 + Len(c) : d[i] = IF i <= 1 THEN <<"retrying">>[i] ELSE c[i - 1]
    BY <2>1, <2>2, ConcatProperties
  <2> HIDE DEF d
  <2>4. ASSUME NEW i \in 1 .. Len(d) PROVE d[i] \in Chunks \/ (i = 1 /\ d[i] = "retrying")
    <3>1. CASE i = 1
      BY <2>3, <3>1
    <3>2. CASE i # 1
      <4>1. i - 1 \in 1 .. Len(c) /\ ~(i <= 1) /\ i \in 1 .. 1 + Len(c)
        BY <2>1, <2>3, <3>2
      <4> QED
        BY <2>1, <2>3, <4>1
    <3> QED
      BY <3>1, <3>2
  <2> QED
    BY <2>1, <2>3, <2>4 DEF d
<1>4. Said(kinds)
  <2>1. MaxChunks \in Int /\ MaxChunks - 1 \in Int
    BY ConsoleBounds
  <2>2. {"text"} \in SUBSET Chunks /\ {"reasoning", "text"} \in SUBSET Chunks
    BY DEF Chunks
  <2> HIDE DEF Said
  <2>3. CASE agent.kind = "compact"
    BY <1>2, <1>3, <2>1, <2>2, <2>3 DEF Streamed
  <2>4. CASE agent.kind # "compact"
    <3>1. \/ kinds \in UpTo({"reasoning", "text"}, MaxChunks)
          \/ \E c \in UpTo({"reasoning", "text"}, MaxChunks - 1) : kinds = <<"retrying">> \o c
      BY <2>4 DEF Streamed
    <3> QED
      BY <1>2, <1>3, <2>1, <2>2, <3>1
  <2> QED
    BY <2>3, <2>4
<1>5. /\ Len(kinds) \in Nat /\ DOMAIN kinds = 1 .. Len(kinds)
      /\ \A i \in 1 .. Len(kinds) : kinds[i] \in {"text", "reasoning", "retrying"}
  BY <1>4, LenProperties, ElementOfSeq
<1> DEFINE ev(i) == Event(kinds[i], serial + i)
<1>6. \A i \in 1 .. Len(kinds) : ev(i) \in Events /\ ev(i).kind = kinds[i]
  BY <1>5 DEF Event, Events, Numbers
<1>7. Numbered(kinds) = [i \in 1 .. Len(kinds) |-> ev(i)]
  BY <1>5 DEF Numbered
<1> HIDE DEF ev
<1>8. Numbered(kinds) \in [1 .. Len(kinds) -> Events]
  BY <1>6, <1>7
<1>9. Numbered(kinds) \in Seq(Events)
  BY <1>5, <1>8, SeqDef
<1>10. Len(Numbered(kinds)) = Len(kinds)
  BY <1>5, <1>8, <1>9, LenProperties
<1>11. \A i \in 1 .. Len(kinds) : Numbered(kinds)[i].kind = kinds[i]
  BY <1>6, <1>7
<1> QED
  BY <1>4, <1>5, <1>9, <1>10, <1>11

LEMMA SaidLeads ==
    ASSUME serial \in Nat, NEW kinds \in Streamed, NEW u \in States, ~u.open
    PROVE  \E v \in States : Leads(u, Numbered(kinds), v) /\ v.cards = u.cards
<1>1. /\ Numbered(kinds) \in Seq(Events)
      /\ \A i \in 1 .. Len(Numbered(kinds)) :
            \/ Numbered(kinds)[i].kind \in Chunks
            \/ i = 1 /\ Numbered(kinds)[i].kind = "retrying"
  BY SaidIs
<1> DEFINE es == Numbered(kinds)
<1> HIDE DEF es
<1>2. es \in Seq(Events) /\ \A i \in 1 .. Len(es) : es[i].kind \in Chunks \/ (i = 1 /\ es[i].kind = "retrying")
  BY <1>1 DEF es
<1>3. \E v \in States : Leads(u, es, v) /\ v.cards = u.cards
  BY <1>2, LeadsSaid
<1> QED
  BY <1>3 DEF es

\* How a turn ends: with events that close what streams.
LEMMA EndingLeads ==
    ASSUME NEW kind \in {"done", "error", "interrupted"}, NEW u \in States
    PROVE  /\ EndEvents(kind) \in Seq(Events)
           /\ Leads(u, EndEvents(kind), [open |-> FALSE, cards |-> u.cards])
           /\ [open |-> FALSE, cards |-> u.cards] \in States
<1> DEFINE shut == [open |-> FALSE, cards |-> u.cards]
<1>1. shut \in States /\ ~shut.open /\ shut.cards = u.cards
  BY DEF States
<1>2. ASSUME NEW k \in {"marker", "error", "interrupted", "done", "compacted"}
      PROVE  /\ Event(k, Nil) \in Events /\ Bare(<<k>>) = <<Event(k, Nil)>>
             /\ \A s \in States : Leads(s, <<Event(k, Nil)>>, [open |-> FALSE, cards |-> s.cards])
  <2>1. Event(k, Nil) \in Events /\ Event(k, Nil).kind = k
    BY DEF Event, Events, Plains
  <2>2. Bare(<<k>>) = <<Event(k, Nil)>>
    BY DEF Bare
  <2>3. k \in Plains /\ k \in Closers
    BY DEF Plains, Closers
  <2> QED
    BY <2>1, <2>2, <2>3, LeadsPlain
<1>3. \/ EndEvents(kind) = Bare(<<"interrupted", "interrupted">>)
      \/ \E k \in {"marker", "error", "interrupted", "done", "compacted"} : EndEvents(kind) = Bare(<<k>>)
  <2>1. CASE agent.outer # Nil /\ kind = "done"
    BY <2>1 DEF EndEvents
  <2>2. CASE agent.outer # Nil /\ kind = "interrupted"
    BY <2>2 DEF EndEvents
  <2>3. CASE ~(agent.outer # Nil /\ kind = "done") /\ ~(agent.outer # Nil /\ kind = "interrupted")
             /\ agent.kind = "compact" /\ kind = "done"
    BY <2>3 DEF EndEvents
  <2>4. CASE ~(agent.outer # Nil /\ kind = "done") /\ ~(agent.outer # Nil /\ kind = "interrupted")
             /\ ~(agent.kind = "compact" /\ kind = "done")
    <3>1. EndEvents(kind) = Bare(<<kind>>)
      BY <2>4 DEF EndEvents
    <3> QED
      BY <3>1
  <2> QED
    BY <2>1, <2>2, <2>3, <2>4
<1>4. CASE EndEvents(kind) = Bare(<<"interrupted", "interrupted">>)
  <2> DEFINE e == Event("interrupted", Nil)
  <2>1. e \in Events /\ \A s \in States : Leads(s, <<e>>, [open |-> FALSE, cards |-> s.cards])
    BY <1>2
  <2>2. Bare(<<"interrupted", "interrupted">>) = <<e, e>>
    BY DEF Bare
  <2> HIDE DEF e
  <2>3. <<e>> \in Seq(Events) /\ <<e>> \o <<e>> = <<e, e>> /\ <<e, e>> \in Seq(Events)
    BY <2>1, Pair
  <2>4. Leads(u, <<e>>, shut) /\ Leads(shut, <<e>>, shut)
    BY <1>1, <2>1
  <2>5. Leads(u, <<e>> \o <<e>>, shut)
    BY <2>3, <2>4, LeadsThrough
  <2> QED
    BY <1>1, <1>4, <2>2, <2>3, <2>5
<1>5. CASE \E k \in {"marker", "error", "interrupted", "done", "compacted"} : EndEvents(kind) = Bare(<<k>>)
  <2>1. PICK k \in {"marker", "error", "interrupted", "done", "compacted"} : EndEvents(kind) = Bare(<<k>>)
    BY <1>5
  <2>2. Event(k, Nil) \in Events /\ Leads(u, <<Event(k, Nil)>>, shut) /\ EndEvents(kind) = <<Event(k, Nil)>>
    BY <1>2, <2>1
  <2> QED
    BY <1>1, <2>2
<1> QED
  BY <1>3, <1>4, <1>5

LEMMA AgentTypes ==
    ASSUME Types
    PROVE  /\ \A k \in {"done", "error", "interrupted"} :
                 Ended(k) \in Agents /\ (Ended(k).at = "calls" => Ended(k).calls # <<>>)
                   /\ Ended(k).at # "asking" /\ Ended(k).started \in {<<>>, agent.started}
           /\ \A a \in Agents :
                 /\ Resume(a) \in Agents /\ (Resume(a).at = "calls" => Resume(a).calls # <<>>)
                 /\ Resume(a).at \in {"stream", "calls"} /\ Resume(a).started = a.started
                 /\ Resume(a).at = "stream" <=> a.calls = <<>>
<1>1. ASSUME NEW a \in Agents
      PROVE  /\ Resume(a) \in Agents /\ (Resume(a).at = "calls" => Resume(a).calls # <<>>)
             /\ Resume(a).at \in {"stream", "calls"} /\ Resume(a).started = a.started
             /\ Resume(a).at = "stream" <=> a.calls = <<>>
  <2>1. CASE a.calls = <<>>
    <3>1. Resume(a) = [a EXCEPT !.at = "stream"]
      BY <2>1 DEF Resume
    <3> QED
      BY <2>1, <3>1 DEF Agents
  <2>2. CASE a.calls # <<>>
    <3>1. Resume(a) = [a EXCEPT !.at = "calls"]
      BY <2>2 DEF Resume
    <3> QED
      BY <2>2, <3>1 DEF Agents
  <2> QED
    BY <2>1, <2>2
<1>2. ASSUME NEW k \in {"done", "error", "interrupted"}
      PROVE  Ended(k) \in Agents /\ (Ended(k).at = "calls" => Ended(k).calls # <<>>)
             /\ Ended(k).at # "asking" /\ Ended(k).started \in {<<>>, agent.started}
  <2>1. CASE agent.outer = Nil \/ k = "interrupted"
    <3>1. Ended(k) = Idle
      BY <2>1 DEF Ended
    <3> QED
      BY <3>1, IdleIs
  <2>2. CASE ~(agent.outer = Nil \/ k = "interrupted")
    <3> DEFINE a == [agent EXCEPT !.calls = agent.outer, !.outer = Nil]
    <3>1. a \in Agents /\ a.started = agent.started
      BY <2>2 DEF Types, Agents
    <3>2. Ended(k) = Resume(a)
      BY <2>2 DEF Ended
    <3> HIDE DEF a
    <3> QED
      BY <1>1, <3>1, <3>2
  <2> QED
    BY <2>1, <2>2
<1> QED
  BY <1>1, <1>2

-----------------------------------------------------------------------------
(* The agent's steps.                                                       *)

LEMMA TakeKeeps ==
    ASSUME IInv, TakeMessage
    PROVE  IInv'
<1>1. /\ agent.at = "idle" /\ agent \in Agents /\ serial' \in Nat /\ events \in Seq(Events)
      /\ UNCHANGED <<transcript, heard, running, broken, serial>>
  BY DEF TakeMessage, IInv, Types, ghosts
<1>2. /\ \/ UNCHANGED <<agent, events>>
         \/ \E k \in {"turn", "compact", "driver"} :
               /\ agent' = [at |-> "stream", kind |-> k, calls |-> <<>>, started |-> <<>>, outer |-> Nil]
               /\ UNCHANGED events \/ events' = events \o <<Event("tasks", "open")>>
  BY DEF TakeMessage, Idle, Emits
<1>3. CASE UNCHANGED <<agent, events>>
  BY <1>1, <1>3, NothingChanges
<1>4. CASE \E k \in {"turn", "compact", "driver"} :
               /\ agent' = [at |-> "stream", kind |-> k, calls |-> <<>>, started |-> <<>>, outer |-> Nil]
               /\ UNCHANGED events \/ events' = events \o <<Event("tasks", "open")>>
  <2>1. agent' \in Agents /\ agent'.at = "stream" /\ agent'.started = <<>>
    <3>1. <<>> \in Seq(Calls)
      BY EmptySeq
    <3> QED
      BY <1>4, <3>1 DEF Agents
  <2>2. InOrder(agent'.started)
    BY <2>1, IdleIs
  <2>3. \A v \in States : Ends(v, agent) => ~v.open /\ Ends(v, agent')
    BY <1>1, <2>1 DEF Ends
  <2>4. CASE UNCHANGED events
    <3>1. events' = events \o <<>> /\ <<>> \in Seq(Events)
      BY <1>1, <2>4, ConcatEmptySeq, EmptySeq
    <3> QED
      BY <1>1, <2>1, <2>2, <2>3, <3>1, LeadsNowhere, EmitsKeep
  <2>5. CASE events' = events \o <<Event("tasks", "open")>>
    <3> DEFINE e == Event("tasks", "open")
    <3>1. e \in Events /\ e.kind \in Plains
      BY DEF Event, Events, Plains
    <3> HIDE DEF e
    <3>2. <<e>> \in Seq(Events)
      BY <3>1
    <3>3. ASSUME NEW u \in States, Ends(u, agent)
          PROVE  \E v \in States : Leads(u, <<e>>, v) /\ Ends(v, agent')
      <4> DEFINE v == [open |-> FALSE, cards |-> u.cards]
      <4>1. v \in States /\ v.cards = u.cards /\ ~v.open
        BY DEF States
      <4>2. ~u.open
        BY <2>3, <3>3
      <4>3. Leads(u, <<e>>, v)
        BY <3>1, <4>2, LeadsPlain
      <4> HIDE DEF v
      <4>4. Ends(v, agent')
        BY <1>1, <2>1, <3>3, <4>1 DEF Ends
      <4> QED
        BY <4>1, <4>3, <4>4
    <3> QED
      BY <1>1, <2>1, <2>2, <2>5, <3>2, <3>3, EmitsKeep DEF e
  <2> QED
    BY <1>4, <2>4, <2>5
<1> QED
  BY <1>2, <1>3, <1>4

LEMMA FinishKeeps ==
    ASSUME IInv, FinishResponse
    PROVE  IInv'
<1>1. PICK kinds \in Streamed, outcome \in {"done", "error", "interrupted"} :
         /\ serial' = serial + Len(kinds)
         /\ \/ agent' = Ended(outcome) /\ events' = events \o (Numbered(kinds) \o EndEvents(outcome))
            \/ agent' = agent /\ events' = events \o (Numbered(kinds) \o Bare(<<"marker">>))
  BY DEF FinishResponse, Emits
<1>2. /\ agent.at = "stream" /\ Types /\ serial \in Nat /\ InOrder(agent.started)
      /\ UNCHANGED <<transcript, heard, running, broken>>
  BY DEF FinishResponse, IInv, Types, Coming, ghosts
<1>3. Numbered(kinds) \in Seq(Events) /\ serial' \in Nat
  BY <1>1, <1>2, SaidIs
<1>4. ASSUME NEW u \in States, Ends(u, agent)
      PROVE  \E v \in States : Leads(u, Numbered(kinds), v) /\ v.cards = {}
  <2>1. ~u.open /\ u.cards = {}
    BY <1>2, <1>4 DEF Ends
  <2> QED
    BY <1>2, <2>1, SaidLeads
<1>5. CASE agent' = Ended(outcome) /\ events' = events \o (Numbered(kinds) \o EndEvents(outcome))
  <2>1. /\ agent' \in Agents /\ (agent'.at = "calls" => agent'.calls # <<>>)
        /\ agent'.at # "asking" /\ InOrder(agent'.started)
    BY <1>2, <1>5, AgentTypes, IdleIs
  <2> DEFINE es == Numbered(kinds) \o EndEvents(outcome)
  <2>2. [open |-> FALSE, cards |-> {}] \in States
    BY DEF States
  <2>3. EndEvents(outcome) \in Seq(Events)
    BY <2>2, EndingLeads
  <2>4. es \in Seq(Events)
    BY <1>3, <2>3, ConcatProperties
  <2>5. ASSUME NEW u \in States, Ends(u, agent)
        PROVE  \E v \in States : Leads(u, es, v) /\ Ends(v, agent')
    <3>1. PICK w \in States : Leads(u, Numbered(kinds), w) /\ w.cards = {}
      BY <1>4, <2>5
    <3> DEFINE v == [open |-> FALSE, cards |-> w.cards]
    <3>2. Leads(w, EndEvents(outcome), v) /\ v \in States
      BY EndingLeads
    <3>3. Leads(u, es, v)
      BY <1>3, <2>3, <3>1, <3>2, LeadsThrough
    <3>4. Ends(v, agent')
      BY <2>1, <3>1 DEF Ends
    <3> QED
      BY <3>2, <3>3, <3>4
  <2> HIDE DEF es
  <2>6. events' = events \o es
    BY <1>5 DEF es
  <2> QED
    BY <1>2, <1>3, <2>1, <2>4, <2>5, <2>6, EmitsKeep
<1>6. CASE agent' = agent /\ events' = events \o (Numbered(kinds) \o Bare(<<"marker">>))
  <2> DEFINE m == Event("marker", Nil)
             es == Numbered(kinds) \o <<m>>
  <2>1. Bare(<<"marker">>) = <<m>>
    BY DEF Bare
  <2>2. m \in Events /\ m.kind \in Plains /\ m.kind \in Closers
    BY DEF Event, Events, Plains, Closers
  <2> HIDE DEF m
  <2>3. <<m>> \in Seq(Events)
    BY <2>2
  <2>4. es \in Seq(Events)
    BY <1>3, <2>3, ConcatProperties
  <2>5. ASSUME NEW u \in States, Ends(u, agent)
        PROVE  \E v \in States : Leads(u, es, v) /\ Ends(v, agent')
    <3>1. PICK w \in States : Leads(u, Numbered(kinds), w) /\ w.cards = {}
      BY <1>4, <2>5
    <3> DEFINE v == [open |-> FALSE, cards |-> w.cards]
    <3>2. Leads(w, <<m>>, v)
      BY <2>2, LeadsPlain
    <3>3. v \in States
      BY DEF States
    <3>4. Leads(u, es, v)
      BY <1>3, <2>3, <3>1, <3>2, LeadsThrough
    <3>5. Ends(v, agent')
      BY <1>2, <1>6, <3>1 DEF Ends
    <3> QED
      BY <3>3, <3>4, <3>5
  <2> HIDE DEF es
  <2>6. events' = events \o es
    BY <1>6, <2>1 DEF es
  <2>7. agent' \in Agents /\ (agent'.at = "calls" => agent'.calls # <<>>) /\ InOrder(agent'.started)
    BY <1>2, <1>6 DEF Types
  <2> QED
    BY <1>2, <1>3, <2>4, <2>5, <2>6, <2>7, EmitsKeep
<1> QED
  BY <1>1, <1>5, <1>6

\* Calls picked out of a response stay in the order of their numbers.
LEMMA PickedCalls ==
    ASSUME NEW calls \in Seq(Calls), InOrder(calls), NEW P \in SUBSET DOMAIN calls
    PROVE  /\ CallsAt(calls, P) \in Seq(Calls) /\ InOrder(CallsAt(calls, P))
           /\ CallsAt(calls, P) = <<>> <=> P = {}
<1> DEFINE upto(i) == {j \in P : j <= i}
           place(n) == CHOOSE i \in P : Cardinality(upto(i)) = n
           k == Cardinality(P)
<1>1. /\ Len(calls) \in Nat /\ DOMAIN calls = 1 .. Len(calls)
      /\ \A i \in 1 .. Len(calls) : calls[i] \in Calls
      /\ P \in SUBSET (1 .. Len(calls))
  BY LenProperties, ElementOfSeq
<1>2. IsFiniteSet(P) /\ k \in Nat
  <2>1. IsFiniteSet(1 .. Len(calls))
    BY <1>1, FS_Interval
  <2> QED
    BY <1>1, <2>1, FS_Subset, FS_CardinalityType
<1>3. ASSUME NEW n \in 1 .. k PROVE place(n) \in P /\ Cardinality(upto(place(n))) = n
  <2>1. \E i \in P : Cardinality(upto(i)) = n
    BY <1>1, EveryRank
  <2> HIDE DEF upto
  <2> QED
    BY <2>1
<1>4. ASSUME NEW n \in 1 .. k, NEW m \in 1 .. k, n < m PROVE place(n) < place(m)
  <2>1. /\ place(n) \in P /\ Cardinality(upto(place(n))) = n
        /\ place(m) \in P /\ Cardinality(upto(place(m))) = m
    BY <1>3
  <2> HIDE DEF place
  <2>2. place(n) \in Nat /\ place(m) \in Nat
    BY <1>1, <2>1
  <2> SUFFICES ASSUME place(m) <= place(n) PROVE FALSE
    BY <2>2
  <2>3. upto(place(m)) \subseteq upto(place(n))
    <3>1. \A j \in P : j \in Nat
      BY <1>1
    <3> QED
      BY <2>2, <3>1
  <2>4. IsFiniteSet(upto(place(n)))
    BY <1>2, FS_Subset
  <2>5. Cardinality(upto(place(m))) <= Cardinality(upto(place(n)))
    <3> HIDE DEF upto
    <3> QED
      BY <2>3, <2>4, FS_Subset
  <2> QED
    BY <1>2, <1>4, <2>1, <2>5
<1> DEFINE cs == [n \in 1 .. k |-> calls[place(n)]]
<1>5. CallsAt(calls, P) = cs
  BY DEF CallsAt
<1> HIDE DEF place
<1>6. \A n \in 1 .. k : calls[place(n)] \in Calls /\ place(n) \in DOMAIN calls
  BY <1>1, <1>3
<1>7. cs \in Seq(Calls) /\ Len(cs) = k /\ DOMAIN cs = 1 .. k
  <2>1. cs \in [1 .. k -> Calls]
    BY <1>6
  <2> HIDE DEF cs
  <2>2. cs \in Seq(Calls)
    BY <1>2, <2>1, SeqDef
  <2> QED
    BY <1>2, <2>1, <2>2, LenProperties
<1>8. InOrder(cs)
  <2> SUFFICES ASSUME NEW n \in 1 .. k, NEW m \in 1 .. k, n < m PROVE cs[n].id < cs[m].id
    BY <1>7 DEF InOrder
  <2>1. calls[place(n)].id < calls[place(m)].id
    BY <1>4, <1>6 DEF InOrder
  <2> QED
    BY <2>1
<1>9. cs = <<>> <=> P = {}
  <2>1. k = 0 <=> P = {}
    BY <1>2, FS_EmptySet
  <2>2. Len(cs) = 0 <=> cs = <<>>
    <3> HIDE DEF cs
    <3> QED
      BY <1>7, EmptySeq
  <2> QED
    BY <1>7, <2>1, <2>2
<1> HIDE DEF cs
<1> QED
  BY <1>5, <1>7, <1>8, <1>9

\* The events that open, or complete, the cards of some calls.
LEMMA CardEvents ==
    ASSUME NEW cs \in Seq(Calls), NEW kind \in {"started", "completed"}
    PROVE  LET es == [i \in DOMAIN cs |-> Event(kind, cs[i].id)]
           IN  /\ es \in Seq(Events) /\ Len(es) = Len(cs)
               /\ \A i \in 1 .. Len(cs) : es[i] = Event(kind, cs[i].id)
<1> DEFINE es == [i \in DOMAIN cs |-> Event(kind, cs[i].id)]
<1>1. /\ Len(cs) \in Nat /\ DOMAIN cs = 1 .. Len(cs)
      /\ \A i \in 1 .. Len(cs) : cs[i] \in Calls
  BY LenProperties, ElementOfSeq
<1>2. \A i \in 1 .. Len(cs) : Event(kind, cs[i].id) \in Events
  BY <1>1 DEF Event, Events, Numbers, Calls
<1>3. es \in [1 .. Len(cs) -> Events]
  BY <1>1, <1>2
<1>4. \A i \in 1 .. Len(cs) : es[i] = Event(kind, cs[i].id)
  BY <1>1
<1> HIDE DEF es
<1>5. es \in Seq(Events)
  BY <1>1, <1>3, SeqDef
<1>6. Len(es) = Len(cs)
  BY <1>1, <1>3, <1>5, LenProperties
<1> QED
  BY <1>4, <1>5, <1>6 DEF es

LEMMA CallToolsKeeps ==
    ASSUME IInv, CallTools
    PROVE  IInv'
<1>0. /\ agent.at = "stream" /\ Types /\ agent \in Agents /\ serial \in Nat /\ InOrder(agent.started)
      /\ UNCHANGED <<transcript, heard, running, broken>>
  BY DEF CallTools, IInv, Types, Coming, ghosts
<1>1. PICK kinds \in Streamed, asks \in BOOLEAN, tools \in UpTo(Tools, MaxBatch) \ {<<>>} :
         LET first == serial + Len(kinds)
             calls == [i \in DOMAIN tools |-> [kind |-> tools[i], id |-> first + i, asks |-> asks]]
             batch == Searches(calls)
             opened == [i \in DOMAIN batch |-> Event("started", batch[i].id)]
             closed == [i \in DOMAIN batch |-> Event("completed", batch[i].id)]
             later == [agent EXCEPT !.calls = Others(calls)]
         IN  /\ serial' = first + Len(tools)
             /\ IF pressed
                THEN agent' = Idle /\ Emits(Numbered(kinds) \o EndEvents("interrupted"))
                ELSE IF batch # <<>> /\ asks
                THEN /\ agent' = [later EXCEPT !.at = "asking", !.started = batch]
                     /\ Emits(Numbered(kinds) \o opened \o <<Event("permission", Nil)>>)
                ELSE /\ agent' = Resume(later)
                     /\ Emits(Numbered(kinds) \o opened \o closed)
  BY ZenonT(60) DEF CallTools
<1> DEFINE first == serial + Len(kinds)
           calls == [i \in DOMAIN tools |-> [kind |-> tools[i], id |-> first + i, asks |-> asks]]
           batch == Searches(calls)
           opened == [i \in DOMAIN batch |-> Event("started", batch[i].id)]
           closed == [i \in DOMAIN batch |-> Event("completed", batch[i].id)]
           later == [agent EXCEPT !.calls = Others(calls)]
           uttered == Numbered(kinds)
<1>2. /\ serial' = first + Len(tools)
      /\ IF pressed
         THEN agent' = Idle /\ events' = events \o (uttered \o EndEvents("interrupted"))
         ELSE IF batch # <<>> /\ asks
         THEN /\ agent' = [later EXCEPT !.at = "asking", !.started = batch]
              /\ events' = events \o (uttered \o opened \o <<Event("permission", Nil)>>)
         ELSE /\ agent' = Resume(later)
              /\ events' = events \o (uttered \o opened \o closed)
  BY <1>1 DEF Emits
<1> HIDE <1>1
<1>3. Len(kinds) \in Nat /\ uttered \in Seq(Events) /\ first \in Nat
  BY <1>0, SaidIs
<1>4. /\ Len(tools) \in Nat /\ DOMAIN tools = 1 .. Len(tools) /\ Len(tools) # 0
      /\ \A i \in 1 .. Len(tools) : tools[i] \in {"search", "run", "plan", "task", "sub"}
  <2>1. PICK k \in 0 .. MaxBatch : tools \in [1 .. k -> Tools]
    BY DEF UpTo
  <2>2. k \in Nat
    BY <2>1
  <2>3. tools \in Seq(Tools) /\ tools # <<>>
    BY <2>1, <2>2, SeqDef
  <2>4. \A i \in 1 .. Len(tools) : tools[i] \in Tools
    BY <2>3, ElementOfSeq
  <2>5. Tools \subseteq {"search", "run", "plan", "task", "sub"}
    BY DEF Tools
  <2> QED
    BY <2>3, <2>4, <2>5, LenProperties, EmptySeq
<1>5. calls \in Seq(Calls) /\ InOrder(calls) /\ DOMAIN calls = 1 .. Len(tools)
  <2>1. calls \in [1 .. Len(tools) -> Calls]
    BY <1>3, <1>4 DEF Calls
  <2>2. calls \in Seq(Calls)
    BY <1>4, <2>1, SeqDef
  <2>3. DOMAIN calls = 1 .. Len(tools) /\ \A i \in 1 .. Len(tools) : calls[i].id = first + i
    BY <1>4
  <2>4. InOrder(calls)
    <3> HIDE DEF calls, first
    <3> QED
      BY <1>3, <1>4, <2>3 DEF InOrder
  <2> QED
    BY <2>2, <2>3, <2>4
<1> HIDE DEF calls, first, uttered
<1>6. /\ batch \in Seq(Calls) /\ InOrder(batch)
      /\ Others(calls) \in Seq(Calls)
      /\ batch = <<>> => Others(calls) # <<>>
  <2> DEFINE S == {i \in DOMAIN calls : calls[i].kind = "search"}
             O == {i \in DOMAIN calls : calls[i].kind # "search"}
  <2>1. S \in SUBSET DOMAIN calls /\ O \in SUBSET DOMAIN calls
    OBVIOUS
  <2>2. S = {} => O # {}
    <3>1. 1 \in DOMAIN calls
      BY <1>4, <1>5
    <3> QED
      BY <3>1
  <2>3. batch = CallsAt(calls, S) /\ Others(calls) = CallsAt(calls, O)
    BY DEF Searches, Others
  <2> HIDE DEF S, O, batch
  <2> QED
    BY <1>5, <2>1, <2>2, <2>3, PickedCalls
<1> HIDE DEF batch
<1>7. /\ opened \in Seq(Events) /\ Len(opened) = Len(batch)
      /\ \A i \in 1 .. Len(batch) : opened[i] = Event("started", batch[i].id)
  BY <1>6, CardEvents
<1>8. /\ closed \in Seq(Events) /\ Len(closed) = Len(batch)
      /\ \A i \in 1 .. Len(batch) : closed[i] = Event("completed", batch[i].id)
  BY <1>6, CardEvents
<1> HIDE DEF opened, closed
<1>9. ASSUME NEW u \in States, Ends(u, agent)
      PROVE  \E w \in States : Leads(u, uttered, w) /\ w.cards = {}
  <2>1. ~u.open /\ u.cards = {}
    BY <1>0, <1>9 DEF Ends
  <2> QED
    BY <1>0, <2>1, SaidLeads DEF uttered
<1>10. ASSUME NEW u \in States, Ends(u, agent)
       PROVE  \E w \in States : Leads(u, uttered \o opened, w) /\ w.cards = Ids(batch)
                                  /\ (w.open => batch = <<>>)
  <2>1. PICK w \in States : Leads(u, uttered, w) /\ w.cards = {}
    BY <1>9, <1>10
  <2> DEFINE v == [open |-> w.open /\ batch = <<>>, cards |-> Ids(batch)]
  <2>2. Leads(w, opened, v)
    BY <1>6, <1>7, <2>1, LeadsStarted
  <2>3. v \in States /\ v.cards = Ids(batch) /\ (v.open => batch = <<>>)
    <3>1. Ids(batch) \in SUBSET Nat
      BY <1>6, IdsType
    <3> QED
      BY <3>1 DEF States
  <2> HIDE DEF v
  <2> QED
    BY <1>3, <1>7, <2>1, <2>2, <2>3, LeadsThrough
<1>11. uttered \o opened \in Seq(Events)
  BY <1>3, <1>7, ConcatProperties
<1>12. serial' \in Nat
  BY <1>2, <1>3, <1>4
<1>13. later \in Agents /\ later.calls = Others(calls) /\ later.started = agent.started
  BY <1>0, <1>6 DEF Agents
<1> HIDE DEF later
<1>14. CASE pressed
  <2>1. agent' = Idle /\ events' = events \o (uttered \o EndEvents("interrupted"))
    BY <1>2, <1>14
  <2> DEFINE es == uttered \o EndEvents("interrupted")
  <2>2. [open |-> FALSE, cards |-> {}] \in States
    BY DEF States
  <2>3. EndEvents("interrupted") \in Seq(Events)
    BY <2>2, EndingLeads
  <2>4. es \in Seq(Events)
    BY <1>3, <2>3, ConcatProperties
  <2>5. ASSUME NEW u \in States, Ends(u, agent)
        PROVE  \E v \in States : Leads(u, es, v) /\ Ends(v, agent')
    <3>1. PICK w \in States : Leads(u, uttered, w) /\ w.cards = {}
      BY <1>9, <2>5
    <3> DEFINE v == [open |-> FALSE, cards |-> w.cards]
    <3>2. Leads(w, EndEvents("interrupted"), v) /\ v \in States
      BY EndingLeads
    <3>3. Leads(u, es, v)
      BY <1>3, <2>3, <3>1, <3>2, LeadsThrough
    <3>4. Ends(v, agent')
      BY <2>1, <3>1, IdleIs DEF Ends
    <3> QED
      BY <3>2, <3>3, <3>4
  <2> HIDE DEF es
  <2>6. events' = events \o es
    BY <2>1 DEF es
  <2>7. agent' \in Agents /\ agent'.at # "calls" /\ InOrder(agent'.started)
    BY <2>1, IdleIs
  <2> QED
    BY <1>0, <1>12, <2>4, <2>5, <2>6, <2>7, EmitsKeep
<1>15. CASE ~pressed /\ batch # <<>> /\ asks
  <2> DEFINE e == Event("permission", Nil)
             es == (uttered \o opened) \o <<e>>
  <2>1. agent' = [later EXCEPT !.at = "asking", !.started = batch] /\ events' = events \o es
    BY <1>2, <1>15
  <2>2. e \in Events /\ e.kind \in Plains
    BY DEF Event, Events, Plains
  <2> HIDE DEF e
  <2>3. <<e>> \in Seq(Events)
    BY <2>2
  <2>4. es \in Seq(Events)
    BY <1>11, <2>3, ConcatProperties
  <2>5. agent' \in Agents /\ agent'.at = "asking" /\ agent'.started = batch
    BY <1>6, <1>13, <2>1 DEF Agents
  <2>6. ASSUME NEW u \in States, Ends(u, agent)
        PROVE  \E v \in States : Leads(u, es, v) /\ Ends(v, agent')
    <3>1. PICK w \in States : Leads(u, uttered \o opened, w) /\ w.cards = Ids(batch) /\ ~w.open
      BY <1>10, <1>15, <2>6
    <3> DEFINE v == [open |-> FALSE, cards |-> w.cards]
    <3>2. Leads(w, <<e>>, v)
      BY <2>2, <3>1, LeadsPlain
    <3>3. v \in States
      BY DEF States
    <3>4. Leads(u, es, v)
      BY <1>11, <2>3, <3>1, <3>2, LeadsThrough
    <3>5. Ends(v, agent')
      BY <2>5, <3>1 DEF Ends
    <3> QED
      BY <3>3, <3>4, <3>5
  <2> HIDE DEF es
  <2>7. events' = events \o es /\ agent'.at # "calls" /\ InOrder(agent'.started)
    BY <1>6, <2>1, <2>5
  <2> QED
    BY <1>0, <1>12, <2>4, <2>5, <2>6, <2>7, EmitsKeep
<1>16. CASE ~pressed /\ ~(batch # <<>> /\ asks)
  <2> DEFINE es == (uttered \o opened) \o closed
  <2>1. agent' = Resume(later) /\ events' = events \o es
    BY <1>2, <1>16
  <2>2. es \in Seq(Events)
    BY <1>8, <1>11, ConcatProperties
  <2>3. /\ agent' \in Agents /\ (agent'.at = "calls" => agent'.calls # <<>>)
        /\ agent'.at \in {"stream", "calls"} /\ agent'.started = agent.started
        /\ agent'.at = "stream" <=> Others(calls) = <<>>
    BY <1>0, <1>13, <2>1, AgentTypes
  <2>4. ASSUME NEW u \in States, Ends(u, agent)
        PROVE  \E v \in States : Leads(u, es, v) /\ Ends(v, agent')
    <3>1. PICK w \in States : Leads(u, uttered \o opened, w) /\ w.cards = Ids(batch)
                                /\ (w.open => batch = <<>>)
      BY <1>10, <2>4
    <3> DEFINE v == [open |-> w.open /\ batch = <<>>, cards |-> {}]
    <3>2. Leads(w, closed, v)
      BY <1>6, <1>8, <3>1, LeadsCompleted
    <3>3. v \in States /\ v.cards = {} /\ (v.open => batch = <<>>)
      BY DEF States
    <3>4. Leads(u, es, v)
      BY <1>8, <1>11, <3>1, <3>2, LeadsThrough
    <3> HIDE DEF v
    <3>5. Ends(v, agent')
      BY <1>6, <2>3, <3>3 DEF Ends
    <3> QED
      BY <3>3, <3>4, <3>5
  <2> HIDE DEF es
  <2>5. events' = events \o es /\ InOrder(agent'.started)
    BY <1>0, <2>1, <2>3
  <2> QED
    BY <1>0, <1>12, <2>2, <2>3, <2>4, <2>5, EmitsKeep
<1> QED
  BY <1>14, <1>15, <1>16

\* One call alone: its card opens and, once it has run, closes.
LEMMA CardOpens ==
    ASSUME NEW c \in Calls, NEW s \in States, s.cards = {}
    PROVE  LET e == Event("started", c.id)
           IN  /\ e \in Events
               /\ Leads(s, <<e>>, [open |-> FALSE, cards |-> {c.id}])
               /\ [open |-> FALSE, cards |-> {c.id}] \in States
               /\ InOrder(<<c>>) /\ Ids(<<c>>) = {c.id} /\ <<c>> \in Seq(Calls)
<1> DEFINE e == Event("started", c.id)
<1>1. e \in Events /\ e.kind = "started" /\ e.id = c.id
  BY DEF Event, Events, Numbers, Calls
<1> HIDE DEF e
<1>2. Fine(s, e)
  BY <1>1 DEF Fine, Closers
<1>3. After(s, e) = [open |-> FALSE, cards |-> {c.id}]
  <2>1. After(s, e) = [open |-> FALSE, cards |-> s.cards \union {e.id}]
    BY <1>1, AfterIs
  <2> QED
    BY <1>1, <2>1
<1>4. Leads(s, <<e>>, [open |-> FALSE, cards |-> {c.id}])
  BY <1>1, <1>2, <1>3, LeadsOne
<1>5. [open |-> FALSE, cards |-> {c.id}] \in States
  BY DEF States, Calls
<1>6. <<c>> \in Seq(Calls) /\ DOMAIN <<c>> = {1} /\ <<c>>[1] = c
  OBVIOUS
<1>7. InOrder(<<c>>) /\ Ids(<<c>>) = {c.id}
  BY <1>6 DEF InOrder, Ids
<1> QED
  BY <1>1, <1>4, <1>5, <1>6, <1>7 DEF e

LEMMA CardCloses ==
    ASSUME NEW c \in Calls
    PROVE  LET e == Event("completed", c.id)
           IN  /\ e \in Events
               /\ Leads([open |-> FALSE, cards |-> {c.id}], <<e>>, [open |-> FALSE, cards |-> {}])
               /\ [open |-> FALSE, cards |-> {}] \in States
<1> DEFINE e == Event("completed", c.id)
           s == [open |-> FALSE, cards |-> {c.id}]
<1>1. e \in Events /\ e.kind = "completed" /\ e.id = c.id
  BY DEF Event, Events, Numbers, Calls
<1>2. s \in States /\ s.cards = {c.id} /\ ~s.open /\ [open |-> FALSE, cards |-> {}] \in States
  BY DEF States, Calls
<1> HIDE DEF e, s
<1>3. Fine(s, e)
  <2>1. c.id \in Nat
    BY DEF Calls
  <2> QED
    BY <1>1, <1>2, <2>1 DEF Fine
<1>4. After(s, e) = [open |-> FALSE, cards |-> {}]
  <2>1. After(s, e) = [open |-> FALSE, cards |-> s.cards \ {e.id}]
    BY <1>1, AfterIs
  <2> QED
    BY <1>1, <1>2, <2>1
<1>5. Leads(s, <<e>>, [open |-> FALSE, cards |-> {}])
  BY <1>1, <1>2, <1>3, <1>4, LeadsOne
<1> QED
  BY <1>1, <1>2, <1>5 DEF e, s

LEMMA NextCallKeeps ==
    ASSUME IInv, NextCall
    PROVE  IInv'
<1> DEFINE c == Head(agent.calls)
           rest == Tail(agent.calls)
           none == [open |-> FALSE, cards |-> {}]
<1>0. /\ agent.at = "calls" /\ Types /\ agent \in Agents /\ serial \in Nat /\ serial' = serial
      /\ InOrder(agent.started) /\ agent.calls # <<>>
      /\ UNCHANGED <<transcript, heard, running, broken>>
  BY DEF NextCall, IInv, Types, Coming, ghosts
<1>1. c \in Calls /\ rest \in Seq(Calls)
  <2>1. agent.calls \in Seq(Calls)
    BY <1>0 DEF Agents
  <2> QED
    BY <1>0, <2>1, HeadTailProperties
<1>2. \/ /\ agent' = Idle /\ events' = events \o EndEvents("interrupted")
      \/ /\ agent' = [agent EXCEPT !.at = "stream", !.calls = <<>>, !.outer = rest]
         /\ events' = events \o Bare(<<"marker">>)
      \/ \E k \in {"plan", "permission"} :
            /\ agent' = [agent EXCEPT !.at = "asking", !.calls = rest, !.started = <<c>>]
            /\ events' = events \o <<Event("started", c.id), Event(k, Nil)>>
      \/ /\ agent' = Resume([agent EXCEPT !.calls = rest])
         /\ \E t \in {"open", "worked", "done"} : \E more \in {<<>>, <<Event("tasks", t)>>} :
               events' = events \o (<<Event("started", c.id), Event("completed", c.id)>> \o more)
  <2>1. CASE pressed
    BY <2>1 DEF NextCall, Emits
  <2>2. CASE ~pressed /\ c.kind = "sub"
    BY <2>2 DEF NextCall, Emits
  <2>3. CASE ~pressed /\ c.kind # "sub" /\ (c.kind = "plan" \/ c.asks)
    BY <2>3 DEF NextCall, Emits
  <2>4. CASE ~pressed /\ c.kind # "sub" /\ ~(c.kind = "plan" \/ c.asks)
    BY <2>4 DEF NextCall, Emits
  <2> QED
    BY <2>1, <2>2, <2>3, <2>4
<1> HIDE DEF c, rest
<1>3. ASSUME NEW u \in States, Ends(u, agent) PROVE u.cards = {}
  BY <1>0, <1>3 DEF Ends
<1>4. none \in States /\ none.cards = {} /\ ~none.open
  BY DEF States
<1> HIDE DEF none
<1>5. CASE agent' = Idle /\ events' = events \o EndEvents("interrupted")
  <2>1. EndEvents("interrupted") \in Seq(Events)
    BY <1>4, EndingLeads
  <2>2. ASSUME NEW u \in States, Ends(u, agent)
        PROVE  \E v \in States : Leads(u, EndEvents("interrupted"), v) /\ Ends(v, agent')
    <3> DEFINE v == [open |-> FALSE, cards |-> u.cards]
    <3>1. Leads(u, EndEvents("interrupted"), v) /\ v \in States
      BY EndingLeads
    <3>2. Ends(v, agent')
      BY <1>3, <1>5, <2>2, IdleIs DEF Ends
    <3> QED
      BY <3>1, <3>2
  <2>3. agent' \in Agents /\ agent'.at # "calls" /\ InOrder(agent'.started)
    BY <1>5, IdleIs
  <2> QED
    BY <1>0, <1>5, <2>1, <2>2, <2>3, EmitsKeep
<1>6. CASE /\ agent' = [agent EXCEPT !.at = "stream", !.calls = <<>>, !.outer = rest]
           /\ events' = events \o Bare(<<"marker">>)
  <2> DEFINE m == Event("marker", Nil)
  <2>1. Bare(<<"marker">>) = <<m>>
    BY DEF Bare
  <2>2. m \in Events /\ m.kind \in Plains /\ m.kind \in Closers
    BY DEF Event, Events, Plains, Closers
  <2> HIDE DEF m
  <2>3. <<m>> \in Seq(Events) /\ events' = events \o <<m>>
    BY <1>6, <2>1, <2>2
  <2>4. agent' \in Agents /\ agent'.at = "stream" /\ agent'.started = agent.started
    <3>1. <<>> \in Seq(Calls)
      BY EmptySeq
    <3> QED
      BY <1>0, <1>1, <1>6, <3>1 DEF Agents
  <2>5. ASSUME NEW u \in States, Ends(u, agent)
        PROVE  \E v \in States : Leads(u, <<m>>, v) /\ Ends(v, agent')
    <3> DEFINE v == [open |-> FALSE, cards |-> u.cards]
    <3>1. Leads(u, <<m>>, v)
      BY <2>2, LeadsPlain
    <3>2. v \in States
      BY DEF States
    <3>3. Ends(v, agent')
      BY <1>3, <2>4, <2>5 DEF Ends
    <3> QED
      BY <3>1, <3>2, <3>3
  <2>6. agent'.at # "calls" /\ InOrder(agent'.started)
    BY <1>0, <2>4
  <2> QED
    BY <1>0, <2>3, <2>4, <2>5, <2>6, EmitsKeep
<1>7. CASE \E k \in {"plan", "permission"} :
              /\ agent' = [agent EXCEPT !.at = "asking", !.calls = rest, !.started = <<c>>]
              /\ events' = events \o <<Event("started", c.id), Event(k, Nil)>>
  <2> PICK k \in {"plan", "permission"} :
              /\ agent' = [agent EXCEPT !.at = "asking", !.calls = rest, !.started = <<c>>]
              /\ events' = events \o <<Event("started", c.id), Event(k, Nil)>>
    BY <1>7
  <2> DEFINE a == Event("started", c.id)
             b == Event(k, Nil)
             v == [open |-> FALSE, cards |-> {c.id}]
  <2>1. /\ a \in Events /\ v \in States /\ InOrder(<<c>>) /\ Ids(<<c>>) = {c.id} /\ <<c>> \in Seq(Calls)
        /\ \A s \in States : s.cards = {} => Leads(s, <<a>>, v)
    BY <1>1, <1>4, CardOpens
  <2>2. b \in Events /\ b.kind \in Plains
    BY DEF Event, Events, Plains
  <2>3. v.cards = {c.id} /\ ~v.open /\ v = [open |-> FALSE, cards |-> v.cards]
    OBVIOUS
  <2>4. events' = events \o <<a, b>>
    OBVIOUS
  <2>5. agent' \in Agents /\ agent'.at = "asking" /\ agent'.started = <<c>>
    BY <1>0, <1>1, <2>1 DEF Agents
  <2> HIDE DEF a, b, v
  <2>6. /\ <<a>> \o <<b>> = <<a, b>>
        /\ <<a>> \in Seq(Events) /\ <<b>> \in Seq(Events) /\ <<a, b>> \in Seq(Events)
    BY <2>1, <2>2, Pair
  <2>7. Leads(v, <<b>>, v)
    <3>1. Leads(v, <<b>>, [open |-> FALSE, cards |-> v.cards])
      BY <2>1, <2>2, <2>3, LeadsPlain
    <3> QED
      BY <2>3, <3>1
  <2>8. ASSUME NEW u \in States, Ends(u, agent)
        PROVE  \E w \in States : Leads(u, <<a, b>>, w) /\ Ends(w, agent')
    <3>1. Leads(u, <<a>>, v)
      BY <1>3, <2>1, <2>8
    <3>2. Leads(u, <<a>> \o <<b>>, v)
      BY <2>6, <2>7, <3>1, LeadsThrough
    <3>3. Ends(v, agent')
      BY <2>1, <2>3, <2>5 DEF Ends
    <3> QED
      BY <2>1, <2>6, <3>2, <3>3
  <2>9. agent'.at # "calls" /\ InOrder(agent'.started)
    BY <2>1, <2>5
  <2> QED
    BY <1>0, <2>4, <2>5, <2>6, <2>8, <2>9, EmitsKeep
<1>8. CASE /\ agent' = Resume([agent EXCEPT !.calls = rest])
           /\ \E t \in {"open", "worked", "done"} : \E more \in {<<>>, <<Event("tasks", t)>>} :
                 events' = events \o (<<Event("started", c.id), Event("completed", c.id)>> \o more)
  <2> PICK t \in {"open", "worked", "done"} : \E more \in {<<>>, <<Event("tasks", t)>>} :
                 events' = events \o (<<Event("started", c.id), Event("completed", c.id)>> \o more)
    BY <1>8
  <2> PICK more \in {<<>>, <<Event("tasks", t)>>} :
                 events' = events \o (<<Event("started", c.id), Event("completed", c.id)>> \o more)
    OBVIOUS
  <2> DEFINE a == Event("started", c.id)
             b == Event("completed", c.id)
             v == [open |-> FALSE, cards |-> {c.id}]
             f == Event("tasks", t)
             later == [agent EXCEPT !.calls = rest]
             es == <<a, b>> \o more
  <2>1. /\ a \in Events /\ v \in States
        /\ \A s \in States : s.cards = {} => Leads(s, <<a>>, v)
    BY <1>1, <1>4, CardOpens
  <2>2. b \in Events /\ Leads(v, <<b>>, none)
    BY <1>1, CardCloses DEF none
  <2>3. f \in Events /\ f.kind \in Plains
    BY DEF Event, Events, Plains
  <2>4. later \in Agents /\ later.calls = rest /\ later.started = agent.started
    BY <1>0, <1>1 DEF Agents
  <2>5. more \in {<<>>, <<f>>}
    OBVIOUS
  <2> HIDE DEF a, b, v, f, later
  <2>6. /\ agent' \in Agents /\ (agent'.at = "calls" => agent'.calls # <<>>)
        /\ agent'.at \in {"stream", "calls"} /\ agent'.started = agent.started
    <3>1. agent' = Resume(later)
      BY <1>8 DEF later
    <3> QED
      BY <1>0, <2>4, <3>1, AgentTypes
  <2>7. /\ <<a>> \o <<b>> = <<a, b>>
        /\ <<a>> \in Seq(Events) /\ <<b>> \in Seq(Events) /\ <<a, b>> \in Seq(Events)
    BY <2>1, <2>2, Pair
  <2>8. more \in Seq(Events) /\ Leads(none, more, none)
    <3>1. Leads(none, <<f>>, [open |-> FALSE, cards |-> none.cards])
      BY <1>4, <2>3, LeadsPlain
    <3>2. [open |-> FALSE, cards |-> none.cards] = none
      BY <1>4 DEF none
    <3>3. Leads(none, <<>>, none)
      BY <1>4, LeadsNowhere
    <3>4. <<f>> \in Seq(Events) /\ <<>> \in Seq(Events)
      BY <2>3
    <3> QED
      BY <2>5, <3>1, <3>2, <3>3, <3>4
  <2>9. es \in Seq(Events)
    BY <2>7, <2>8, ConcatProperties
  <2>10. ASSUME NEW u \in States, Ends(u, agent)
         PROVE  \E w \in States : Leads(u, es, w) /\ Ends(w, agent')
    <3>1. Leads(u, <<a>>, v)
      BY <1>3, <2>1, <2>10
    <3>2. Leads(u, <<a>> \o <<b>>, none)
      BY <2>2, <2>7, <3>1, LeadsThrough
    <3>3. Leads(u, es, none)
      BY <2>7, <2>8, <3>2, LeadsThrough
    <3>4. Ends(none, agent')
      BY <1>4, <2>6 DEF Ends
    <3> QED
      BY <1>4, <3>3, <3>4
  <2>11. events' = events \o es
    BY DEF a, b
  <2>12. InOrder(agent'.started)
    BY <1>0, <2>6
  <2> HIDE DEF es
  <2> QED
    BY <1>0, <2>6, <2>9, <2>10, <2>11, <2>12, EmitsKeep
<1> QED
  BY <1>2, <1>5, <1>6, <1>7, <1>8

LEMMA AnswerKeeps ==
    ASSUME IInv, agent.at = "asking", Answered, UNCHANGED <<transcript, heard, running, broken, serial>>
    PROVE  IInv'
<1> DEFINE cs == agent.started
           es == [i \in DOMAIN cs |-> Event("completed", cs[i].id)]
           later == [agent EXCEPT !.started = <<>>]
<1>1. Types /\ agent \in Agents /\ InOrder(cs) /\ serial' \in Nat
  BY DEF IInv, Types, Coming
<1>2. agent' = Resume(later) /\ events' = events \o es
  BY DEF Answered, Emits
<1>3. <<>> \in Seq(Calls) /\ cs \in Seq(Calls)
  BY <1>1, EmptySeq DEF Agents
<1>4. later \in Agents /\ later.started = <<>>
  BY <1>1, <1>3 DEF Agents
<1> HIDE DEF later
<1>5. /\ agent' \in Agents /\ (agent'.at = "calls" => agent'.calls # <<>>)
      /\ agent'.at \in {"stream", "calls"} /\ agent'.started = <<>>
  BY <1>1, <1>2, <1>4, AgentTypes
<1>6. es \in Seq(Events) /\ Len(es) = Len(cs) /\ \A i \in 1 .. Len(cs) : es[i] = Event("completed", cs[i].id)
  BY <1>3, CardEvents
<1> HIDE DEF es
<1>7. ASSUME NEW u \in States, Ends(u, agent)
      PROVE  \E v \in States : Leads(u, es, v) /\ Ends(v, agent')
  <2> DEFINE v == [open |-> u.open /\ cs = <<>>, cards |-> {}]
  <2>1. u.cards = Ids(cs) /\ ~u.open
    BY <1>7 DEF Ends
  <2>2. Leads(u, es, v)
    BY <1>1, <1>3, <1>6, <2>1, LeadsCompleted
  <2>3. v \in States /\ ~v.open /\ v.cards = {}
    BY <2>1 DEF States
  <2> HIDE DEF v
  <2>4. Ends(v, agent')
    BY <1>5, <2>3 DEF Ends
  <2> QED
    BY <2>2, <2>3, <2>4
<1>8. InOrder(agent'.started)
  BY <1>5, IdleIs
<1> QED
  BY <1>1, <1>2, <1>5, <1>6, <1>7, <1>8, EmitsKeep

-----------------------------------------------------------------------------
(* The event loop takes an event off the channel.                           *)

LEMMA ApplyKeeps ==
    ASSUME IInv, ApplyEvent
    PROVE  IInv'
<1> DEFINE e == Head(events)
           uttered == e.kind \in {"text", "reasoning", "started", "retrying"}
           cut == broken.stream \/ (e.kind = "reasoning" /\ LastIs(transcript, "agent"))
<1>1. /\ transcript \in Seq(Entries) /\ events \in Seq(Events) /\ heard \in Seq(Nat)
      /\ broken \in [stream : BOOLEAN, cards : BOOLEAN] /\ Types
      /\ Told(transcript) = heard
      /\ ~broken.stream => Tidy(transcript)
      /\ ~broken.cards => Carded(transcript, running)
  BY DEF IInv, Types, Told
<1>2. events # <<>> /\ events' = Tail(events) /\ agent' = agent /\ serial' = serial
  BY DEF ApplyEvent
<1>3. e \in Events /\ events' \in Seq(Events)
  BY <1>1, <1>2, HeadTailProperties
<1>4. CASE e.kind = "compacted"
  <2>1. ClearTranscript(Fold(transcript, e)) /\ running' = running
    BY <1>4 DEF ApplyEvent
  <2>2. Fold(transcript, e) = <<Note>>
    BY <1>4 DEF Fold
  <2> QED
    BY <1>2, <1>4, <2>1, <2>2, ClearKeeps
<1>5. CASE e.kind # "compacted"
  <2>1. PICK s \in States, u \in States :
           /\ s.cards = running
           /\ ~broken.stream /\ Streams(transcript) => s.open
           /\ Leads(s, events, u)
           /\ Ends(u, agent)
    BY DEF IInv, Coming
  <2>2. /\ Fine(s, e) /\ Leads(After(s, e), events', u) /\ After(s, e) \in States
        /\ InOrder(agent.started)
    BY <1>1, <1>2, <1>3, <2>1, LeadsOn, AfterType DEF IInv, Coming
  <2>3. /\ transcript' = Fold(transcript, e) \/ (e.kind = "tasks" /\ transcript' = Append(transcript, Note))
        /\ Spoken(e)
    BY <1>5 DEF ApplyEvent
  <2> HIDE DEF e, uttered, cut
  <2>4. /\ transcript' \in Seq(Entries)
        /\ Told(transcript') = IF uttered THEN Append(Told(transcript), e.id) ELSE Told(transcript)
        /\ ~cut => Tidy(transcript')
        /\ ~cut /\ Streams(transcript') => After(s, e).open
        /\ Carded(transcript, s.cards) => Carded(transcript', After(s, e).cards)
    <3>1. CASE transcript' = Fold(transcript, e)
      <4> DEFINE b == broken.stream
                 w == Fold(transcript, e)
      <4>1. /\ w \in Seq(Entries)
            /\ Told(w) = IF uttered THEN Append(Told(transcript), e.id) ELSE Told(transcript)
            /\ ~cut => Tidy(w)
            /\ ~cut /\ Streams(w) => After(s, e).open
            /\ Carded(transcript, s.cards) => Carded(w, After(s, e).cards)
        BY <1>1, <1>3, <1>5, <2>1, <2>2, FoldKeeps DEF uttered, cut
      <4> HIDE DEF w
      <4> QED
        BY <3>1, <4>1 DEF w
    <3>2. CASE e.kind = "tasks" /\ transcript' = Append(transcript, Note)
      <4>1. Note \in Entries /\ Note.kind = "note" /\ Note.parts = <<>>
        BY EntryTypes DEF Note, Shown
      <4>2. /\ Append(transcript, Note) \in Seq(Entries)
            /\ Told(Append(transcript, Note)) = Told(transcript) \o Note.parts
            /\ Closed(transcript) => Tidy(Append(transcript, Note))
            /\ ~Streams(transcript) /\ Tidy(transcript) => Closed(transcript)
            /\ ~Streams(Append(transcript, Note))
            /\ \A R : Carded(transcript, R) => Carded(Append(transcript, Note), R)
        BY <1>1, <4>1, LineFolds
      <4>3. ~s.open /\ ~uttered /\ (cut <=> broken.stream)
        BY <2>2, <3>2 DEF Fine, Chunks, Closers, uttered, cut
      <4>4. After(s, e) = [open |-> FALSE, cards |-> s.cards]
        BY <3>2, AfterIs DEF Chunks
      <4>5. Told(transcript) \o Note.parts = Told(transcript)
        BY <1>1, <4>1, Spelled
      <4> QED
        BY <1>1, <2>1, <3>2, <4>2, <4>3, <4>4, <4>5
    <3> QED
      BY <2>3, <3>1, <3>2
  <2>5. heard' = IF uttered THEN Append(heard, e.id) ELSE heard
    BY <2>3 DEF Spoken, uttered
  <2>6. running' = After(s, e).cards
    <3>1. CASE e.kind = "started"
      <4>1. After(s, e) = [open |-> FALSE, cards |-> s.cards \union {e.id}]
        BY <3>1, AfterIs
      <4> QED
        BY <2>1, <2>3, <3>1, <4>1 DEF Spoken
    <3>2. CASE e.kind = "completed"
      <4>1. After(s, e) = [open |-> FALSE, cards |-> s.cards \ {e.id}]
        BY <3>2, AfterIs
      <4> QED
        BY <2>1, <2>3, <3>2, <4>1 DEF Spoken
    <3>3. CASE e.kind # "started" /\ e.kind # "completed"
      <4>1. running' = running
        BY <2>3, <3>3 DEF Spoken
      <4>2. After(s, e).cards = s.cards
        BY <3>3 DEF After
      <4> QED
        BY <2>1, <4>1, <4>2
    <3> QED
      BY <3>1, <3>2, <3>3
  <2>7. /\ broken' \in [stream : BOOLEAN, cards : BOOLEAN]
        /\ broken'.stream = cut /\ broken'.cards = broken.cards
    <3>1. cut \in BOOLEAN
      BY DEF cut
    <3>2. broken' = [broken EXCEPT !.stream = cut]
      BY <2>3 DEF Spoken, cut
    <3> QED
      BY <1>1, <3>1, <3>2
  <2>8. Types'
    <3>1. heard' \in Seq(Nat)
      <4>1. Told(transcript') \in Seq(Nat)
        BY <2>4, PartsType
      <4> QED
        BY <1>1, <2>4, <2>5, <4>1
    <3>2. running' \in SUBSET Nat
      BY <2>2, <2>6 DEF States
    <3> QED
      BY <1>1, <1>2, <1>3, <2>4, <2>7, <3>1, <3>2 DEF Types
  <2>9. Coming'
    BY <1>2, <2>1, <2>2, <2>4, <2>6, <2>7 DEF Coming
  <2>10. FlattenSeq(Parts(transcript')) = heard'
    BY <1>1, <2>4, <2>5 DEF Told
  <2>11. ~broken'.stream => Tidy(transcript')
    BY <2>4, <2>7
  <2>12. ~broken'.cards => Carded(transcript', running')
    BY <1>1, <2>1, <2>4, <2>6, <2>7
  <2> QED
    BY <2>8, <2>9, <2>10, <2>11, <2>12 DEF IInv
<1> QED
  BY <1>4, <1>5

-----------------------------------------------------------------------------
LEMMA InitKeeps ==
    ASSUME ConsoleInit
    PROVE  IInv
<1> DEFINE s == [open |-> FALSE, cards |-> {}]
<1>1. /\ transcript = <<>> /\ events = <<>> /\ agent = Idle /\ serial = 0 /\ heard = <<>>
      /\ running = {} /\ broken = [stream |-> FALSE, cards |-> FALSE]
  BY DEF ConsoleInit
<1>2. /\ <<>> \in Seq(Entries) /\ Closed(<<>>) /\ FlattenSeq(Parts(<<>>)) = <<>> /\ Carded(<<>>, {})
      /\ Tidy(<<>>) /\ ~Streams(<<>>)
  BY ClearedIs, ClosedIs
<1>3. <<>> \in Seq(Nat) /\ <<>> \in Seq(Events)
  BY EmptySeq
<1>4. s \in States /\ s.cards = {} /\ ~s.open
  BY DEF States
<1> HIDE DEF s
<1>5. Leads(s, <<>>, s) /\ Ends(s, Idle)
  BY <1>4, IdleIs, LeadsNowhere DEF Ends
<1>6. Coming
  BY <1>1, <1>2, <1>4, <1>5, IdleIs DEF Coming
<1>7. Types
  BY <1>1, <1>2, <1>3, IdleIs DEF Types
<1> QED
  BY <1>1, <1>2, <1>6, <1>7 DEF IInv

LEMMA NextKeeps ==
    ASSUME IInv, [ConsoleNext]_consoleVars
    PROVE  IInv'
<1> DEFINE user == Shown("user", <<>>, FALSE)
<1>1. /\ Note \in Entries /\ Note.kind \in {"user", "note"} /\ Note.parts = <<>>
      /\ user \in Entries /\ user.kind \in {"user", "note"} /\ user.parts = <<>>
  BY EntryTypes DEF Note, Shown
<1>2. ASSUME Push(Note), UNCHANGED <<events, agent, serial>> PROVE IInv'
  BY <1>1, <1>2, PushKeeps
<1>3. ASSUME BeginStep, UNCHANGED <<events, agent, serial>> PROVE IInv'
  BY <1>3, ClearKeeps DEF BeginStep
<1> HIDE DEF user
<1>4. CASE TakeMessage
  BY <1>4, TakeKeeps
<1>5. CASE FinishResponse
  BY <1>5, FinishKeeps
<1>6. CASE CallTools
  BY <1>6, CallToolsKeeps
<1>7. CASE NextCall
  BY <1>7, NextCallKeeps
<1>8. CASE ApplyEvent
  BY <1>8, ApplyKeeps
<1>9. CASE Dismiss
  BY <1>9, NothingChanges DEF Dismiss, NoSession, bridgeVars, ghosts
<1>10. CASE AnswerPrompt
  <2>1. UNCHANGED <<transcript, heard, running, broken, serial>>
    BY <1>10 DEF AnswerPrompt, NoSession, ghosts
  <2>2. CASE agent.at = "asking"
    BY <1>10, <2>1, <2>2, AnswerKeeps DEF AnswerPrompt
  <2>3. CASE agent.at # "asking"
    BY <1>10, <2>1, <2>3, NothingChanges DEF AnswerPrompt
  <2> QED
    BY <2>2, <2>3
<1>11. ASSUME NEW p, StartStep(p) PROVE IInv'
  <2>1. UNCHANGED <<events, agent, serial>> /\ (Push(Note) \/ BeginStep)
    BY <1>11 DEF StartStep
  <2> QED
    BY <1>2, <1>3, <2>1
<1>12. CASE BeginVerification
  BY <1>2, <1>12 DEF BeginVerification
<1>13. CASE DeclineStep
  <2>1. UNCHANGED <<events, agent, serial>> /\ (Push(Note) \/ UNCHANGED <<transcript, ghosts>>)
    BY <1>13 DEF DeclineStep, bridgeVars
  <2> QED
    BY <1>2, <2>1, NothingChanges DEF ghosts
<1>14. CASE AnswerCaps
  BY <1>14, NothingChanges DEF AnswerCaps, NoSession, bridgeVars, ghosts
<1>15. CASE CapsLand
  BY <1>15, SpawnKeeps DEF CapsLand
<1>16. CASE Submit
  <2>1. Push(user) /\ UNCHANGED <<events, agent, serial>>
    BY <1>16 DEF Submit, user
  <2> QED
    BY <1>1, <2>1, PushKeeps
<1>17. CASE Notice
  BY <1>2, <1>17 DEF Notice, bridgeVars
<1>18. CASE Compact
  BY <1>2, <1>18 DEF Compact
<1>19. CASE Clear
  BY <1>19, ClearKeeps DEF Clear
<1>20. CASE Usage
  BY <1>20, NothingChanges DEF Usage, bridgeVars, ghosts
<1>21. CASE Interrupt
  BY <1>21, NothingChanges DEF Interrupt, ghosts
<1>22. CASE OpenScreen
  BY <1>22, NothingChanges DEF OpenScreen, bridgeVars, ghosts
<1>23. CASE LeaveDiff
  BY <1>2, <1>23 DEF LeaveDiff, bridgeVars
<1>24. CASE ChooseStep
  <2>1. /\ UNCHANGED <<events, agent, serial>>
        /\ Push(Note) \/ BeginStep \/ UNCHANGED <<transcript, ghosts>>
    BY <1>24 DEF ChooseStep
  <2> QED
    BY <1>2, <1>3, <2>1, NothingChanges DEF ghosts
<1>25. CASE PickModel
  BY <1>25, SpawnKeeps DEF PickModel
<1>26. CASE UNCHANGED consoleVars
  BY <1>26, NothingChanges DEF consoleVars, bridgeVars, ghosts
<1> QED
  BY <1>4, <1>5, <1>6, <1>7, <1>8, <1>9, <1>10, <1>11, <1>12, <1>13, <1>14, <1>15, <1>16, <1>17,
     <1>18, <1>19, <1>20, <1>21, <1>22, <1>23, <1>24, <1>25, <1>26 DEF ConsoleNext

\* Everything the transcript's truth rests on holds in every state, whatever
\* the order of the agent's steps, the events taken and the keys (apply_event,
\* append_stream, append_reasoning, finish_stream, dispatch_tools).
THEOREM ChannelTrue == ConsoleSpec => []IInv
<1>1. ConsoleInit => IInv
  BY InitKeeps
<1>2. IInv /\ [ConsoleNext]_consoleVars => IInv'
  BY NextKeeps
<1> QED
  BY <1>1, <1>2, PTL DEF ConsoleSpec

LEMMA TranscriptHolds ==
    ASSUME IInv
    PROVE  TranscriptTrue
<1>1. /\ transcript \in Seq(Entries) /\ Len(transcript) \in Nat
      /\ DOMAIN transcript = 1 .. Len(transcript)
      /\ agent \in Agents /\ events \in Seq(Events)
  BY LenProperties DEF IInv, Types
<1>2. FlattenSeq([i \in DOMAIN transcript |-> transcript[i].parts]) = heard
  BY DEF IInv, Parts
<1>3. ASSUME Quiet PROVE running = {} /\ (~broken.stream => ~Streams(transcript))
  <2>1. PICK s \in States, u \in States :
           /\ s.cards = running
           /\ ~broken.stream /\ Streams(transcript) => s.open
           /\ Leads(s, events, u)
           /\ Ends(u, agent)
    BY DEF IInv, Coming
  <2>2. events = <<>> /\ agent.at = "idle"
    BY <1>3 DEF Quiet
  <2>3. s = u
    <3>1. Len(<<>>) + 1 = 1
      OBVIOUS
    <3> QED
      BY <2>1, <2>2, <3>1 DEF Leads
  <2>4. u.cards = {} /\ ~u.open
    BY <2>1, <2>2 DEF Ends
  <2> QED
    BY <2>1, <2>3, <2>4
<1>4. ASSUME Quiet, ~broken.stream, NEW i \in DOMAIN transcript, transcript[i].kind # "card"
      PROVE  ~transcript[i].open
  <2>1. Tidy(transcript) /\ ~Streams(transcript)
    BY <1>3, <1>4 DEF IInv
  <2>2. CASE i = Len(transcript)
    <3>1. transcript # <<>> /\ Last(transcript) = transcript[i]
      BY <1>1, <1>4, <2>2, EmptySeq, LastEntry
    <3>2. transcript[i] \in Entries
      BY <1>1, <1>4, ElementOfSeq
    <3>3. transcript[i].open => transcript[i].kind \in {"agent", "thinking"}
      BY <1>4, <3>2 DEF Entries
    <3> QED
      BY <2>1, <3>1, <3>3 DEF Streams, LastIs
  <2>3. CASE i # Len(transcript)
    <3>1. i \in 1 .. Len(transcript) - 1
      BY <1>1, <1>4, <2>3
    <3> QED
      BY <1>4, <2>1, <3>1 DEF Tidy
  <2> QED
    BY <2>2, <2>3
<1>5. ASSUME ~broken.cards, NEW i \in DOMAIN transcript, transcript[i].kind = "card"
      PROVE  IF transcript[i].open THEN ~Quiet ELSE <<transcript[i].result>> = transcript[i].parts
  <2>1. Carded(transcript, running) /\ i \in 1 .. Len(transcript)
    BY <1>1, <1>5 DEF IInv
  <2>2. CASE transcript[i].open
    <3>1. i \in RunningCards(transcript)
      BY <1>5, <2>1, <2>2 DEF RunningCards
    <3>2. running # {}
      BY <2>1, <3>1 DEF Carded
    <3> QED
      BY <1>3, <2>2, <3>2
  <2>3. CASE ~transcript[i].open
    BY <1>5, <2>1, <2>3 DEF Carded
  <2> QED
    BY <2>2, <2>3
<1> QED
  BY <1>2, <1>4, <1>5 DEF TranscriptTrue

\* What the agent said and did since the transcript was last cleared stands
\* in it, each once and in order, nothing streams or runs when the turn is
\* over, and a card shows the result of its own call (apply_event,
\* append_stream, append_reasoning, finish_stream, dispatch_tools).
THEOREM TranscriptIsTrue == ConsoleSpec => []TranscriptTrue
  BY ChannelTrue, TranscriptHolds, PTL

-----------------------------------------------------------------------------
(* The popups. While a model's capabilities are verified nothing else can   *)
(* open: the session is new and no key reaches the chat screen.             *)

Names == {"notice", "permission", "plan", "confirm", "verify", "next", "caps", "probing", "usage"}
Verifying == "caps" \in popups \/ "probing" \in popups

PopupsInv ==
    /\ popups \subseteq Names
    /\ Verifying =>
          /\ popups \subseteq {"notice", "caps", "probing"}
          /\ ~("caps" \in popups /\ "probing" \in popups)
          /\ agent.at = "idle" /\ inbox = <<>> /\ events = <<>>

LEMMA LeastIs ==
    ASSUME NEW S \in SUBSET Int, NEW x \in S, \A y \in S : x <= y
    PROVE  Min(S) = x
<1> DEFINE m == CHOOSE i \in S : \A y \in S : i <= y
<1>1. m \in S /\ \A y \in S : m <= y
  OBVIOUS
<1> HIDE DEF m
<1>2. m = x
  BY <1>1
<1> QED
  BY <1>2 DEF Min, m

LEMMA GreatestIs ==
    ASSUME NEW S \in SUBSET Int, NEW x \in S, \A y \in S : y <= x
    PROVE  Max(S) = x
<1> DEFINE m == CHOOSE i \in S : \A y \in S : i >= y
<1>1. m \in S /\ \A y \in S : m >= y
  OBVIOUS
<1> HIDE DEF m
<1>2. m = x
  BY <1>1
<1> QED
  BY <1>2 DEF Max, m

\* The first of an order that is open.
LEMMA FirstOpenIs ==
    ASSUME NEW order, NEW n \in Nat, DOMAIN order = 1 .. n, NEW i \in 1 .. n,
           order[i] \in popups, \A j \in 1 .. n : j < i => order[j] \notin popups
    PROVE  FirstOpen(order) = order[i]
<1>1. OpenOf(order) \in SUBSET Int /\ i \in OpenOf(order) /\ \A j \in OpenOf(order) : i <= j
  BY DEF OpenOf
<1>2. Min(OpenOf(order)) = i /\ OpenOf(order) # {}
  BY <1>1, LeastIs
<1> QED
  BY <1>2 DEF FirstOpen

LEMMA Orders ==
    /\ DOMAIN KeyOrder = 1 .. 9
    /\ KeyOrder[1] = "notice" /\ KeyOrder[2] = "permission" /\ KeyOrder[3] = "plan"
    /\ KeyOrder[4] = "confirm" /\ KeyOrder[5] = "verify" /\ KeyOrder[6] = "next"
    /\ KeyOrder[7] = "caps" /\ KeyOrder[8] = "probing" /\ KeyOrder[9] = "usage"
    /\ DOMAIN DrawnInstead = 1 .. 4
    /\ DrawnInstead[1] = "plan" /\ DrawnInstead[2] = "confirm"
    /\ DrawnInstead[3] = "verify" /\ DrawnInstead[4] = "next"
    /\ DOMAIN DrawnOver = 1 .. 5
    /\ DrawnOver[1] = "permission" /\ DrawnOver[2] = "usage" /\ DrawnOver[3] = "notice"
    /\ DrawnOver[4] = "caps" /\ DrawnOver[5] = "probing"
<1>1. /\ DOMAIN KeyOrder = 1 .. 9
      /\ KeyOrder[1] = "notice" /\ KeyOrder[2] = "permission" /\ KeyOrder[3] = "plan"
      /\ KeyOrder[4] = "confirm" /\ KeyOrder[5] = "verify" /\ KeyOrder[6] = "next"
      /\ KeyOrder[7] = "caps" /\ KeyOrder[8] = "probing" /\ KeyOrder[9] = "usage"
  BY DEF KeyOrder
<1>2. /\ DOMAIN DrawnInstead = 1 .. 4
      /\ DrawnInstead[1] = "plan" /\ DrawnInstead[2] = "confirm"
      /\ DrawnInstead[3] = "verify" /\ DrawnInstead[4] = "next"
  BY DEF DrawnInstead
<1>3. /\ DOMAIN DrawnOver = 1 .. 5
      /\ DrawnOver[1] = "permission" /\ DrawnOver[2] = "usage" /\ DrawnOver[3] = "notice"
      /\ DrawnOver[4] = "caps" /\ DrawnOver[5] = "probing"
  BY DEF DrawnOver
<1> QED
  BY <1>1, <1>2, <1>3

\* handle_key asks the popups in its order.
LEMMA Answers ==
    ASSUME popups \subseteq Names
    PROVE  /\ Answering = "none" <=> popups = {}
           /\ Answering # "none" => Answering \in popups
           /\ \A i \in 1 .. 9 :
                 KeyOrder[i] \in popups /\ (\A j \in 1 .. 9 : j < i => KeyOrder[j] \notin popups)
                    => Answering = KeyOrder[i]
<1>1. ASSUME NEW i \in 1 .. 9, KeyOrder[i] \in popups, \A j \in 1 .. 9 : j < i => KeyOrder[j] \notin popups
      PROVE  Answering = KeyOrder[i]
  BY <1>1, Orders, FirstOpenIs DEF Answering
<1>2. CASE popups = {}
  <2>1. OpenOf(KeyOrder) = {}
    BY <1>2 DEF OpenOf
  <2>2. Answering = "none"
    BY <2>1 DEF Answering, FirstOpen
  <2> QED
    BY <1>1, <1>2, <2>2
<1>3. CASE popups # {}
  <2>1. PICK i \in 1 .. 9 : KeyOrder[i] \in popups /\ \A j \in 1 .. 9 : j < i => KeyOrder[j] \notin popups
    <3> DEFINE S == {i \in 1 .. 9 : KeyOrder[i] \in popups}
    <3>1. S # {}
      <4>1. PICK p \in Names : p \in popups
        BY <1>3
      <4>2. \E i \in {1, 2, 3, 4, 5, 6, 7, 8, 9} : KeyOrder[i] = p
        BY Orders DEF Names
      <4>3. PICK i \in 1 .. 9 : KeyOrder[i] = p
        BY <4>2
      <4> QED
        BY <4>1, <4>3
    <3>2. \E i \in S : \A j \in S : i <= j
      <4>1. S \in SUBSET Nat
        OBVIOUS
      <4> HIDE DEF S
      <4> QED
        BY <3>1, <4>1, Least
    <3> QED
      BY <3>2
  <2>2. Answering = KeyOrder[i] /\ KeyOrder[i] \in popups
    BY <1>1, <2>1
  <2>3. "none" \notin Names
    BY DEF Names
  <2> QED
    BY <1>1, <1>3, <2>2, <2>3
<1> QED
  BY <1>2, <1>3

LEMMA Locked ==
    ASSUME PopupsInv, Verifying
    PROVE  Answering \in {"notice", "caps", "probing"}
<1>1. popups \subseteq {"notice", "caps", "probing"} /\ popups # {} /\ popups \subseteq Names
  BY DEF PopupsInv, Verifying
<1> QED
  BY <1>1, Answers

LEMMA OthersOpen ==
    ASSUME PopupsInv, ~Verifying, popups' \subseteq popups \union (Names \ {"caps", "probing"})
    PROVE  PopupsInv'
  BY DEF PopupsInv, Verifying, Names

LEMMA OnlyClosed ==
    ASSUME PopupsInv, popups' \subseteq popups, UNCHANGED <<agent, inbox, events>>
    PROVE  PopupsInv'
  BY DEF PopupsInv, Verifying

LEMMA PopupsKeep ==
    ASSUME PopupsInv, [ConsoleNext]_consoleVars
    PROVE  PopupsInv'
<1>0. Verifying => agent.at = "idle" /\ inbox = <<>> /\ events = <<>>
                     /\ Answering \notin {"none", "permission", "plan", "confirm", "verify", "next"}
  BY Locked DEF PopupsInv
<1> DEFINE Usual == Names \ {"caps", "probing"}
<1>1. {"permission", "plan", "verify", "next", "confirm", "usage"} \subseteq Usual
  BY DEF Names
<1> HIDE DEF Usual
<1>2. ASSUME ~Verifying, popups' \subseteq popups \union Usual PROVE PopupsInv'
  BY <1>2, OthersOpen DEF Usual
<1>3. CASE TakeMessage
  BY <1>0, <1>2, <1>3 DEF TakeMessage
<1>4. CASE FinishResponse
  BY <1>0, <1>2, <1>4 DEF FinishResponse
<1>5. CASE CallTools
  <2>1. agent.at = "stream" /\ popups' = popups
    BY <1>5 DEF CallTools
  <2> QED
    BY <1>0, <1>2, <2>1
<1>6. CASE NextCall
  <2>1. agent.at = "calls" /\ popups' = popups
    BY <1>6 DEF NextCall
  <2> QED
    BY <1>0, <1>2, <2>1
<1>7. CASE ApplyEvent
  <2>1. events # <<>>
    BY <1>7 DEF ApplyEvent
  <2>2. \/ Offer
        \/ Head(events).kind \in {"permission", "plan"} /\ popups' = popups \union {Head(events).kind}
        \/ popups' = popups
    <3>1. CASE Head(events).kind = "done"
      BY <1>7, <3>1 DEF ApplyEvent
    <3>2. CASE Head(events).kind \in {"permission", "plan"}
      BY <1>7, <3>2 DEF ApplyEvent
    <3>3. CASE Head(events).kind # "done" /\ Head(events).kind \notin {"permission", "plan"}
      BY <1>7, <3>3 DEF ApplyEvent
    <3> QED
      BY <3>1, <3>2, <3>3
  <2>3. popups' \subseteq popups \union Usual
    <3>1. Offer => popups' \subseteq popups \union {"verify", "next"}
      BY DEF Offer
    <3> QED
      BY <1>1, <2>2, <3>1
  <2> QED
    BY <1>0, <1>2, <2>1, <2>3
<1>8. CASE Dismiss
  BY <1>8, OnlyClosed DEF Dismiss, Popup, bridgeVars
<1>9. CASE AnswerPrompt
  BY <1>0, <1>2, <1>9 DEF AnswerPrompt, Popup
<1>10. ASSUME NEW p \in {"confirm", "next"}, StartStep(p) PROVE PopupsInv'
  <2>1. Answering = p /\ popups' \subseteq popups
    BY <1>10 DEF StartStep
  <2> QED
    BY <1>0, <1>2, <2>1
<1>11. CASE BeginVerification
  BY <1>0, <1>2, <1>11 DEF BeginVerification, Popup
<1>12. CASE DeclineStep
  BY <1>0, <1>2, <1>12 DEF DeclineStep, Popup
<1>13. CASE AnswerCaps
  <2>1. /\ Answering = "caps" /\ UNCHANGED <<agent, inbox, events>>
        /\ \E then \in {{}, {"probing"}} : popups' = (popups \ {"caps"}) \union then
    BY <1>13 DEF AnswerCaps, bridgeVars
  <2>2. "caps" \in popups
    BY <2>1, Answers DEF PopupsInv
  <2> QED
    BY <2>1, <2>2 DEF PopupsInv, Verifying, Names
<1>14. CASE CapsLand
  <2>1. /\ "probing" \in popups
        /\ popups' = popups \ {"plan", "confirm", "verify", "next", "probing"}
    BY <1>14 DEF CapsLand
  <2> QED
    BY <2>1 DEF PopupsInv, Verifying
<1>15. CASE Answering = "none" /\ popups' \subseteq popups \union Usual
  BY <1>0, <1>2, <1>15
<1>16. CASE Submit
  BY <1>15, <1>16 DEF Submit, Key
<1>17. CASE Notice
  BY <1>15, <1>17 DEF Notice, Key
<1>18. CASE Compact
  BY <1>15, <1>18 DEF Compact, Key
<1>19. CASE Clear
  BY <1>15, <1>19 DEF Clear, Key
<1>20. CASE Usage
  BY <1>1, <1>15, <1>20 DEF Usage, Key
<1>21. CASE Interrupt
  BY <1>15, <1>21 DEF Interrupt, Key
<1>22. CASE OpenScreen
  BY <1>15, <1>22 DEF OpenScreen, Key
<1>23. CASE LeaveDiff
  BY <1>15, <1>23 DEF LeaveDiff, Key
<1>24. CASE ChooseStep
  <2>1. Answering = "none"
    BY <1>24 DEF ChooseStep, Key
  <2>2. popups' \subseteq popups \union {"confirm"}
    BY <1>24 DEF ChooseStep
  <2> QED
    BY <1>1, <1>15, <2>1, <2>2
<1>25. CASE PickModel
  <2>1. /\ Answering = "none"
        /\ agent' = Idle /\ inbox' = <<>> /\ events' = <<>>
        /\ \E more \in SUBSET {"notice", "caps"} :
              popups' = (popups \ {"plan", "confirm", "verify", "next"}) \union more
    BY <1>25 DEF PickModel, SpawnSession, Key
  <2>2. popups = {}
    BY <2>1, Answers DEF PopupsInv
  <2>3. popups' \subseteq {"notice", "caps"}
    BY <2>1, <2>2
  <2> QED
    BY <2>1, <2>3, IdleIs DEF PopupsInv, Verifying, Names
<1>26. CASE UNCHANGED consoleVars
  BY <1>26, OnlyClosed DEF consoleVars, bridgeVars
<1> QED
  BY <1>3, <1>4, <1>5, <1>6, <1>7, <1>8, <1>9, <1>10, <1>11, <1>12, <1>13, <1>14, <1>16, <1>17,
     <1>18, <1>19, <1>20, <1>21, <1>22, <1>23, <1>24, <1>25, <1>26 DEF ConsoleNext

LEMMA TopAnswers ==
    ASSUME PopupsInv
    PROVE  TopPopupAnswers
<1> SUFFICES ASSUME popups # {}
             PROVE  \/ OnTop = Answering
                    \/ OnTop = "usage"
                    \/ Answering = "notice" /\ OnTop \in {"caps", "probing"}
  BY DEF TopPopupAnswers
<1>0. popups \subseteq Names
  BY DEF PopupsInv
<1>1. ASSUME NEW i \in 1 .. 9, KeyOrder[i] \in popups, \A j \in 1 .. 9 : j < i => KeyOrder[j] \notin popups
      PROVE  Answering = KeyOrder[i]
  BY <1>0, <1>1, Answers
<1>2. ASSUME NEW i \in 1 .. 5, DrawnOver[i] \in popups, \A j \in 1 .. 5 : i < j => DrawnOver[j] \notin popups
      PROVE  OnTop = DrawnOver[i]
  <2>1. OpenOf(DrawnOver) \in SUBSET Int /\ i \in OpenOf(DrawnOver) /\ \A j \in OpenOf(DrawnOver) : j <= i
    BY <1>2, Orders DEF OpenOf
  <2>2. Max(OpenOf(DrawnOver)) = i /\ OpenOf(DrawnOver) # {}
    BY <2>1, GreatestIs
  <2> QED
    BY <2>2 DEF OnTop
<1>3. ASSUME NEW i \in 1 .. 4, DrawnInstead[i] \in popups,
             \A j \in 1 .. 4 : j < i => DrawnInstead[j] \notin popups,
             \A j \in 1 .. 5 : DrawnOver[j] \notin popups
      PROVE  OnTop = DrawnInstead[i]
  <2>1. OpenOf(DrawnOver) = {}
    BY <1>3, Orders DEF OpenOf
  <2>2. FirstOpen(DrawnInstead) = DrawnInstead[i]
    BY <1>3, Orders, FirstOpenIs
  <2> QED
    BY <2>1, <2>2 DEF OnTop
<1>4. CASE Verifying
  <2>1. popups \subseteq {"notice", "caps", "probing"} /\ ~("caps" \in popups /\ "probing" \in popups)
    BY <1>4 DEF PopupsInv
  <2>2. Answering \in popups /\ ("notice" \notin popups => popups = {Answering})
    BY <1>0, <2>1, Answers
  <2>3. Answering = "notice" \/ popups = {Answering}
    BY <1>1, <2>2, Orders
  <2>4. OnTop \in {"caps", "probing"} /\ OnTop \in popups
    <3>1. CASE "probing" \in popups
      BY <1>2, <3>1, Orders
    <3>2. CASE "probing" \notin popups
      <4>1. DrawnOver[4] \in popups /\ DrawnOver[5] \notin popups
        BY <1>4, <3>2, Orders DEF Verifying
      <4>2. OnTop = DrawnOver[4]
        BY <1>2, <4>1
      <4> QED
        BY <4>1, <4>2, Orders
    <3> QED
      BY <3>1, <3>2
  <2> QED
    BY <2>3, <2>4
<1>5. CASE ~Verifying
  <2>0. "caps" \notin popups /\ "probing" \notin popups
    BY <1>5 DEF Verifying
  <2>1. CASE "notice" \in popups
    <3>1. Answering = KeyOrder[1]
      BY <1>1, <2>1, Orders
    <3>2. OnTop = DrawnOver[3]
      <4>1. DrawnOver[3] \in popups /\ \A j \in 1 .. 5 : 3 < j => DrawnOver[j] \notin popups
        BY <2>0, <2>1, Orders
      <4> QED
        BY <1>2, <4>1
    <3> QED
      BY <3>1, <3>2, Orders
  <2>2. CASE "notice" \notin popups /\ "usage" \in popups
    <3>1. DrawnOver[2] \in popups /\ \A j \in 1 .. 5 : 2 < j => DrawnOver[j] \notin popups
      BY <2>0, <2>2, Orders
    <3> QED
      BY <1>2, <3>1, Orders
  <2>3. CASE "notice" \notin popups /\ "usage" \notin popups /\ "permission" \in popups
    <3>1. DrawnOver[1] \in popups /\ \A j \in 1 .. 5 : 1 < j => DrawnOver[j] \notin popups
      BY <2>0, <2>3, Orders
    <3>2. KeyOrder[2] \in popups /\ \A j \in 1 .. 9 : j < 2 => KeyOrder[j] \notin popups
      BY <2>3, Orders
    <3> QED
      BY <1>1, <1>2, <3>1, <3>2, Orders
  <2>4. CASE popups \cap {"notice", "usage", "permission"} = {}
    <3>1. popups \subseteq {"plan", "confirm", "verify", "next"} /\ \A j \in 1 .. 5 : DrawnOver[j] \notin popups
      BY <1>0, <2>0, <2>4, Orders DEF Names
    <3>2. PICK i \in 1 .. 4 : DrawnInstead[i] \in popups /\ \A j \in 1 .. 4 : j < i => DrawnInstead[j] \notin popups
      <4> DEFINE S == {i \in 1 .. 4 : DrawnInstead[i] \in popups}
      <4>1. \E i \in {1, 2, 3, 4} : DrawnInstead[i] \in popups
        BY <3>1, Orders
      <4>2. S # {} /\ S \in SUBSET Nat
        BY <4>1
      <4>3. \E i \in S : \A j \in S : i <= j
        <5> HIDE DEF S
        <5> QED
          BY <4>2, Least
      <4> QED
        BY <4>3
    <3>3. OnTop = DrawnInstead[i]
      BY <1>3, <3>1, <3>2
    <3>4. KeyOrder[i + 2] = DrawnInstead[i] /\ \A j \in 1 .. 9 : j < i + 2 => KeyOrder[j] \notin popups
      BY <2>4, <3>2, Orders
    <3>5. Answering = KeyOrder[i + 2]
      BY <1>1, <3>2, <3>4
    <3> QED
      BY <3>3, <3>4, <3>5
  <2> QED
    BY <2>1, <2>2, <2>3, <2>4
<1> QED
  BY <1>4, <1>5

\* The popup that takes a key is the one drawn on top, in every order events
\* and keys may open them (handle_key, chat::render).
THEOREM TopPopupAlwaysAnswers == ConsoleSpec => []TopPopupAnswers
<1>1. ConsoleInit => PopupsInv
  BY DEF ConsoleInit, PopupsInv, Verifying
<1>2. PopupsInv /\ [ConsoleNext]_consoleVars => PopupsInv'
  BY PopupsKeep
<1>3. PopupsInv => TopPopupAnswers
  BY TopAnswers
<1> QED
  BY <1>1, <1>2, <1>3, PTL DEF ConsoleSpec

-----------------------------------------------------------------------------
(* EventLoop.                                                                *)

Messages == [n : Nat, kind : {"progress"} \union Asks]
Workers == [at : {"waits", "works"} \union Asks, left : Nat]

LoopTypeOK ==
    /\ loop \in [at : {"select", "send", "ended"}, message : Nat]
    /\ bridge \in Bridges \union {0} /\ (loop.at = "send" => bridge # 0)
    /\ mailbox \in [Bridges -> Seq(Nat)]
    /\ stream \in [Bridges -> Seq(Messages)]
    /\ sent \in [Bridges -> Nat] /\ taken \in [Bridges -> Nat] /\ said \in [Bridges -> Nat]
    /\ worker \in [Bridges -> Workers]
    /\ pending \in [Asks -> Bridges \union {NoOne}]
    /\ applied \in Seq([from : Bridges, n : Nat])

\* What is known of the bridges to come: nothing was said or heard of them.
NoneToCome ==
    /\ \A b \in Bridges : b > bridge => said[b] = 0
    /\ \A i \in DOMAIN applied : applied[i].from <= bridge

\* The mailbox holds the messages after those that were taken, the loop the last.
Mailed(b) ==
    /\ Len(mailbox[b]) <= INBOX_CAP
    /\ \A i \in DOMAIN mailbox[b] : mailbox[b][i] = taken[b] + i
    /\ sent[b] = taken[b] + Len(mailbox[b]) + Len(Waiting(b))
    /\ b = bridge /\ loop.at = "send" => loop.message = sent[b]

\* A request is the last thing an agent said, and it is in the channel or shown,
\* never both; a prompt that is shown is of an agent that waits for it.
Asked ==
    /\ \A b \in Bridges : \A i \in DOMAIN stream[b] :
          stream[b][i].kind \in Asks =>
              /\ i = Len(stream[b]) /\ worker[b].at = stream[b][i].kind
              /\ pending[stream[b][i].kind] # b
    /\ \A kind \in Asks : pending[kind] # NoOne => worker[pending[kind]].at = kind

LInv ==
    /\ LoopTypeOK
    /\ EventsAgree /\ NoneToCome
    /\ \A b \in Bridges : Mailed(b)
    /\ Asked /\ PromptsAgree

-----------------------------------------------------------------------------
(* Sequences.                                                              *)

\* Without its first element a sequence is one shorter, and all move down.
LEMMA TailFacts ==
    ASSUME NEW S, NEW q \in Seq(S), q # <<>>
    PROVE  /\ Tail(q) \in Seq(S) /\ Len(q) \in Nat /\ Len(q) > 0
           /\ Len(Tail(q)) = Len(q) - 1 /\ DOMAIN Tail(q) = 1 .. (Len(q) - 1)
           /\ \A i \in 1 .. (Len(q) - 1) : Tail(q)[i] = q[i + 1]
OBVIOUS

\* With one element more.
LEMMA AppendFacts ==
    ASSUME NEW S, NEW q \in Seq(S), NEW e \in S
    PROVE  /\ Append(q, e) \in Seq(S) /\ Len(q) \in Nat
           /\ Len(Append(q, e)) = Len(q) + 1 /\ DOMAIN Append(q, e) = 1 .. (Len(q) + 1)
           /\ Append(q, e)[Len(q) + 1] = e
           /\ \A i \in 1 .. Len(q) : Append(q, e)[i] = q[i]
OBVIOUS

\* One sequence after another.
LEMMA JoinFacts ==
    ASSUME NEW S, NEW p \in Seq(S), NEW q \in Seq(S)
    PROVE  /\ p \o q \in Seq(S) /\ Len(p) \in Nat /\ Len(q) \in Nat
           /\ Len(p \o q) = Len(p) + Len(q)
           /\ \A i \in 1 .. Len(p) : (p \o q)[i] = p[i]
           /\ \A i \in 1 .. Len(q) : (p \o q)[Len(p) + i] = q[i]
OBVIOUS

\* The log of what was taken names bridges and numbers.
LEMMA AppliedFacts ==
    ASSUME LoopTypeOK, NEW i \in DOMAIN applied
    PROVE  /\ i \in Nat /\ i >= 1 /\ i <= Len(applied)
           /\ applied[i] \in [from : Bridges, n : Nat]
           /\ applied[i].from \in Bridges /\ applied[i].n \in Nat
<1> DEFINE Taken == [from : Bridges, n : Nat]
<1>1. applied \in Seq(Taken)
  BY DEF LoopTypeOK
<1> HIDE DEF Taken
<1>2. i \in Nat /\ i >= 1 /\ i <= Len(applied) /\ applied[i] \in Taken
  BY <1>1
<1> QED
  BY <1>2 DEF Taken

\* How many events were heard is a number.
LEMMA HeardFacts ==
    ASSUME LoopTypeOK
    PROVE  Heard \in Nat
<1>1. Len(applied) \in Nat /\ (Len(applied) > 0 => Len(applied) \in DOMAIN applied)
  BY DEF LoopTypeOK
<1>2. Len(applied) > 0 => applied[Len(applied)].n \in Nat
  BY <1>1, AppliedFacts
<1> QED
  BY <1>2 DEF Heard

-----------------------------------------------------------------------------
(* What a step leaves alone stays as it is.                                *)

\* What was said and heard is not touched.
LEMMA QuietEvents ==
    ASSUME EventsAgree, NoneToCome, UNCHANGED <<applied, said, bridge, stream>>
    PROVE  EventsAgree' /\ NoneToCome'
BY DEF EventsAgree, NoneToCome, Heard

\* The messages are not touched.
LEMMA QuietMail ==
    ASSUME \A b \in Bridges : Mailed(b), UNCHANGED <<mailbox, sent, taken, bridge, loop>>
    PROVE  \A b \in Bridges : Mailed(b)'
BY DEF Mailed, Waiting

\* No agent begins to wait or stops waiting, and no prompt comes or goes.
LEMMA QuietAsks ==
    ASSUME Asked, PromptsAgree, UNCHANGED <<stream, pending, bridge>>,
           \A b \in Bridges : worker'[b].at = worker[b].at \/ {worker'[b].at, worker[b].at} \cap Asks = {},
           pending \in [Asks -> Bridges \union {NoOne}]
    PROVE  Asked' /\ PromptsAgree'
<1>1. Asked'
  BY DEF Asked, NoOne
<1>2. PromptsAgree'
  BY DEF PromptsAgree, AsksIn
<1> QED
  BY <1>1, <1>2

-----------------------------------------------------------------------------
(* The agents.                                                             *)

\* An agent that takes a message takes the next one, and waited for no answer.
LEMMA TakeNextSound ==
    ASSUME LInv, NEW b \in Bridges, TakeNext(b)
    PROVE  LInv'
<1> USE DEF LInv, LoopTypeOK
<1>1. mailbox[b] \in Seq(Nat) /\ mailbox[b] # <<>> /\ taken[b] \in Nat /\ Mailed(b)
  BY DEF TakeNext
<1>2. /\ mailbox' = [mailbox EXCEPT ![b] = Tail(mailbox[b])]
      /\ taken' = [taken EXCEPT ![b] = taken[b] + 1]
      /\ UNCHANGED <<unread, keysRead, loop, bridge, stream, sent, said, pending, probing, applied>>
  BY DEF TakeNext
<1>3. PICK n \in 0 .. MaxEvents : worker' = [worker EXCEPT ![b] = [at |-> "works", left |-> n]]
  BY DEF TakeNext
<1>4. Tail(mailbox[b]) \in Seq(Nat) /\ [at |-> "works", left |-> n] \in Workers
  BY <1>1, EventLoopAssumption DEF Workers
<1>5. LoopTypeOK'
  BY <1>2, <1>3, <1>4, SMTT(60)
<1>6. \A c \in Bridges : Mailed(c)'
  <2> SUFFICES ASSUME NEW c \in Bridges PROVE Mailed(c)'
    OBVIOUS
  <2>2. CASE c = b
    <3> DEFINE m == mailbox[b]
               t == taken[b]
    <3>1. m \in Seq(Nat) /\ m # <<>> /\ t \in Nat
      BY <1>1
    <3>2. /\ Len(m) <= INBOX_CAP /\ \A i \in DOMAIN m : m[i] = t + i
          /\ sent[b] = t + Len(m) + Len(Waiting(b))
          /\ b = bridge /\ loop.at = "send" => loop.message = sent[b]
      BY <1>1 DEF Mailed
    <3>3. mailbox'[b] = Tail(m) /\ taken'[b] = t + 1 /\ Waiting(b)' = Waiting(b)
      BY <1>2 DEF Waiting
    <3>4. Len(Waiting(b)) \in Nat
      BY DEF Waiting
    <3>5. INBOX_CAP \in Nat /\ DOMAIN m = 1 .. Len(m)
      BY <3>1, EventLoopAssumption
    <3> HIDE DEF m, t
    <3>6. Len(Tail(m)) <= INBOX_CAP /\ sent[b] = (t + 1) + Len(Tail(m)) + Len(Waiting(b))
      BY <3>1, <3>2, <3>4, <3>5, TailFacts
    <3>7. ASSUME NEW i \in DOMAIN Tail(m)
          PROVE  Tail(m)[i] = (t + 1) + i
      <4>1. i \in 1 .. (Len(m) - 1) /\ Tail(m)[i] = m[i + 1] /\ Len(m) \in Nat
        BY <3>1, TailFacts
      <4> HIDE DEF LInv, LoopTypeOK
      <4>2. i + 1 \in 1 .. Len(m)
        BY <4>1
      <4>4. i + 1 \in DOMAIN m
        BY <4>2, <3>5
      <4>3. m[i + 1] = t + (i + 1)
        BY <4>4, <3>2, Zenon
      <4> QED
        BY <4>1, <4>3, <3>1
    <3> QED
      BY <2>2, <3>2, <3>3, <3>6, <3>7, <1>2 DEF Mailed
  <2>3. CASE c # b
    BY <1>2, <2>3 DEF Mailed, Waiting
  <2> QED
    BY <2>2, <2>3
<1>7. EventsAgree' /\ NoneToCome'
  BY <1>2, QuietEvents
<1>8. \A c \in Bridges : worker'[c].at = worker[c].at \/ {worker'[c].at, worker[c].at} \cap Asks = {}
  BY <1>3 DEF TakeNext, Asks, Workers
<1>9. Asked' /\ PromptsAgree'
  BY <1>2, <1>8, QuietAsks
<1> QED
  BY <1>5, <1>6, <1>7, <1>9

\* An agent that is done with a turn waited for no answer.
LEMMA FinishTurnSound ==
    ASSUME LInv, NEW b \in Bridges, FinishTurn(b)
    PROVE  LInv'
<1> USE DEF LInv, LoopTypeOK
<1>1. /\ worker' = [worker EXCEPT ![b] = Resting] /\ worker[b].at = "works"
      /\ UNCHANGED <<unread, keysRead, loop, bridge, wires, pending, probing, applied>>
  BY DEF FinishTurn
<1>2. Resting \in Workers /\ Resting.at = "waits"
  BY DEF Resting, Workers
<1>3. LoopTypeOK'
  BY <1>1, <1>2 DEF wires
<1>4. \A c \in Bridges : Mailed(c)'
  BY <1>1, QuietMail DEF wires
<1>5. EventsAgree' /\ NoneToCome'
  BY <1>1, QuietEvents DEF wires
<1>6. \A c \in Bridges : worker'[c].at = worker[c].at \/ {worker'[c].at, worker[c].at} \cap Asks = {}
  BY <1>1, <1>2 DEF Asks, Workers
<1>7. Asked' /\ PromptsAgree'
  BY <1>1, <1>6, QuietAsks DEF wires
<1> QED
  BY <1>3, <1>4, <1>5, <1>7

\* What an agent says is the next event of its channel, or lost.
LEMMA EmitSound ==
    ASSUME LInv, NEW b \in Bridges, NEW kind \in {"progress"} \union Asks, Emit(b, kind),
           UNCHANGED <<applied, bridge>>
    PROVE  /\ stream' \in [Bridges -> Seq(Messages)] /\ said' \in [Bridges -> Nat]
           /\ EventsAgree' /\ NoneToCome'
           /\ \A c \in Bridges : c # b \/ b # bridge => stream'[c] = stream[c]
           /\ b = bridge => \E n \in Nat : stream'[b] = Append(stream[b], [n |-> n, kind |-> kind])
<1> USE DEF LInv, LoopTypeOK
<1>1. CASE b # bridge
  <2>1. UNCHANGED <<said, stream>>
    BY <1>1 DEF Emit
  <2> QED
    BY <1>1, <2>1, QuietEvents
<1>2. CASE b = bridge
  <2> DEFINE n == said[b] + 1
             e == [n |-> n, kind |-> kind]
  <2>1. said' = [said EXCEPT ![b] = n] /\ stream' = [stream EXCEPT ![b] = Append(stream[b], e)]
    BY <1>2 DEF Emit
  <2>2. n \in Nat /\ e \in Messages /\ e.n = n
    BY DEF Messages
  <2>3. said[b] \in Nat /\ n = said[b] + 1
    OBVIOUS
  <2> HIDE DEF n, e
  <2>4. stream[b] \in Seq(Messages) /\ Append(stream[b], e) \in Seq(Messages)
    BY <2>2
  <2>5. stream' \in [Bridges -> Seq(Messages)] /\ said' \in [Bridges -> Nat]
    BY <2>1, <2>2, <2>4
  <2>6. Heard' = Heard
    BY DEF Heard
  <2>7. Heard \in Nat /\ said[b] = Heard + Len(stream[b])
        /\ \A i \in DOMAIN stream[b] : stream[b][i].n = Heard + i
    <3>1. said[b] = Heard + Len(stream[b]) /\ \A i \in DOMAIN stream[b] : stream[b][i].n = Heard + i
      BY <1>2 DEF EventsAgree
    <3>2. Heard \in Nat
      BY HeardFacts
    <3> QED
      BY <3>1, <3>2
  <2>8. /\ Len(Append(stream[b], e)) = Len(stream[b]) + 1 /\ Len(stream[b]) \in Nat
        /\ \A i \in DOMAIN Append(stream[b], e) :
              IF i = Len(stream[b]) + 1 THEN Append(stream[b], e)[i] = e
              ELSE i \in DOMAIN stream[b] /\ Append(stream[b], e)[i] = stream[b][i]
    BY <2>2, <2>4, SMTT(60)
  <2>9. said'[b] = Heard + Len(stream'[b]) /\ \A i \in DOMAIN stream'[b] : stream'[b][i].n = Heard + i
    <3>1. stream'[b] = Append(stream[b], e) /\ said'[b] = n
      BY <2>1
    <3>2. said'[b] = Heard + Len(stream'[b])
      BY <3>1, <2>3, <2>7, <2>8
    <3>3. ASSUME NEW i \in DOMAIN stream'[b] PROVE stream'[b][i].n = Heard + i
      <4>1. CASE i = Len(stream[b]) + 1
        BY <4>1, <3>1, <2>2, <2>3, <2>7, <2>8
      <4>2. CASE i # Len(stream[b]) + 1
        BY <4>2, <3>1, <2>7, <2>8
      <4> QED
        BY <4>1, <4>2
    <3> QED
      BY <3>2, <3>3
  <2>10. \A c \in Bridges : said'[c] >= said[c] /\ (c # b => said'[c] = said[c] /\ stream'[c] = stream[c])
    BY <2>1, <2>3
  <2>11. EventsAgree'
    <3>1. ASSUME NEW i \in DOMAIN applied
          PROVE  /\ applied[i].n <= said'[applied[i].from]
                 /\ \/ applied[i].n = 1 /\ (i > 1 => applied[i - 1].from < applied[i].from)
                    \/ i > 1 /\ applied[i - 1] = [applied[i] EXCEPT !.n = @ - 1]
      <4>1. applied[i].from \in Bridges /\ applied[i].n \in Nat
        BY AppliedFacts
      <4>2. /\ applied[i].n <= said[applied[i].from]
            /\ \/ applied[i].n = 1 /\ (i > 1 => applied[i - 1].from < applied[i].from)
               \/ i > 1 /\ applied[i - 1] = [applied[i] EXCEPT !.n = @ - 1]
        BY DEF EventsAgree
      <4>3. said'[applied[i].from] >= said[applied[i].from] /\ said[applied[i].from] \in Nat /\ said'[applied[i].from] \in Nat
        BY <4>1, <2>10, <2>5
      <4> HIDE DEF LInv, LoopTypeOK
      <4> QED
        BY <4>1, <4>2, <4>3
    <3>2. ASSUME NEW c \in Bridges
          PROVE  IF c = bridge
                 THEN said'[c] = Heard + Len(stream'[c]) /\ \A i \in DOMAIN stream'[c] : stream'[c][i].n = Heard + i
                 ELSE stream'[c] = <<>>
      BY <1>2, <2>9, <2>10 DEF EventsAgree
    <3> QED
      BY <3>1, <3>2, <2>6 DEF EventsAgree
  <2>12. NoneToCome'
    <3>1. b \in Nat /\ \A c \in Bridges : c > bridge => c # b
      BY <1>2, EventLoopAssumption
    <3>2. \A c \in Bridges : c > bridge => said'[c] = 0
      BY <3>1, <2>10 DEF NoneToCome
    <3> QED
      BY <3>2 DEF NoneToCome
  <2>13. stream'[b] = Append(stream[b], [n |-> n, kind |-> kind])
    BY <2>1 DEF e
  <2> QED
    BY <1>2, <2>2, <2>5, <2>10, <2>11, <2>12, <2>13
<1> QED
  BY <1>1, <1>2

\* Who is still at work after it has said something waits for no answer.
LEMMA ReportSound ==
    ASSUME LInv, NEW b \in Bridges, Report(b)
    PROVE  LInv'
<1>1. LoopTypeOK /\ worker[b] \in Workers /\ worker[b].at = "works" /\ worker[b].left > 0
  BY DEF LInv, LoopTypeOK, Report, Emit
<1>2. /\ worker' = [worker EXCEPT ![b].left = worker[b].left - 1]
      /\ UNCHANGED <<unread, keysRead, loop, bridge, mailbox, sent, taken, pending, probing, applied>>
      /\ Emit(b, "progress")
  BY DEF Report
<1>3. /\ stream' \in [Bridges -> Seq(Messages)] /\ said' \in [Bridges -> Nat]
      /\ EventsAgree' /\ NoneToCome'
      /\ \A c \in Bridges : c # b \/ b # bridge => stream'[c] = stream[c]
      /\ b = bridge => \E n \in Nat : stream'[b] = Append(stream[b], [n |-> n, kind |-> "progress"])
  BY <1>2, EmitSound
<1>4. worker' \in [Bridges -> Workers] /\ \A c \in Bridges : worker'[c].at = worker[c].at
  BY <1>1, <1>2 DEF LoopTypeOK, Workers
<1>5. LoopTypeOK'
  BY <1>1, <1>2, <1>3, <1>4 DEF LoopTypeOK
<1>6. \A c \in Bridges : Mailed(c)'
  BY <1>2, QuietMail DEF LInv
<1>7. ASSUME NEW c \in Bridges, NEW i \in DOMAIN stream'[c], stream'[c][i].kind \in Asks
      PROVE  /\ i = Len(stream'[c]) /\ worker'[c].at = stream'[c][i].kind
             /\ pending'[stream'[c][i].kind] # c
  <2>1. CASE c # b \/ b # bridge
    <3>1. stream'[c] = stream[c]
      BY <1>3, <2>1
    <3>2. \A j \in DOMAIN stream[c] : stream[c][j].kind \in Asks =>
              j = Len(stream[c]) /\ worker[c].at = stream[c][j].kind /\ pending[stream[c][j].kind] # c
      BY DEF LInv, Asked
    <3> QED
      BY <3>1, <3>2, <1>2, <1>4, <1>7
  <2>2. CASE c = b /\ b = bridge
    <3>1. PICK n \in Nat : stream'[b] = Append(stream[b], [n |-> n, kind |-> "progress"])
      BY <1>3, <2>2
    <3>2. stream[b] \in Seq(Messages) /\ [n |-> n, kind |-> "progress"] \in Messages
      BY <1>1 DEF LoopTypeOK, Messages
    <3>3. i \in 1 .. Len(stream[b]) /\ stream'[b][i] = stream[b][i]
      <4>1. i = Len(stream[b]) + 1 => stream'[b][i] = [n |-> n, kind |-> "progress"]
        BY <2>2, <3>1, <3>2, AppendFacts
      <4>2. i # Len(stream[b]) + 1
        BY <4>1, <1>7, <2>2 DEF Asks
      <4> QED
        BY <4>2, <2>2, <3>1, <3>2, AppendFacts
    <3>4. i \in DOMAIN stream[b] /\ worker[b].at = stream[b][i].kind
      BY <3>2, <3>3, <1>7, <2>2 DEF LInv, Asked
    <3> QED
      BY <3>3, <3>4, <1>1, <1>7, <2>2 DEF Asks
  <2> QED
    BY <2>1, <2>2
<1>8. Asked'
  <2>1. \A kind \in Asks : pending[kind] # NoOne => pending[kind] \in Bridges /\ worker[pending[kind]].at = kind
    BY <1>1 DEF LInv, Asked, LoopTypeOK, Asks, NoOne
  <2>2. \A kind \in Asks : pending'[kind] # NoOne => worker'[pending'[kind]].at = kind
    BY <1>2, <1>4, <2>1
  <2> QED
    BY <1>7, <2>2 DEF Asked
<1>9. PromptsAgree'
  <2>1. ASSUME NEW c \in Bridges, worker'[c].at \in Asks
        PROVE  pending'[worker'[c].at] = c \/ (c = bridge' /\ AsksIn(stream'[c]))
    <3>1. c # b
      BY <1>1, <1>4, <2>1 DEF Asks
    <3> QED
      BY <3>1, <1>2, <1>3, <1>4, <2>1 DEF LInv, PromptsAgree
  <2> QED
    BY <2>1 DEF PromptsAgree, AsksIn
<1> QED
  BY <1>3, <1>5, <1>6, <1>8, <1>9 DEF LInv

\* Who asks waits with its request as the last thing it said, or was heard by nobody
\* and goes on.
LEMMA RequestSound ==
    ASSUME LInv, NEW b \in Bridges, NEW kind \in Asks, Request(b, kind)
    PROVE  LInv'
<1>1. LoopTypeOK /\ worker[b] \in Workers /\ worker[b].at = "works" /\ worker[b].left > 0
  BY DEF LInv, LoopTypeOK, Request, Emit
<1> DEFINE w == [at |-> IF b = bridge THEN kind ELSE "works", left |-> worker[b].left - 1]
<1>2. /\ worker' = [worker EXCEPT ![b] = w]
      /\ UNCHANGED <<unread, keysRead, loop, bridge, mailbox, sent, taken, pending, probing, applied>>
      /\ Emit(b, kind)
  BY DEF Request
<1>3. /\ stream' \in [Bridges -> Seq(Messages)] /\ said' \in [Bridges -> Nat]
      /\ EventsAgree' /\ NoneToCome'
      /\ \A c \in Bridges : c # b \/ b # bridge => stream'[c] = stream[c]
      /\ b = bridge => \E n \in Nat : stream'[b] = Append(stream[b], [n |-> n, kind |-> kind])
  BY <1>2, EmitSound
<1>4. w \in Workers /\ w.at = IF b = bridge THEN kind ELSE "works"
  BY <1>1 DEF Workers
<1> HIDE DEF w
<1>5. /\ worker' \in [Bridges -> Workers] /\ \A c \in Bridges \ {b} : worker'[c].at = worker[c].at
      /\ worker'[b].at = IF b = bridge THEN kind ELSE "works"
  BY <1>1, <1>2, <1>4 DEF LoopTypeOK
<1>6. LoopTypeOK'
  BY <1>1, <1>2, <1>3, <1>5 DEF LoopTypeOK
<1>7. \A c \in Bridges : Mailed(c)'
  BY <1>2, QuietMail DEF LInv
<1>8. \A k \in Asks : pending[k] # b
  <2>1. b # NoOne
    BY EventLoopAssumption DEF NoOne
  <2> QED
    BY <2>1, <1>1 DEF LInv, Asked, Asks
<1>9. \A i \in DOMAIN stream[b] : stream[b][i].kind \notin Asks
  BY <1>1 DEF LInv, Asked, Asks
<1>10. ASSUME NEW c \in Bridges, NEW i \in DOMAIN stream'[c], stream'[c][i].kind \in Asks
       PROVE  /\ i = Len(stream'[c]) /\ worker'[c].at = stream'[c][i].kind
              /\ pending'[stream'[c][i].kind] # c
  <2>1. CASE c # b
    BY <1>2, <1>3, <1>5, <1>10, <2>1 DEF LInv, Asked
  <2>2. CASE c = b /\ b # bridge
    BY <1>3, <1>9, <1>10, <2>2
  <2>3. CASE c = b /\ b = bridge
    <3>1. PICK n \in Nat : stream'[b] = Append(stream[b], [n |-> n, kind |-> kind])
      BY <1>3, <2>3
    <3>2. stream[b] \in Seq(Messages) /\ [n |-> n, kind |-> kind] \in Messages
      BY <1>1 DEF LoopTypeOK, Messages
    <3>3. i = Len(stream[b]) + 1
      <4>1. i \in 1 .. Len(stream[b]) => stream'[b][i] = stream[b][i] /\ i \in DOMAIN stream[b]
        BY <3>1, <3>2, AppendFacts
      <4>2. i \notin 1 .. Len(stream[b])
        BY <4>1, <1>9, <1>10, <2>3
      <4> QED
        BY <4>2, <2>3, <3>1, <3>2, AppendFacts
    <3>4. stream'[b][i] = [n |-> n, kind |-> kind] /\ Len(stream'[b]) = i
      BY <3>1, <3>2, <3>3, AppendFacts
    <3> QED
      BY <3>4, <1>2, <1>5, <1>8, <2>3
  <2> QED
    BY <2>1, <2>2, <2>3
<1>11. Asked'
  BY <1>2, <1>5, <1>8, <1>10, <1>1, SMTT(60) DEF LInv, Asked, LoopTypeOK, NoOne
<1>12. ASSUME NEW c \in Bridges, worker'[c].at \in Asks
       PROVE  pending'[worker'[c].at] = c \/ (c = bridge' /\ AsksIn(stream'[c]))
  <2>1. CASE c # b
    BY <2>1, <1>2, <1>3, <1>5, <1>12 DEF LInv, PromptsAgree
  <2>2. CASE c = b
    <3>1. b = bridge
      BY <2>2, <1>5, <1>12 DEF Asks
    <3>2. PICK n \in Nat : stream'[b] = Append(stream[b], [n |-> n, kind |-> kind])
      BY <1>3, <3>1
    <3>3. stream[b] \in Seq(Messages) /\ [n |-> n, kind |-> kind] \in Messages
      BY <1>1 DEF LoopTypeOK, Messages
    <3>4. Len(stream[b]) + 1 \in DOMAIN stream'[b] /\ stream'[b][Len(stream[b]) + 1].kind = kind
      BY <3>2, <3>3, AppendFacts
    <3> QED
      BY <2>2, <3>1, <3>4, <1>2 DEF AsksIn
  <2> QED
    BY <2>1, <2>2
<1>13. PromptsAgree'
  BY <1>12 DEF PromptsAgree, AsksIn
<1> QED
  BY <1>3, <1>6, <1>7, <1>11, <1>13 DEF LInv

-----------------------------------------------------------------------------
(* The loop.                                                               *)

\* Of what a prompt frees, only those it frees go on.
LEMMA FreedFacts ==
    ASSUME LoopTypeOK, NEW askers, Freed(askers)
    PROVE  /\ worker' \in [Bridges -> Workers]
           /\ \A b \in Bridges : worker'[b].at = IF b \in askers THEN "works" ELSE worker[b].at
<1>1. worker' = [b \in Bridges |-> IF b \in askers THEN [worker[b] EXCEPT !.at = "works"] ELSE worker[b]]
  BY DEF Freed
<1>2. ASSUME NEW b \in Bridges
      PROVE  /\ worker[b] \in Workers /\ [worker[b] EXCEPT !.at = "works"] \in Workers
             /\ [worker[b] EXCEPT !.at = "works"].at = "works"
  BY DEF LoopTypeOK, Workers
<1> QED
  BY <1>1, <1>2

\* A key that is read or ignored is told to nobody.
LEMMA SilentSound ==
    ASSUME LInv, UNCHANGED <<loop, bridge, wires, worker, pending, applied>>
    PROVE  LInv'
<1>1. LoopTypeOK'
  BY DEF LInv, LoopTypeOK, wires
<1>2. EventsAgree' /\ NoneToCome'
  BY QuietEvents DEF LInv, wires
<1>3. \A b \in Bridges : Mailed(b)'
  BY QuietMail DEF LInv, wires
<1>4. Asked' /\ PromptsAgree'
  BY QuietAsks DEF LInv, LoopTypeOK, wires
<1> QED
  BY <1>1, <1>2, <1>3, <1>4 DEF LInv

\* The message a full mailbox kept waiting is the next one.
LEMMA DeliverSound ==
    ASSUME LInv, Deliver
    PROVE  LInv'
<1> DEFINE m == mailbox[bridge]
           e == loop.message
<1>1. LoopTypeOK /\ bridge \in Bridges /\ m \in Seq(Nat) /\ e \in Nat /\ loop.at = "send" /\ Len(m) < INBOX_CAP
  BY DEF LInv, LoopTypeOK, Deliver
<1>2. /\ mailbox' = [mailbox EXCEPT ![bridge] = Append(m, e)] /\ loop' = Selecting
      /\ UNCHANGED <<unread, keysRead, bridge, stream, worker, pending, probing, sent, taken, said, applied>>
  BY DEF Deliver
<1>3. Selecting \in [at : {"select", "send", "ended"}, message : Nat] /\ Selecting.at = "select"
  BY DEF Selecting
<1>4. Waiting(bridge) = <<e>> /\ \A c \in Bridges : Waiting(c)' = <<>> /\ (c # bridge => Waiting(c) = <<>>)
  BY <1>1, <1>2, <1>3 DEF Waiting
<1>5. /\ Len(m) <= INBOX_CAP /\ \A i \in DOMAIN m : m[i] = taken[bridge] + i
      /\ sent[bridge] = taken[bridge] + Len(m) + 1 /\ e = sent[bridge]
  <2>1. Len(Waiting(bridge)) = 1
    BY <1>4
  <2>2. Mailed(bridge)
    BY <1>1 DEF LInv
  <2> QED
    BY <1>1, <2>1, <2>2 DEF Mailed
<1>6. taken[bridge] \in Nat /\ INBOX_CAP \in Nat /\ Len(<<>>) = 0
  BY <1>1, EventLoopAssumption DEF LoopTypeOK
<1> HIDE DEF m, e
<1>7. Append(m, e) \in Seq(Nat) /\ Len(m) \in Nat /\ Len(Append(m, e)) = Len(m) + 1
  BY <1>1, AppendFacts
<1>8. ASSUME NEW i \in DOMAIN Append(m, e)
      PROVE  Append(m, e)[i] = taken[bridge] + i
  <2>1. i \in 1 .. (Len(m) + 1)
    BY <1>1, AppendFacts
  <2>2. CASE i = Len(m) + 1
    <3>1. Append(m, e)[Len(m) + 1] = e
      BY <1>1, AppendFacts
    <3> QED
      BY <3>1, <2>2, <1>5, <1>6, <1>7
  <2>3. CASE i # Len(m) + 1
    <3>1. i \in 1 .. Len(m) /\ DOMAIN m = 1 .. Len(m)
      BY <1>1, <1>7, <2>1, <2>3
    <3>2. Append(m, e)[i] = m[i]
      BY <1>1, <3>1, AppendFacts
    <3> QED
      BY <1>5, <3>1, <3>2
  <2> QED
    BY <2>2, <2>3
<1>9. LoopTypeOK'
  BY <1>1, <1>2, <1>3, <1>7 DEF LoopTypeOK
<1>10. ASSUME NEW c \in Bridges
       PROVE  Mailed(c)'
  <2>1. loop'.at = "select" /\ Waiting(c)' = <<>>
    BY <1>2, <1>3, <1>4
  <2>2. CASE c = bridge
    <3>1. mailbox'[c] = Append(m, e) /\ taken'[c] = taken[c] /\ sent'[c] = sent[c]
      BY <1>1, <1>2, <2>2 DEF LoopTypeOK
    <3>2. Len(Append(m, e)) <= INBOX_CAP /\ sent[c] = taken[c] + Len(Append(m, e)) + Len(<<>>)
      BY <1>1, <1>5, <1>6, <1>7, <2>2
    <3> QED
      BY <3>1, <3>2, <1>8, <2>1, <2>2 DEF Mailed
  <2>3. CASE c # bridge
    <3>1. mailbox'[c] = mailbox[c] /\ taken'[c] = taken[c] /\ sent'[c] = sent[c] /\ Waiting(c)' = Waiting(c)
      BY <1>1, <1>2, <1>4, <2>3 DEF LoopTypeOK
    <3>2. Mailed(c)
      BY DEF LInv
    <3> QED
      BY <3>1, <3>2, <2>1 DEF Mailed
  <2> QED
    BY <2>2, <2>3
<1>11. EventsAgree' /\ NoneToCome'
  BY <1>2, QuietEvents DEF LInv
<1>12. Asked' /\ PromptsAgree'
  BY <1>2, QuietAsks DEF LInv, LoopTypeOK
<1> QED
  BY <1>9, <1>10, <1>11, <1>12 DEF LInv

\* A message that is sent has the next number, and waits with the loop.
LEMMA SendSound ==
    ASSUME LInv, loop.at = "select", Send, UNCHANGED applied
    PROVE  LInv'
<1>1. CASE bridge = 0
  BY <1>1, SilentSound DEF Send, wires
<1>2. CASE bridge # 0
  <2>1. LoopTypeOK /\ bridge \in Bridges /\ sent[bridge] \in Nat
    BY <1>2 DEF LInv, LoopTypeOK
  <2>2. /\ sent' = [sent EXCEPT ![bridge] = sent[bridge] + 1] /\ loop' = Sending(sent'[bridge])
        /\ UNCHANGED <<bridge, mailbox, stream, worker, pending, probing, taken, said>>
    BY <1>2 DEF Send
  <2>3. sent' \in [Bridges -> Nat] /\ sent'[bridge] = sent[bridge] + 1
    BY <2>1, <2>2 DEF LoopTypeOK
  <2>4. /\ loop' \in [at : {"select", "send", "ended"}, message : Nat]
        /\ loop'.at = "send" /\ loop'.message = sent'[bridge]
    BY <2>1, <2>2, <2>3 DEF Sending
  <2>5. LoopTypeOK'
    BY <1>2, <2>1, <2>2, <2>3, <2>4 DEF LoopTypeOK
  <2>6. ASSUME NEW c \in Bridges
        PROVE  Mailed(c)'
    <3>1. Mailed(c) /\ Waiting(c) = <<>> /\ mailbox'[c] = mailbox[c] /\ taken'[c] = taken[c]
          /\ taken[c] \in Nat /\ Len(mailbox[c]) \in Nat
      BY <2>1, <2>2 DEF LInv, Waiting, LoopTypeOK
    <3>2. CASE c = bridge
      <4>1. Waiting(c)' = <<loop'.message>>
        BY <2>2, <2>4, <3>2 DEF Waiting
      <4>2. Len(<<>>) = 0 /\ Len(<<loop'.message>>) = 1
        OBVIOUS
      <4>3. sent[c] = taken[c] + Len(mailbox[c]) + 0
        BY <3>1, <4>2 DEF Mailed
      <4>4. sent'[c] = taken[c] + Len(mailbox[c]) + 1 /\ loop'.message = sent'[c]
        BY <2>1, <2>3, <2>4, <3>1, <3>2, <4>3
      <4> QED
        BY <3>1, <4>1, <4>2, <4>4 DEF Mailed
    <3>3. CASE c # bridge
      <4>1. Waiting(c)' = <<>> /\ sent'[c] = sent[c]
        BY <2>1, <2>2, <3>3 DEF Waiting, LoopTypeOK
      <4> QED
        BY <2>2, <3>1, <3>3, <4>1 DEF Mailed
    <3> QED
      BY <3>2, <3>3
  <2>7. EventsAgree' /\ NoneToCome'
    BY <2>2, QuietEvents DEF LInv
  <2>8. Asked' /\ PromptsAgree'
    BY <2>2, QuietAsks DEF LInv, LoopTypeOK
  <2> QED
    BY <2>5, <2>6, <2>7, <2>8 DEF LInv
<1> QED
  BY <1>1, <1>2

\* The end of the program leaves what the tasks said as it is.
LEMMA QuitSound ==
    ASSUME LInv, loop.at = "select", Quit, UNCHANGED applied
    PROVE  LInv'
<1>1. loop' = [loop EXCEPT !.at = "ended"] /\ UNCHANGED <<bridge, wires, worker, pending, probing>>
  BY DEF Quit
<1>2. loop' \in [at : {"select", "send", "ended"}, message : Nat] /\ loop'.at = "ended"
  BY <1>1 DEF LInv, LoopTypeOK
<1>3. LoopTypeOK'
  BY <1>1, <1>2 DEF LInv, LoopTypeOK, wires
<1>4. EventsAgree' /\ NoneToCome'
  BY <1>1, QuietEvents DEF LInv, wires
<1>5. \A c \in Bridges : Mailed(c)'
  <2> TAKE c \in Bridges
  <2>1. Mailed(c) /\ Waiting(c) = <<>> /\ Waiting(c)' = <<>>
    BY <1>1, <1>2 DEF LInv, Waiting
  <2> QED
    BY <2>1, <1>1, <1>2 DEF Mailed, wires
<1>6. Asked' /\ PromptsAgree'
  BY <1>1, QuietAsks DEF LInv, LoopTypeOK, wires
<1> QED
  BY <1>3, <1>4, <1>5, <1>6 DEF LInv

\* A prompt is shown in its place; who asks is a bridge that waits for it alone.
LEMMA ShownFacts ==
    ASSUME LInv, NEW kind \in Asks, pending[kind] # NoOne
    PROVE  /\ pending[kind] \in Bridges /\ worker[pending[kind]].at = kind
           /\ \A i \in DOMAIN stream[pending[kind]] : stream[pending[kind]][i].kind \notin Asks
<1>1. pending[kind] \in Bridges /\ worker[pending[kind]].at = kind
  BY DEF LInv, LoopTypeOK, Asked
<1>2. ASSUME NEW i \in DOMAIN stream[pending[kind]], stream[pending[kind]][i].kind \in Asks
      PROVE  FALSE
  BY <1>1, <1>2 DEF LInv, Asked
<1> QED
  BY <1>1, <1>2

\* What is freed when prompts go: nobody waits who does not wait for what is left.
LEMMA FreedSound ==
    ASSUME LInv, NEW askers, Freed(askers),
           pending' \in [Asks -> Bridges \union {NoOne}],
           \A kind \in Asks : pending'[kind] = pending[kind] \/ pending'[kind] = NoOne,
           \A kind \in Asks : pending'[kind] # NoOne => pending'[kind] \notin askers,
           \A kind \in Asks : pending'[kind] # pending[kind] => pending[kind] \in askers,
           \A b \in Bridges : stream'[b] = stream[b] \/ stream'[b] = <<>>,
           \A b \in Bridges : stream'[b] # <<>> => b = bridge' /\ b = bridge,
           \A b \in Bridges : AsksIn(stream[b]) => (b \in askers) = (stream'[b] # stream[b])
    PROVE  Asked' /\ PromptsAgree'
<1>1. LoopTypeOK
  BY DEF LInv
<1>2. \A b \in Bridges : worker'[b].at = IF b \in askers THEN "works" ELSE worker[b].at
  BY <1>1, FreedFacts
<1>3. ASSUME NEW b \in Bridges, NEW i \in DOMAIN stream'[b], stream'[b][i].kind \in Asks
      PROVE  i = Len(stream'[b]) /\ worker'[b].at = stream'[b][i].kind /\ pending'[stream'[b][i].kind] # b
  <2>1. stream'[b] = stream[b]
    <3>1. CASE stream'[b] = <<>>
      BY <1>3, <3>1
    <3> QED
      BY <3>1
  <2>2. AsksIn(stream[b])
    BY <1>3, <2>1 DEF AsksIn
  <2>3. b \notin askers
    BY <2>1, <2>2
  <2>4. i = Len(stream[b]) /\ worker[b].at = stream[b][i].kind /\ pending[stream[b][i].kind] # b
    BY <1>3, <2>1 DEF LInv, Asked
  <2>5. b # NoOne
    BY EventLoopAssumption DEF NoOne
  <2> QED
    BY <1>2, <1>3, <2>1, <2>3, <2>4, <2>5
<1>4. ASSUME NEW kind \in Asks, pending'[kind] # NoOne
      PROVE  worker'[pending'[kind]].at = kind
  <2>1. pending'[kind] = pending[kind] /\ pending[kind] \notin askers
    BY <1>4
  <2>2. pending[kind] \in Bridges /\ worker[pending[kind]].at = kind
    BY <1>4, <2>1, ShownFacts
  <2> QED
    BY <1>2, <2>1, <2>2
<1>5. ASSUME NEW b \in Bridges, worker'[b].at \in Asks
      PROVE  pending'[worker'[b].at] = b \/ (b = bridge' /\ AsksIn(stream'[b]))
  <2>1. b \notin askers /\ worker'[b].at = worker[b].at
    BY <1>2, <1>5 DEF Asks
  <2>2. CASE pending[worker[b].at] = b
    BY <2>1, <2>2, <1>5
  <2>3. CASE b = bridge /\ AsksIn(stream[b])
    <3>1. stream'[b] = stream[b]
      BY <2>1, <2>3
    <3>2. stream[b] # <<>>
      BY <2>3 DEF AsksIn
    <3> QED
      BY <2>3, <3>1, <3>2
  <2> QED
    BY <2>1, <2>2, <2>3, <1>5 DEF LInv, PromptsAgree
<1>6. Asked'
  BY <1>3, <1>4 DEF Asked, NoOne
<1>7. PromptsAgree'
  BY <1>5 DEF PromptsAgree, AsksIn
<1> QED
  BY <1>6, <1>7

\* An answer frees who asked.
LEMMA AnswerSound ==
    ASSUME LInv, \E kind \in Asks : pending[kind] # NoOne, Answer, UNCHANGED applied
    PROVE  LInv'
<1>1. PICK kind : kind = IF pending["permission"] # NoOne THEN "permission" ELSE "plan"
  OBVIOUS
<1>2. kind \in Asks /\ pending[kind] # NoOne
  BY <1>1 DEF Asks
<1>3. /\ Freed({pending[kind]}) /\ pending' = [pending EXCEPT ![kind] = NoOne]
      /\ UNCHANGED <<loop, bridge, wires, probing>>
  BY <1>1 DEF Answer
<1>4. LoopTypeOK
  BY DEF LInv
<1>5. pending' \in [Asks -> Bridges \union {NoOne}] /\ pending'[kind] = NoOne
      /\ \A k \in Asks \ {kind} : pending'[k] = pending[k]
  BY <1>2, <1>3, <1>4 DEF LoopTypeOK
<1>6. worker' \in [Bridges -> Workers]
  BY <1>3, <1>4, FreedFacts
<1>7. LoopTypeOK'
  BY <1>3, <1>4, <1>5, <1>6 DEF LoopTypeOK, wires
<1>8. EventsAgree' /\ NoneToCome'
  BY <1>3, QuietEvents DEF LInv, wires
<1>9. \A b \in Bridges : Mailed(b)'
  BY <1>3, QuietMail DEF LInv, wires
<1>10. \A k \in Asks : pending'[k] # NoOne => pending'[k] \notin {pending[kind]}
  <2> SUFFICES ASSUME NEW k \in Asks, pending'[k] # NoOne, pending'[k] = pending[kind] PROVE FALSE
    OBVIOUS
  <2>1. k # kind /\ pending[k] = pending[kind] /\ pending[k] # NoOne
    BY <1>5
  <2> QED
    BY <2>1, <1>2, ShownFacts
<1>11. \A b \in Bridges : AsksIn(stream[b]) => b # pending[kind]
  BY <1>2, ShownFacts DEF AsksIn
<1>12. UNCHANGED <<stream, bridge>>
  BY <1>3 DEF wires
<1>13. \A b \in Bridges : stream[b] # <<>> => b = bridge
  BY DEF LInv, EventsAgree
<1>14. Asked' /\ PromptsAgree'
  BY <1>3, <1>5, <1>10, <1>11, <1>12, <1>13, FreedSound
<1> QED
  BY <1>7, <1>8, <1>9, <1>14 DEF LInv

\* A bridge that is spawned begins with empty channels; of the one before nothing
\* more is heard, and what it asked is refused.
LEMMA SpawnSound ==
    ASSUME LInv, loop.at = "select", SpawnBridge, UNCHANGED <<loop, applied>>
    PROVE  LInv'
<1> DEFINE asking == {b \in {bridge} \ {0} : AsksIn(stream[b])}
<1>1. /\ bridge + 1 \in Bridges /\ bridge' = bridge + 1
      /\ pending' = [pending EXCEPT !["plan"] = NoOne]
      /\ stream' = IF bridge = 0 THEN stream ELSE [stream EXCEPT ![bridge] = <<>>]
      /\ Freed({pending["plan"]} \union asking)
      /\ UNCHANGED <<mailbox, sent, taken, said>>
  BY DEF SpawnBridge
<1>2. LoopTypeOK /\ bridge \in Nat /\ bridge + 1 > bridge
  <2>1. LoopTypeOK /\ bridge \in Bridges \union {0}
    BY DEF LInv, LoopTypeOK
  <2>2. bridge \in Nat
    BY <2>1, EventLoopAssumption
  <2> QED
    BY <2>1, <2>2
<1>3. \A b \in Bridges : b # bridge => stream[b] = <<>>
  BY DEF LInv, EventsAgree
<1>4. \A b \in Bridges : stream'[b] = <<>>
  <2>1. CASE bridge = 0
    <3>1. stream' = stream /\ \A b \in Bridges : b # bridge
      BY <1>1, <2>1, EventLoopAssumption
    <3> QED
      BY <1>3, <3>1
  <2>2. CASE bridge # 0
    <3>1. stream' = [stream EXCEPT ![bridge] = <<>>] /\ stream \in [Bridges -> Seq(Messages)]
      BY <1>1, <1>2, <2>2 DEF LoopTypeOK
    <3> QED
      BY <1>3, <3>1
  <2> QED
    BY <2>1, <2>2
<1>5. stream' \in [Bridges -> Seq(Messages)]
  BY <1>1, <1>2 DEF LoopTypeOK
<1>6. /\ pending' \in [Asks -> Bridges \union {NoOne}]
      /\ pending'["plan"] = NoOne /\ pending'["permission"] = pending["permission"]
  BY <1>1, <1>2 DEF LoopTypeOK, Asks
<1>7. worker' \in [Bridges -> Workers]
  BY <1>1, <1>2, FreedFacts
<1>8. LoopTypeOK'
  BY <1>1, <1>2, <1>5, <1>6, <1>7 DEF LoopTypeOK
<1>9. Heard' = 0
  <2>1. Len(applied) \in Nat
    BY <1>2 DEF LoopTypeOK
  <2>2. Len(applied) > 0 => applied[Len(applied)].from # bridge + 1
    <3> SUFFICES ASSUME Len(applied) > 0 PROVE applied[Len(applied)].from # bridge + 1
      OBVIOUS
    <3>1. Len(applied) \in DOMAIN applied
      BY <1>2, <2>1 DEF LoopTypeOK
    <3>2. applied[Len(applied)].from <= bridge
      BY <3>1 DEF LInv, NoneToCome
    <3>3. applied[Len(applied)].from \in Nat
      BY <1>2, <3>1, AppliedFacts, EventLoopAssumption
    <3> QED
      BY <1>2, <3>2, <3>3
  <2> QED
    BY <1>1, <2>2 DEF Heard
<1>10. EventsAgree'
  <2>1. said[bridge + 1] = 0
    BY <1>1, <1>2 DEF LInv, NoneToCome
  <2>2. \A b \in Bridges : IF b = bridge' THEN said'[b] = 0 + Len(stream'[b]) /\ \A i \in DOMAIN stream'[b] : stream'[b][i].n = 0 + i
                           ELSE stream'[b] = <<>>
    BY <1>1, <1>4, <2>1
  <2> QED
    BY <1>1, <1>9, <2>2 DEF LInv, EventsAgree
<1>11. NoneToCome'
  <2>1. ASSUME NEW b \in Bridges, b > bridge + 1
        PROVE  said[b] = 0
    <3>1. b \in Nat
      BY EventLoopAssumption
    <3>2. b > bridge
      BY <1>2, <2>1, <3>1
    <3> QED
      BY <3>2 DEF LInv, NoneToCome
  <2>2. ASSUME NEW i \in DOMAIN applied
        PROVE  applied[i].from <= bridge + 1
    <3>1. applied[i].from <= bridge /\ applied[i].from \in Nat
      BY <1>2, AppliedFacts, EventLoopAssumption DEF LInv, NoneToCome
    <3> QED
      BY <3>1, <1>2
  <2> QED
    BY <1>1, <2>1, <2>2 DEF NoneToCome
<1>12. \A b \in Bridges : Mailed(b)'
  <2> TAKE b \in Bridges
  <2>1. Mailed(b) /\ Waiting(b) = <<>> /\ Waiting(b)' = <<>>
    BY DEF LInv, Waiting
  <2> QED
    BY <1>1, <2>1 DEF Mailed
<1>13. ASSUME NEW kind \in Asks, pending'[kind] # NoOne
       PROVE  pending'[kind] \notin {pending["plan"]} \union asking
  <2>1. kind = "permission" /\ pending'[kind] = pending[kind]
    BY <1>6, <1>13 DEF Asks
  <2>2. pending[kind] # NoOne /\ pending[kind] \in Bridges /\ worker[pending[kind]].at = kind
        /\ \A i \in DOMAIN stream[pending[kind]] : stream[pending[kind]][i].kind \notin Asks
    BY <1>13, <2>1, ShownFacts
  <2>3. ~AsksIn(stream[pending[kind]])
    BY <2>2 DEF AsksIn
  <2>4. pending[kind] # pending["plan"]
    <3> SUFFICES ASSUME pending[kind] = pending["plan"] PROVE FALSE
      OBVIOUS
    <3>1. worker[pending["plan"]].at = "plan"
      BY <2>2, ShownFacts DEF Asks
    <3> QED
      BY <2>1, <2>2, <3>1
  <2> QED
    BY <2>1, <2>3, <2>4
<1>14. ASSUME NEW b \in Bridges, AsksIn(stream[b])
       PROVE  b \in asking /\ stream'[b] # stream[b]
  <2>1. stream[b] # <<>>
    BY <1>14 DEF AsksIn
  <2>2. b = bridge /\ b # 0
    BY <1>3, <2>1, EventLoopAssumption
  <2> QED
    BY <1>4, <1>14, <2>1, <2>2
<1> HIDE DEF asking
<1>15. \A kind \in Asks : /\ pending'[kind] = pending[kind] \/ pending'[kind] = NoOne
                          /\ pending'[kind] # pending[kind] => pending[kind] \in {pending["plan"]} \union asking
  BY <1>6 DEF Asks
<1>16. Asked' /\ PromptsAgree'
  BY <1>1, <1>4, <1>6, <1>13, <1>14, <1>15, FreedSound
<1> QED
  BY <1>8, <1>10, <1>11, <1>12, <1>16 DEF LInv

\* The loop takes the next event, and shows the prompt of an agent that waits for it.
LEMMA TakeEventSound ==
    ASSUME LInv, TakeEvent
    PROVE  LInv'
<1>1. LoopTypeOK /\ bridge \in Bridges /\ loop.at = "select" /\ stream[bridge] # <<>>
  BY DEF LInv, LoopTypeOK, TakeEvent
<1> DEFINE q == stream[bridge]
           k == Head(q).kind
           L == Len(applied)
<1>2. /\ applied' = Append(applied, [from |-> bridge, n |-> Head(q).n])
      /\ stream' = [stream EXCEPT ![bridge] = Tail(q)]
      /\ UNCHANGED <<unread, keysRead, loop, bridge, mailbox, probing, sent, taken, said>>
  BY DEF TakeEvent
<1>3. IF k \in Asks THEN Show(k) ELSE UNCHANGED <<pending, worker>>
  BY DEF TakeEvent
<1>4. q \in Seq(Messages) /\ q # <<>> /\ Head(q) = q[1] /\ q[1] \in Messages /\ 1 \in DOMAIN q
  BY <1>1 DEF LoopTypeOK
<1>5. PICK t : t = [from |-> bridge, n |-> Head(q).n]
  OBVIOUS
<1>6. Head(q).n \in Nat /\ t \in [from : Bridges, n : Nat] /\ t.from = bridge /\ t.n = Head(q).n
  BY <1>1, <1>4, <1>5 DEF Messages
<1>7. /\ applied' = Append(applied, t) /\ applied' \in Seq([from : Bridges, n : Nat])
      /\ L \in Nat /\ Len(applied') = L + 1 /\ DOMAIN applied' = 1 .. (L + 1)
      /\ applied'[L + 1] = t /\ \A i \in 1 .. L : applied'[i] = applied[i]
  <2>1. applied \in Seq([from : Bridges, n : Nat])
    BY <1>1 DEF LoopTypeOK
  <2>2. applied' = Append(applied, t)
    BY <1>2, <1>5
  <2> QED
    BY <1>6, <2>1, <2>2, AppendFacts
<1>8. Tail(q) \in Seq(Messages) /\ Len(q) \in Nat /\ Len(q) > 0 /\ Len(Tail(q)) = Len(q) - 1
      /\ DOMAIN Tail(q) = 1 .. (Len(q) - 1) /\ \A i \in 1 .. (Len(q) - 1) : Tail(q)[i] = q[i + 1]
  BY <1>4, TailFacts
<1>9. DOMAIN q = 1 .. Len(q) /\ DOMAIN applied = 1 .. L
  BY <1>1, <1>4 DEF LoopTypeOK
<1>10. stream' \in [Bridges -> Seq(Messages)] /\ stream'[bridge] = Tail(q)
       /\ \A b \in Bridges : b # bridge => stream'[b] = <<>>
  <2>1. \A b \in Bridges : b # bridge => stream[b] = <<>>
    BY DEF LInv, EventsAgree
  <2> QED
    BY <1>1, <1>2, <1>8, <2>1 DEF LoopTypeOK
<1>11. /\ said[bridge] = Heard + Len(q) /\ \A i \in DOMAIN q : q[i].n = Heard + i
       /\ Heard \in Nat
  BY <1>1, HeardFacts DEF LInv, EventsAgree
<1> HIDE DEF q, L
<1>12. t.n = Heard + 1
  BY <1>4, <1>6, <1>11
<1>13. Heard' = Heard + 1
  <2>1. L + 1 > 0
    BY <1>7
  <2> QED
    BY <1>2, <1>6, <1>7, <1>12, <2>1 DEF Heard
<1>14. EventsAgree'
  <2>1. ASSUME NEW i \in DOMAIN applied'
        PROVE  /\ applied'[i].n <= said[applied'[i].from]
               /\ \/ applied'[i].n = 1 /\ (i > 1 => applied'[i - 1].from < applied'[i].from)
                  \/ i > 1 /\ applied'[i - 1] = [applied'[i] EXCEPT !.n = @ - 1]
    <3>1. CASE i \in 1 .. L
      <4>1. applied'[i] = applied[i] /\ (i > 1 => applied'[i - 1] = applied[i - 1]) /\ i \in DOMAIN applied
        BY <1>7, <1>9, <3>1
      <4>2. /\ applied[i].n <= said[applied[i].from]
            /\ \/ applied[i].n = 1 /\ (i > 1 => applied[i - 1].from < applied[i].from)
               \/ i > 1 /\ applied[i - 1] = [applied[i] EXCEPT !.n = @ - 1]
        BY <4>1 DEF LInv, EventsAgree
      <4> QED
        BY <4>1, <4>2
    <3>2. CASE i = L + 1
      <4>1. applied'[i] = t /\ (L > 0 => L \in DOMAIN applied /\ applied'[i - 1] = applied[L]) /\ i - 1 = L
        BY <1>7, <1>9, <3>2
      <4>2. t.n <= said[t.from]
        BY <1>6, <1>8, <1>11, <1>12
      <4>3. CASE L > 0 /\ applied[L].from = bridge
        <5>1. Heard = applied[L].n
          BY <4>3 DEF Heard, L
        <5>2. applied[L] \in [from : Bridges, n : Nat]
          BY <1>1, <4>1, <4>3, AppliedFacts
        <5>3. t = [from |-> bridge, n |-> applied[L].n + 1]
          BY <1>5, <1>6, <1>12, <5>1
        <5>4. applied[L] = [t EXCEPT !.n = @ - 1]
          BY <5>2, <5>3, <4>3
        <5>5. i > 1
          BY <1>7, <3>2, <4>3
        <5> QED
          BY <4>1, <4>2, <4>3, <5>4, <5>5
      <4>4. CASE ~(L > 0 /\ applied[L].from = bridge)
        <5>1. Heard = 0
          BY <4>4 DEF Heard, L
        <5>2. i > 1 => applied[L].from < bridge
          <6> SUFFICES ASSUME i > 1 PROVE applied[L].from < bridge
            OBVIOUS
          <6>1. L > 0 /\ L \in DOMAIN applied
            BY <1>7, <3>2, <4>1
          <6>2. applied[L].from <= bridge /\ applied[L].from # bridge
            BY <6>1, <4>4 DEF LInv, NoneToCome
          <6>3. applied[L].from \in Nat /\ bridge \in Nat
            BY <1>1, <6>1, AppliedFacts, EventLoopAssumption
          <6> QED
            BY <6>2, <6>3
        <5>3. i > 1 => L > 0
          BY <1>7, <3>2
        <5> QED
          BY <4>1, <4>2, <5>1, <5>2, <5>3, <1>6, <1>12
      <4> QED
        BY <4>3, <4>4
    <3>3. i \in 1 .. L \/ i = L + 1
      BY <1>7, <2>1
    <3> QED
      BY <3>1, <3>2, <3>3
  <2>2. said[bridge] = (Heard + 1) + Len(Tail(q))
    BY <1>8, <1>11
  <2>3. ASSUME NEW i \in DOMAIN Tail(q)
        PROVE  Tail(q)[i].n = (Heard + 1) + i
    <3>1. i \in Nat /\ i + 1 \in DOMAIN q /\ Tail(q)[i] = q[i + 1]
      BY <1>8, <1>9
    <3>2. q[i + 1].n = Heard + (i + 1)
      BY <3>1, <1>11
    <3> QED
      BY <3>1, <3>2, <1>11
  <2> QED
    BY <1>1, <1>2, <1>10, <1>13, <2>1, <2>2, <2>3 DEF EventsAgree
<1>15. NoneToCome'
  <2>1. ASSUME NEW i \in DOMAIN applied'
        PROVE  applied'[i].from <= bridge
    <3>1. CASE i \in 1 .. L
      BY <1>7, <1>9, <3>1 DEF LInv, NoneToCome
    <3>2. CASE i = L + 1
      BY <1>1, <1>6, <1>7, <3>2, EventLoopAssumption
    <3> QED
      BY <3>1, <3>2, <1>7
  <2> QED
    BY <1>2, <2>1 DEF LInv, NoneToCome
<1>16. \A b \in Bridges : Mailed(b)'
  BY <1>2, QuietMail DEF LInv
<1>17. CASE k \notin Asks
  <2>1. UNCHANGED <<pending, worker>>
    BY <1>3, <1>17
  <2>2. LoopTypeOK'
    BY <1>1, <1>2, <1>7, <1>10, <2>1 DEF LoopTypeOK
  <2>3. ASSUME NEW b \in Bridges, NEW i \in DOMAIN stream'[b], stream'[b][i].kind \in Asks
        PROVE  i = Len(stream'[b]) /\ worker[b].at = stream'[b][i].kind /\ pending[stream'[b][i].kind] # b
    <3>1. b = bridge
      BY <1>10, <2>3
    <3>2. i \in Nat /\ i + 1 \in DOMAIN q /\ stream'[b][i] = q[i + 1]
      BY <1>8, <1>9, <1>10, <2>3, <3>1
    <3>3. i + 1 = Len(q) /\ worker[b].at = q[i + 1].kind /\ pending[q[i + 1].kind] # b
      BY <3>1, <3>2, <2>3 DEF LInv, Asked, q
    <3> QED
      BY <3>1, <3>2, <3>3, <1>8, <1>10
  <2>4. Asked'
    BY <2>1, <2>3 DEF LInv, Asked, NoOne
  <2>5. ASSUME NEW b \in Bridges, worker[b].at \in Asks
        PROVE  pending[worker[b].at] = b \/ (b = bridge /\ AsksIn(stream'[b]))
    <3>1. CASE pending[worker[b].at] = b
      BY <3>1
    <3>2. CASE b = bridge /\ AsksIn(q)
      <4>1. PICK j \in DOMAIN q : q[j].kind \in Asks
        BY <3>2 DEF AsksIn
      <4>2. j # 1
        BY <4>1, <1>4, <1>17
      <4>3. j - 1 \in DOMAIN Tail(q) /\ Tail(q)[j - 1] = q[j]
        BY <1>8, <1>9, <4>1, <4>2
      <4> QED
        BY <3>2, <4>1, <4>3, <1>10 DEF AsksIn
    <3> QED
      BY <2>5, <3>1, <3>2 DEF LInv, PromptsAgree, q
  <2>6. PromptsAgree'
    BY <1>2, <2>1, <2>5 DEF PromptsAgree, AsksIn
  <2> QED
    BY <2>2, <1>14, <1>15, <1>16, <2>4, <2>6 DEF LInv
<1>18. CASE k \in Asks
  <2>1. pending' = [pending EXCEPT ![k] = bridge] /\ Freed({pending[k]} \ {bridge})
    BY <1>3, <1>18 DEF Show
  <2>2. q[1].kind = k
    BY <1>4
  <2> HIDE DEF k
  <2>3. 1 = Len(q) /\ worker[bridge].at = k /\ pending[k] # bridge
    BY <1>1, <1>4, <1>18, <2>2 DEF LInv, Asked, q
  <2>4. stream'[bridge] = <<>>
    BY <1>8, <1>10, <2>3
  <2>5. \A b \in Bridges : stream'[b] = <<>>
    BY <1>10, <2>4
  <2>6. /\ pending' \in [Asks -> Bridges \union {NoOne}] /\ pending'[k] = bridge
        /\ \A kind \in Asks : kind # k => pending'[kind] = pending[kind]
    BY <1>1, <1>18, <2>1 DEF LoopTypeOK
  <2>7. /\ worker' \in [Bridges -> Workers]
        /\ \A b \in Bridges : worker'[b].at = IF b \in {pending[k]} \ {bridge} THEN "works" ELSE worker[b].at
    BY <1>1, <2>1, FreedFacts
  <2>8. LoopTypeOK'
    BY <1>1, <1>2, <1>7, <1>10, <2>6, <2>7 DEF LoopTypeOK
  <2>9. ASSUME NEW kind \in Asks, pending'[kind] # NoOne
        PROVE  worker'[pending'[kind]].at = kind
    <3>1. CASE kind = k
      BY <1>1, <2>3, <2>6, <2>7, <3>1
    <3>2. CASE kind # k
      <4>1. pending'[kind] = pending[kind]
        BY <2>6, <3>2
      <4>2. pending[kind] \in Bridges /\ worker[pending[kind]].at = kind
        BY <2>9, <4>1, ShownFacts
      <4>3. pending[kind] # pending[k]
        <5> SUFFICES ASSUME pending[kind] = pending[k] PROVE FALSE
          OBVIOUS
        <5>1. worker[pending[k]].at = k
          BY <1>18, <2>9, <4>1, ShownFacts
        <5> QED
          BY <3>2, <4>2, <5>1
      <4> QED
        BY <2>7, <4>1, <4>2, <4>3
    <3> QED
      BY <3>1, <3>2
  <2>10. Asked'
    BY <2>5, <2>9 DEF Asked, NoOne
  <2>11. ASSUME NEW b \in Bridges, worker'[b].at \in Asks
         PROVE  pending'[worker'[b].at] = b
    <3>1. b \notin {pending[k]} \ {bridge} /\ worker'[b].at = worker[b].at
      BY <2>7, <2>11 DEF Asks
    <3>2. CASE b = bridge
      BY <2>3, <2>6, <3>1, <3>2
    <3>3. CASE b # bridge
      <4>1. pending[worker[b].at] = b
        BY <2>11, <3>1, <3>3 DEF LInv, PromptsAgree
      <4>2. worker[b].at # k
        BY <3>1, <3>3, <4>1
      <4> QED
        BY <2>6, <2>11, <3>1, <4>1, <4>2
    <3> QED
      BY <3>2, <3>3
  <2>12. PromptsAgree'
    BY <2>11 DEF PromptsAgree
  <2> QED
    BY <2>8, <1>14, <1>15, <1>16, <2>10, <2>12 DEF LInv
<1> QED
  BY <1>17, <1>18
-----------------------------------------------------------------------------
(* The invariant.                                                          *)

\* Nothing was said, sent or asked at the start.
LEMMA LoopInitSound ==
    ASSUME LoopInit
    PROVE  LInv
<1>1. LoopTypeOK
  <2>1. Selecting \in [at : {"select", "send", "ended"}, message : Nat] /\ Selecting.at = "select"
    BY DEF Selecting
  <2>2. Resting \in Workers
    BY DEF Resting, Workers
  <2>3. <<>> \in Seq(Nat) /\ <<>> \in Seq(Messages) /\ <<>> \in Seq([from : Bridges, n : Nat])
    OBVIOUS
  <2>4. loop \in [at : {"select", "send", "ended"}, message : Nat] /\ loop.at # "send"
    BY <2>1 DEF LoopInit
  <2>5. mailbox \in [Bridges -> Seq(Nat)] /\ stream \in [Bridges -> Seq(Messages)]
    BY <2>3 DEF LoopInit
  <2> QED
    BY <2>2, <2>3, <2>4, <2>5 DEF LoopInit, LoopTypeOK
<1>2. Len(<<>>) = 0 /\ DOMAIN <<>> = {}
  OBVIOUS
<1>3. applied = <<>> /\ loop.at = "select" /\ bridge = 0 /\ \A b \in Bridges : b \in Nat /\ b # 0
  BY EventLoopAssumption DEF LoopInit, Selecting
<1>4. \A b \in Bridges : /\ stream[b] = <<>> /\ mailbox[b] = <<>> /\ said[b] = 0
                         /\ sent[b] = 0 /\ taken[b] = 0 /\ worker[b].at = "waits"
  BY DEF LoopInit, Resting
<1>5. EventsAgree /\ NoneToCome
  BY <1>2, <1>3, <1>4 DEF EventsAgree, NoneToCome
<1>6. ASSUME NEW b \in Bridges
      PROVE  Mailed(b)
  <2>1. Waiting(b) = <<>>
    BY <1>3 DEF Waiting
  <2>2. INBOX_CAP >= 0
    BY EventLoopAssumption
  <2> QED
    BY <1>2, <1>3, <1>4, <2>1, <2>2 DEF Mailed
<1>7. Asked
  BY <1>2, <1>4 DEF Asked, LoopInit
<1>8. PromptsAgree
  BY <1>4 DEF PromptsAgree, Asks
<1> QED
  BY <1>1, <1>5, <1>6, <1>7, <1>8 DEF LInv

\* A key that is handled.
LEMMA HandleKeySound ==
    ASSUME LInv, HandleKey
    PROVE  LInv'
<1> DEFINE awaited == \E kind \in Asks : pending[kind] # NoOne
           key == Head(unread)
<1>1. loop.at = "select" /\ ApplyAction(key) /\ UNCHANGED applied
  BY DEF HandleKey
<1>2. \/ Quit
      \/ awaited /\ Answer
      \/ Send
      \/ ChooseModel
      \/ Ignore
  BY <1>1 DEF ApplyAction
<1>3. ASSUME ChooseModel
      PROVE  LInv'
  <2>1. UNCHANGED loop /\ (SpawnBridge \/ UNCHANGED <<bridge, pending, worker, wires>>)
    BY <1>3 DEF ChooseModel
  <2> QED
    BY <1>1, <2>1, SpawnSound, SilentSound
<1>4. Ignore => UNCHANGED <<loop, bridge, wires, worker, pending>>
  BY DEF Ignore
<1> QED
  BY <1>1, <1>2, <1>3, <1>4, QuitSound, AnswerSound, SendSound, SilentSound

\* Every step keeps the invariant.
LEMMA StepSound ==
    ASSUME LInv, [LoopNext]_loopVars
    PROVE  LInv'
<1>1. CASE ReadKey
  BY <1>1, SilentSound DEF ReadKey
<1>2. CASE HandleKey
  BY <1>2, HandleKeySound
<1>3. CASE Deliver
  BY <1>3, DeliverSound
<1>4. CASE TakeEvent
  BY <1>4, TakeEventSound
<1>5. CASE TakeCaps
  BY <1>5, SpawnSound DEF TakeCaps
<1>6. ASSUME NEW b \in Bridges,
             TakeNext(b) \/ Report(b) \/ FinishTurn(b) \/ \E kind \in Asks : Request(b, kind)
      PROVE  LInv'
  BY <1>6, TakeNextSound, ReportSound, FinishTurnSound, RequestSound
<1>7. CASE UNCHANGED loopVars
  BY <1>7, SilentSound DEF loopVars
<1> QED
  BY <1>1, <1>2, <1>3, <1>4, <1>5, <1>6, <1>7 DEF LoopNext

\* The messages taken, those in the mailbox and the one that waits are those sent.
LEMMA MailAgrees ==
    ASSUME LInv
    PROVE  MessagesAgree
<1> SUFFICES ASSUME NEW b \in Bridges
             PROVE  FirstNumbers(taken[b]) \o mailbox[b] \o Waiting(b) = FirstNumbers(sent[b])
  BY DEF MessagesAgree
<1> DEFINE t == taken[b]
           m == mailbox[b]
           w == Waiting(b)
           all == FirstNumbers(t) \o m \o w
<1>1. t \in Nat /\ m \in Seq(Nat) /\ sent[b] \in Nat
  BY DEF LInv, LoopTypeOK
<1>2. /\ \A i \in DOMAIN m : m[i] = t + i
      /\ sent[b] = t + Len(m) + Len(w)
      /\ b = bridge /\ loop.at = "send" => loop.message = sent[b]
  BY DEF LInv, Mailed
<1>3. w \in Seq(Nat) /\ Len(w) \in {0, 1} /\ (Len(w) = 1 => w[1] = sent[b])
  <2>1. CASE b = bridge /\ loop.at = "send"
    <3>1. w = <<loop.message>> /\ loop.message = sent[b]
      BY <1>2, <2>1 DEF Waiting
    <3> QED
      BY <1>1, <3>1
  <2>2. CASE ~(b = bridge /\ loop.at = "send")
    <3>1. w = <<>>
      BY <2>2 DEF Waiting
    <3>2. <<>> \in Seq(Nat) /\ Len(<<>>) = 0
      OBVIOUS
    <3> HIDE DEF w
    <3> QED
      BY <3>1, <3>2
  <2> QED
    BY <2>1, <2>2
<1>4. FirstNumbers(t) \in Seq(Nat) /\ Len(FirstNumbers(t)) = t
      /\ \A i \in 1 .. t : FirstNumbers(t)[i] = i
  BY <1>1 DEF FirstNumbers
<1> HIDE DEF t, m, w
<1> DEFINE f == FirstNumbers(t)
           last == sent[b]
<1>5. f \in Seq(Nat) /\ Len(f) = t /\ \A i \in 1 .. t : f[i] = i
  BY <1>4
<1>6. /\ t \in Nat /\ m \in Seq(Nat) /\ Len(m) \in Nat /\ last \in Nat
      /\ last = t + Len(m) + Len(w) /\ (Len(w) = 1 => w[1] = last)
      /\ \A i \in 1 .. Len(m) : m[i] = t + i
  BY <1>1, <1>2, <1>3
<1>11. t \in Nat /\ Len(m) \in Nat /\ last \in Nat /\ Len(w) \in {0, 1}
  BY <1>3, <1>6
<1>12. last = t + Len(m) + Len(w) /\ (Len(w) = 1 => w[1] = last)
  BY <1>6
<1> HIDE DEF f, last
<1>7. /\ f \o m \in Seq(Nat) /\ Len(f \o m) = t + Len(m)
      /\ \A i \in 1 .. (t + Len(m)) : (f \o m)[i] = i
  <2>1. f \o m \in Seq(Nat) /\ Len(f \o m) = t + Len(m)
    BY <1>5, <1>6, JoinFacts, ZenonT(60)
  <2>2. ASSUME NEW i \in 1 .. (t + Len(m))
        PROVE  (f \o m)[i] = i
    <3>1. i \in Nat /\ i >= 1 /\ i <= t + Len(m)
      BY <1>6
    <3>2. CASE i <= t
      <4>1. i \in 1 .. Len(f)
        BY <1>5, <1>6, <3>1, <3>2
      <4>2. (f \o m)[i] = f[i]
        BY <1>5, <1>6, <4>1, JoinFacts
      <4> QED
        BY <1>5, <4>1, <4>2
    <3>3. CASE i > t
      <4>1. i - t \in 1 .. Len(m) /\ i = t + (i - t)
        BY <1>6, <3>1, <3>3
      <4>2. (f \o m)[Len(f) + (i - t)] = m[i - t]
        BY <1>5, <1>6, <4>1, JoinFacts, SMTT(60)
      <4>3. m[i - t] = t + (i - t)
        BY <1>6, <4>1
      <4> QED
        BY <1>5, <4>1, <4>2, <4>3
    <3>4. i <= t \/ i > t
      BY <1>11, <3>1
    <3> QED
      BY <3>2, <3>3, <3>4
  <2> QED
    BY <2>1, <2>2
<1> DEFINE g == f \o m
<1>8. g \in Seq(Nat) /\ Len(g) = t + Len(m) /\ \A i \in 1 .. (t + Len(m)) : g[i] = i
  BY <1>7
<1> HIDE DEF g
<1>9. g \o w \in Seq(Nat) /\ Len(g \o w) = last /\ \A i \in 1 .. last : (g \o w)[i] = i
  <2>1. g \o w \in Seq(Nat) /\ Len(g \o w) = last
    <3>1. g \o w \in Seq(Nat) /\ Len(g \o w) = Len(g) + Len(w)
      BY <1>3, <1>8, JoinFacts
    <3> QED
      BY <3>1, <1>6, <1>8
  <2>2. ASSUME NEW i \in 1 .. last
        PROVE  (g \o w)[i] = i
    <3>1. i \in Nat /\ i >= 1 /\ i <= last
      BY <1>6
    <3>2. CASE i <= t + Len(m)
      <4>1. i \in 1 .. Len(g) /\ i \in 1 .. (t + Len(m))
        BY <1>6, <1>8, <3>1, <3>2
      <4>2. (g \o w)[i] = g[i]
        BY <1>3, <1>8, <4>1, JoinFacts
      <4> QED
        BY <1>8, <4>1, <4>2
    <3>3. CASE i > t + Len(m)
      <4>1. Len(w) = 1 /\ i = last /\ last = Len(g) + 1 /\ 1 \in 1 .. Len(w)
        <5>1. Len(g) = t + Len(m)
          BY <1>8
        <5>2. Len(w) = 1
          BY <1>11, <1>12, <3>1, <3>3
        <5> QED
          BY <1>11, <1>12, <3>1, <3>3, <5>1, <5>2
      <4>2. (g \o w)[Len(g) + 1] = w[1]
        BY <1>3, <1>8, <4>1, JoinFacts
      <4> QED
        BY <1>12, <4>1, <4>2
    <3>4. i <= t + Len(m) \/ i > t + Len(m)
      BY <1>11, <3>1
    <3> QED
      BY <3>2, <3>3, <3>4
  <2> QED
    BY <2>1, <2>2
<1>10. g \o w = [i \in 1 .. last |-> i]
  <2> DEFINE h == g \o w
  <2>1. h \in Seq(Nat) /\ Len(h) = last /\ \A i \in 1 .. last : h[i] = i
    BY <1>9
  <2> HIDE DEF h
  <2>2. h = [i \in 1 .. last |-> i]
    BY <2>1
  <2> QED
    BY <2>2 DEF h
<1> QED
  BY <1>10 DEF g, f, t, m, w, last, FirstNumbers

\* The loop is behind a mailbox that is full, or may go on at once.
LEMMA InboxFacts ==
    ASSUME LInv
    PROVE  InboxAgrees
<1> SUFFICES ASSUME loop.at = "send"
             PROVE  /\ sent[bridge] - taken[bridge] > 0
                    /\ sent[bridge] - taken[bridge] <= INBOX_CAP => Len(mailbox[bridge]) < INBOX_CAP
  BY DEF InboxAgrees
<1>1. bridge \in Bridges /\ taken[bridge] \in Nat /\ sent[bridge] \in Nat /\ Len(mailbox[bridge]) \in Nat
  BY DEF LInv, LoopTypeOK
<1>2. Len(Waiting(bridge)) = 1
  BY DEF Waiting
<1>3. sent[bridge] = taken[bridge] + Len(mailbox[bridge]) + Len(Waiting(bridge))
  BY <1>1 DEF LInv, Mailed
<1>4. INBOX_CAP \in Nat
  BY EventLoopAssumption
<1> QED
  BY <1>1, <1>2, <1>3, <1>4

-----------------------------------------------------------------------------
(* The theorems.                                                           *)

\* The invariant: what is in the channels of a bridge are the numbers that follow
\* those its other end has taken, a request is the last thing its agent said and in
\* one place only, and nothing was said or heard of a bridge that was not spawned
\* (spawn_session, event_loop.rs; request and gate_plan, agent_bridge.rs).
THEOREM Inductive == LoopSpec => []LInv
<1>1. LoopInit => LInv
  BY LoopInitSound
<1>2. LInv /\ [LoopNext]_loopVars => LInv'
  BY StepSound
<1> QED
  BY <1>1, <1>2, PTL DEF LoopSpec

\* Whatever the keys, the agents and the order of their steps, with channels of any
\* capacity and any number of bridges: nothing is lost, doubled or reordered between
\* the tasks, an agent that waits for an answer waits for a prompt that is shown or on
\* its way, and the loop is kept from the keys by a full inbox alone.
THEOREM TasksDoAgree == LoopSpec => []TasksAgree
<1>1. LInv => TasksAgree
  BY MailAgrees, InboxFacts DEF LInv, TasksAgree
<1> QED
  BY <1>1, Inductive, PTL
==============================================================================
