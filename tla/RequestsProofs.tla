--------------------------- MODULE RequestsProofs ----------------------------
(***************************************************************************)
(* Proofs about Requests, for any arguments, costs, budgets and bounds:     *)
(* what every request of a session is, however its history was pruned, and  *)
(* what becomes of it on the wires of the providers.                        *)
(***************************************************************************)
EXTENDS Requests, CommonLemmas

Ids == Nat \union (Nat \X Nat)
Calls == [id : Ids, name : {"read", "edit"}, arg : Args]
Messages ==
    [role : {"system", "user", "assistant", "tool"}, kind : Kinds, calls : Seq(Calls),
     answers : Ids \union {Nobody}, of : Calls \union {Nobody}]

\* What a message is tells who it is from.
Proper(m) ==
    /\ m.calls # <<>> => m.role = "assistant" /\ m.kind = "text"
    /\ m.role = "tool" => /\ m.of \in Calls /\ m.answers = m.of.id
                          /\ m.kind \in {"result", "pruned", "superseded"}
    /\ m.role # "tool" => m.answers = Nobody /\ m.kind \notin {"result", "pruned", "superseded"}
    /\ (m.role = "user") = (m.kind \in {"prompt", "package"})
    /\ (m.role = "assistant") = (m.kind \in {"text", "silent"})

\* Each call is followed by the results of all of its message, in order, and each
\* result is one of those.
Paired(ms) ==
    /\ \A i \in DOMAIN ms : \A k \in DOMAIN ms[i].calls :
          i + k \in DOMAIN ms /\ ms[i + k].role = "tool" /\ ms[i + k].of = ms[i].calls[k]
    /\ \A i \in DOMAIN ms : ms[i].role = "tool" =>
          \E p \in 1 .. (i - 1) : (i - p) \in DOMAIN ms[p].calls /\ ms[i].of = ms[p].calls[i - p]

\* Nobody answers before a user spoke.
Begun(ms) ==
    \A i \in DOMAIN ms : ms[i].role \in {"assistant", "tool"} \/ ms[i].kind = "note" =>
        \E j \in 1 .. (i - 1) : ms[j].role = "user"

\* A call's id tells where it is.
Placed(ms) == \A i \in DOMAIN ms : \A k \in DOMAIN ms[i].calls : ms[i].calls[k].id = <<i - 1, k>>

IInv ==
    /\ history \in Seq(Messages) /\ implement \in BOOLEAN /\ active \in BOOLEAN
    /\ \A i \in DOMAIN history :
          /\ Proper(history[i])
          /\ history[i].kind \notin {"pruned", "superseded", "notice"}
          /\ history[i].kind = "package" =>
                implement /\ \A j \in 1 .. (i - 1) : history[j].role # "user"
    /\ Paired(history) /\ Begun(history)
    /\ ServerIds => Placed(history)

-----------------------------------------------------------------------------
(* Sequences of messages put together.                                       *)

LEMMA JoinIs ==
    ASSUME NEW S, NEW u \in Seq(S), NEW v \in Seq(S)
    PROVE  /\ u \o v \in Seq(S) /\ Len(u \o v) = Len(u) + Len(v)
           /\ Len(u) \in Nat /\ Len(v) \in Nat
           /\ DOMAIN u = 1 .. Len(u) /\ DOMAIN v = 1 .. Len(v)
           /\ DOMAIN (u \o v) = 1 .. (Len(u) + Len(v))
           /\ \A i \in 1 .. Len(u) : (u \o v)[i] = u[i]
           /\ \A i \in 1 .. Len(v) : (u \o v)[Len(u) + i] = v[i]
           /\ \A i \in 1 .. (Len(u) + Len(v)) : i <= Len(u) \/ i - Len(u) \in 1 .. Len(v)
  <1>1. Len(u) \in Nat /\ Len(v) \in Nat /\ DOMAIN u = 1 .. Len(u) /\ DOMAIN v = 1 .. Len(v)
    BY LenProperties
  <1> DEFINE w == u \o v
  <1>2. /\ w \in Seq(S) /\ Len(w) = Len(u) + Len(v)
        /\ \A i \in 1 .. Len(u) + Len(v) : w[i] = IF i <= Len(u) THEN u[i] ELSE v[i - Len(u)]
    BY ConcatProperties
  <1>3. DOMAIN w = 1 .. Len(w)
    BY <1>2, LenProperties
  <1> HIDE DEF w
  <1>4. \A i \in 1 .. Len(u) : w[i] = u[i]
    BY <1>1, <1>2
  <1>5. \A i \in 1 .. Len(v) : w[Len(u) + i] = v[i]
    <2> TAKE i \in 1 .. Len(v)
    <2>1. Len(u) + i \in 1 .. Len(u) + Len(v) /\ ~(Len(u) + i <= Len(u)) /\ (Len(u) + i) - Len(u) = i
      BY <1>1
    <2> QED
      BY <1>2, <2>1
  <1>6. \A i \in 1 .. (Len(u) + Len(v)) : i <= Len(u) \/ i - Len(u) \in 1 .. Len(v)
    BY <1>1
  <1> QED
    BY <1>1, <1>2, <1>3, <1>4, <1>5, <1>6 DEF w

LEMMA MessageIs ==
    ASSUME NEW m \in Messages
    PROVE  /\ m.calls \in Seq(Calls) /\ Len(m.calls) \in Nat /\ DOMAIN m.calls = 1 .. Len(m.calls)
           /\ m.role \in {"system", "user", "assistant", "tool"} /\ m.kind \in Kinds
           /\ m.answers \in Ids \union {Nobody} /\ m.of \in Calls \union {Nobody}
           /\ m.calls # <<>> => 1 \in DOMAIN m.calls
           /\ m.calls = <<>> => DOMAIN m.calls = {}
  <1>1. m.calls \in Seq(Calls)
    BY DEF Messages
  <1>2. Len(m.calls) \in Nat /\ DOMAIN m.calls = 1 .. Len(m.calls)
    BY <1>1, LenProperties
  <1>3. m.calls # <<>> => Len(m.calls) # 0
    BY <1>1, EmptySeq
  <1>4. m.calls = <<>> => Len(m.calls) = 0
    OBVIOUS
  <1>5. /\ m.role \in {"system", "user", "assistant", "tool"} /\ m.kind \in Kinds
        /\ m.answers \in Ids \union {Nobody} /\ m.of \in Calls \union {Nobody}
    BY DEF Messages
  <1> QED
    BY <1>1, <1>2, <1>3, <1>4, <1>5

LEMMA JoinMessages ==
    ASSUME NEW u \in Seq(Messages), NEW v \in Seq(Messages)
    PROVE  /\ u \o v \in Seq(Messages) /\ DOMAIN (u \o v) = 1 .. (Len(u) + Len(v))
           /\ \A i \in 1 .. Len(u) : (u \o v)[i] = u[i]
           /\ \A i \in 1 .. Len(v) : (u \o v)[Len(u) + i] = v[i]
  BY JoinIs

\* Two sequences that are paired are so together.
LEMMA JoinPaired ==
    ASSUME NEW u \in Seq(Messages), NEW v \in Seq(Messages), Paired(u), Paired(v)
    PROVE  Paired(u \o v)
  <1> DEFINE w == u \o v
             m == Len(u)
             n == Len(v)
  <1>1. /\ m \in Nat /\ n \in Nat /\ DOMAIN u = 1 .. m /\ DOMAIN v = 1 .. n /\ DOMAIN w = 1 .. (m + n)
        /\ \A i \in 1 .. m : w[i] = u[i]
        /\ \A i \in 1 .. n : w[m + i] = v[i]
        /\ \A i \in 1 .. (m + n) : i <= m \/ i - m \in 1 .. n
    BY JoinIs
  <1> HIDE DEF w, m, n
  <1>0. \A i \in 1 .. (m + n) : i \in Nat /\ (i - m \in 1 .. n => w[i] = v[i - m])
    <2> TAKE i \in 1 .. (m + n)
    <2>1. i \in Nat /\ m + (i - m) = i
      BY <1>1
    <2> QED
      BY <1>1, <2>1
  <1>2. \A i \in DOMAIN u : Len(u[i].calls) \in Nat /\ DOMAIN u[i].calls = 1 .. Len(u[i].calls)
    <2> TAKE i \in DOMAIN u
    <2>1. u[i] \in Messages
      BY <1>1, ElementOfSeq
    <2> QED
      BY <2>1, MessageIs
  <1>3. \A i \in DOMAIN v : Len(v[i].calls) \in Nat /\ DOMAIN v[i].calls = 1 .. Len(v[i].calls)
    <2> TAKE i \in DOMAIN v
    <2>1. v[i] \in Messages
      BY <1>1, ElementOfSeq
    <2> QED
      BY <2>1, MessageIs
  <1>4. ASSUME NEW i \in DOMAIN w, NEW k \in DOMAIN w[i].calls
        PROVE  i + k \in DOMAIN w /\ w[i + k].role = "tool" /\ w[i + k].of = w[i].calls[k]
    <2>1. CASE i <= m
      <3>1. i \in 1 .. m /\ w[i] = u[i]
        BY <1>1, <2>1
      <3>2. i + k \in 1 .. m /\ u[i + k].role = "tool" /\ u[i + k].of = u[i].calls[k]
        BY <1>1, <3>1 DEF Paired
      <3> QED
        BY <1>1, <3>1, <3>2
    <2>2. CASE i - m \in 1 .. n
      <3>1. w[i] = v[i - m] /\ i \in Nat
        BY <1>0, <1>1, <2>2
      <3>2. (i - m) + k \in 1 .. n /\ v[(i - m) + k].role = "tool" /\ v[(i - m) + k].of = v[i - m].calls[k]
        BY <1>1, <2>2, <3>1 DEF Paired
      <3>3. k \in Nat
        BY <1>1, <1>3, <2>2, <3>1
      <3>4. m + ((i - m) + k) = i + k /\ i + k \in 1 .. (m + n)
        BY <1>1, <3>1, <3>2, <3>3
      <3>5. w[i + k] = v[(i - m) + k]
        BY <1>1, <3>2, <3>4
      <3> QED
        BY <1>1, <3>1, <3>2, <3>4, <3>5
    <2> QED
      BY <1>1, <2>1, <2>2
  <1>5. ASSUME NEW i \in DOMAIN w, w[i].role = "tool"
        PROVE  \E p \in 1 .. (i - 1) : (i - p) \in DOMAIN w[p].calls /\ w[i].of = w[p].calls[i - p]
    <2>1. CASE i <= m
      <3>1. i \in 1 .. m /\ w[i] = u[i]
        BY <1>1, <2>1
      <3>2. PICK p \in 1 .. (i - 1) : (i - p) \in DOMAIN u[p].calls /\ u[i].of = u[p].calls[i - p]
        BY <1>1, <1>5, <3>1 DEF Paired
      <3>3. w[p] = u[p]
        BY <1>1, <3>1
      <3> QED
        BY <3>1, <3>2, <3>3
    <2>2. CASE i - m \in 1 .. n
      <3>1. w[i] = v[i - m] /\ i \in Nat
        BY <1>0, <1>1, <2>2
      <3>2. PICK p \in 1 .. ((i - m) - 1) :
               ((i - m) - p) \in DOMAIN v[p].calls /\ v[i - m].of = v[p].calls[(i - m) - p]
        BY <1>1, <1>5, <2>2, <3>1, ZenonT(60) DEF Paired
      <3>3. p \in 1 .. n /\ m + p \in 1 .. (i - 1) /\ (i - m) - p = i - (m + p)
        BY <1>1, <2>2, <3>1, <3>2, SMTT(60)
      <3>4. w[m + p] = v[p]
        BY <1>1, <3>3
      <3> QED
        BY <3>1, <3>2, <3>3, <3>4
    <2> QED
      BY <1>1, <2>1, <2>2
  <1> QED
    BY <1>4, <1>5 DEF Paired, w

\* What is said after a user spoke, or begins with one.
LEMMA JoinBegun ==
    ASSUME NEW u \in Seq(Messages), NEW v \in Seq(Messages), Begun(u),
           Begun(v) \/ \E j \in DOMAIN u : u[j].role = "user"
    PROVE  Begun(u \o v)
  <1> DEFINE w == u \o v
             m == Len(u)
             n == Len(v)
  <1>1. /\ m \in Nat /\ n \in Nat /\ DOMAIN u = 1 .. m /\ DOMAIN v = 1 .. n /\ DOMAIN w = 1 .. (m + n)
        /\ \A i \in 1 .. m : w[i] = u[i]
        /\ \A i \in 1 .. n : w[m + i] = v[i]
        /\ \A i \in 1 .. (m + n) : i <= m \/ i - m \in 1 .. n
    BY JoinIs
  <1> HIDE DEF w, m, n
  <1> SUFFICES ASSUME NEW i \in 1 .. (m + n), w[i].role \in {"assistant", "tool"} \/ w[i].kind = "note"
               PROVE  \E j \in 1 .. (i - 1) : w[j].role = "user"
    BY <1>1 DEF Begun, w
  <1>2. CASE i <= m
    <2>1. i \in 1 .. m /\ w[i] = u[i]
      BY <1>1, <1>2
    <2>2. PICK j \in 1 .. (i - 1) : u[j].role = "user"
      BY <1>1, <2>1 DEF Begun
    <2>3. w[j] = u[j]
      BY <1>1, <2>1
    <2> QED
      BY <2>2, <2>3
  <1>3. CASE i - m \in 1 .. n
    <2>1. m + (i - m) = i
      BY <1>1
    <2>2. w[i] = v[i - m]
      BY <1>1, <1>3, <2>1
    <2>3. CASE \E j \in DOMAIN u : u[j].role = "user"
      <3>1. PICK j \in 1 .. m : u[j].role = "user"
        BY <1>1, <2>3
      <3>2. j \in 1 .. (i - 1) /\ w[j] = u[j]
        BY <1>1, <1>3
      <3> QED
        BY <3>1, <3>2
    <2>4. CASE Begun(v)
      <3>1. PICK j \in 1 .. ((i - m) - 1) : v[j].role = "user"
        BY <1>1, <1>3, <2>2, <2>4 DEF Begun
      <3>2. j \in 1 .. n /\ m + j \in 1 .. (i - 1)
        BY <1>1, <1>3
      <3>3. w[m + j] = v[j]
        BY <1>1, <3>2
      <3> QED
        BY <3>1, <3>2, <3>3
    <2> QED
      BY <2>3, <2>4
  <1> QED
    BY <1>1, <1>2, <1>3
-----------------------------------------------------------------------------
(* The history is always in order.                                           *)

NoCalls(m) == m.calls = <<>> /\ m.role # "tool"

LEMMA MessageTyped ==
    ASSUME NEW role \in {"system", "user", "assistant"}, NEW kind \in Kinds
    PROVE  /\ Message(role, kind) \in Messages /\ NoCalls(Message(role, kind))
           /\ Message(role, kind).role = role /\ Message(role, kind).kind = kind
           /\ Message(role, kind).answers = Nobody
  <1>1. <<>> \in Seq(Calls)
    OBVIOUS
  <1> QED
    BY <1>1 DEF Message, Messages, NoCalls

\* Without calls and results, nothing is to be paired.
LEMMA PairedAlone ==
    ASSUME NEW v \in Seq(Messages), \A i \in DOMAIN v : NoCalls(v[i])
    PROVE  Paired(v)
  <1>1. \A i \in DOMAIN v : v[i].calls = <<>> /\ v[i].role # "tool"
    BY DEF NoCalls
  <1>2. \A i \in DOMAIN v : DOMAIN v[i].calls = {}
    BY <1>1
  <1> QED
    BY <1>1, <1>2 DEF Paired

\* A step that says more.
LEMMA SayHolds ==
    ASSUME IInv, NEW v \in Seq(Messages), Say(v), UNCHANGED <<implement, active>>,
           \A i \in DOMAIN v : /\ Proper(v[i])
                               /\ v[i].kind \notin {"pruned", "superseded", "notice", "package"},
           Paired(v), Begun(v) \/ \E j \in DOMAIN history : history[j].role = "user",
           ServerIds => \A i \in DOMAIN v : \A k \in DOMAIN v[i].calls :
                           v[i].calls[k].id = <<Len(history) + i - 1, k>>
    PROVE  IInv'
  <1> DEFINE h == history
             w == history \o v
             m == Len(history)
             n == Len(v)
  <1>1. /\ m \in Nat /\ n \in Nat /\ DOMAIN h = 1 .. m /\ DOMAIN v = 1 .. n /\ DOMAIN w = 1 .. (m + n)
        /\ \A i \in 1 .. m : w[i] = h[i]
        /\ \A i \in 1 .. n : w[m + i] = v[i]
        /\ \A i \in 1 .. (m + n) : i <= m \/ i - m \in 1 .. n
        /\ w \in Seq(Messages)
    BY JoinIs DEF IInv
  <1>2. history' = w
    BY DEF Say
  <1>3. Paired(w) /\ Begun(w)
    BY JoinPaired, JoinBegun DEF IInv
  <1>4. \A i \in 1 .. (m + n) : i <= m \/ (i - m \in 1 .. n /\ w[i] = v[i - m])
    <2> HIDE DEF w, m, n, h
    <2> TAKE i \in 1 .. (m + n)
    <2>1. m + (i - m) = i
      BY <1>1
    <2> QED
      BY <1>1, <2>1
  <1>5. \A i \in DOMAIN w :
          /\ Proper(w[i])
          /\ w[i].kind \notin {"pruned", "superseded", "notice"}
          /\ w[i].kind = "package" =>
                implement /\ \A j \in 1 .. (i - 1) : w[j].role # "user"
    <2> TAKE i \in DOMAIN w
    <2>1. CASE i <= m
      <3>0. i \in DOMAIN h /\ w[i] = h[i]
        <4> HIDE DEF w, m, n, h
        <4> QED BY <1>1, <2>1
      <3>1. \A j \in 1 .. (i - 1) : w[j] = h[j]
        <4> HIDE DEF w, m, n, h
        <4> QED BY <1>1, <3>0
      <3>2. /\ Proper(h[i])
            /\ h[i].kind \notin {"pruned", "superseded", "notice"}
            /\ h[i].kind = "package" =>
                 implement /\ \A j \in 1 .. (i - 1) : h[j].role # "user"
        BY <3>0 DEF IInv
      <3> HIDE DEF w, m, n, h
      <3> QED
        BY <3>0, <3>1, <3>2
    <2>2. CASE i - m \in 1 .. n
      <3> HIDE DEF w, m, n, h
      <3>1. w[i] = v[i - m]
        BY <1>1, <1>4, <2>2
      <3> QED
        BY <1>1, <2>2, <3>1
    <2> HIDE DEF w, m, n, h
    <2> QED
      BY <1>1, <2>1, <2>2
  <1>6. ServerIds => Placed(w)
    <2> SUFFICES ASSUME ServerIds, NEW i \in DOMAIN w, NEW k \in DOMAIN w[i].calls
                 PROVE  w[i].calls[k].id = <<i - 1, k>>
      BY DEF Placed
    <2>0. Placed(h)
      BY DEF IInv
    <2>3. \A j \in DOMAIN v : \A l \in DOMAIN v[j].calls : v[j].calls[l].id = <<m + j - 1, l>>
      OBVIOUS
    <2> HIDE DEF w, m, n, h
    <2>1. CASE i <= m
      <3>1. i \in DOMAIN h /\ w[i] = h[i]
        BY <1>1, <2>1
      <3> QED
        BY <2>0, <3>1 DEF Placed
    <2>2. CASE i - m \in 1 .. n
      <3>1. w[i] = v[i - m] /\ m + (i - m) - 1 = i - 1
        BY <1>1, <1>4, <2>2
      <3> QED
        BY <1>1, <2>2, <2>3, <3>1, SMTT(30)
    <2> QED
      BY <1>1, <2>1, <2>2
  <1> HIDE DEF w
  <1> QED
    BY <1>1, <1>2, <1>3, <1>5, <1>6 DEF IInv

\* A step that begins the history anew.
LEMMA AnewHolds ==
    ASSUME IInv, NEW v \in Seq(Messages), history' = v, implement' \in BOOLEAN, active' = active,
           \A i \in DOMAIN v : /\ Proper(v[i]) /\ NoCalls(v[i])
                               /\ v[i].kind \notin {"pruned", "superseded", "notice"}
                               /\ v[i].kind = "package" =>
                                     implement' /\ \A j \in 1 .. (i - 1) : v[j].role # "user",
           Begun(v)
    PROVE  IInv'
  <1>1. Paired(v)
    BY PairedAlone
  <1>2. Placed(v)
    <2>1. \A i \in DOMAIN v : DOMAIN v[i].calls = {}
      BY DEF NoCalls
    <2> QED
      BY <2>1 DEF Placed
  <1> QED
    BY <1>1, <1>2 DEF IInv

\* Two messages at the end of a turn at most.
LEMMA Couple ==
    ASSUME NEW x \in Messages, NEW y \in Messages, NEW both \in BOOLEAN
    PROVE  LET v == <<x>> \o (IF both THEN <<y>> ELSE <<>>)
           IN  /\ v \in Seq(Messages) /\ v[1] = x /\ 1 \in DOMAIN v
               /\ Len(v) = IF both THEN 2 ELSE 1
               /\ \A i \in DOMAIN v : i \in Nat /\ (i = 1 \/ (both /\ i = 2 /\ v[i] = y))
  <1>1. CASE both
    <2> DEFINE xs == <<x>>
               ys == <<y>>
    <2>1. /\ xs \in Seq(Messages) /\ ys \in Seq(Messages) /\ Len(xs) = 1 /\ Len(ys) = 1
          /\ xs[1] = x /\ ys[1] = y
      OBVIOUS
    <2> HIDE DEF xs, ys
    <2>2. /\ xs \o ys \in Seq(Messages) /\ Len(xs \o ys) = 2 /\ DOMAIN (xs \o ys) = 1 .. 2
          /\ (xs \o ys)[1] = x
      BY <2>1, JoinIs
    <2>3. (xs \o ys)[1 + 1] = y
      BY <2>1, JoinIs
    <2> QED
      BY <1>1, <2>1, <2>2, <2>3 DEF xs, ys
  <1>2. CASE ~both
    <2>1. <<x>> \o <<>> = <<x>>
      OBVIOUS
    <2>2. <<x>> \in Seq(Messages) /\ DOMAIN <<x>> = 1 .. 1 /\ <<x>>[1] = x /\ Len(<<x>>) = 1
      OBVIOUS
    <2> QED
      BY <1>2, <2>1, <2>2
  <1> QED
    BY <1>1, <1>2
LEMMA InTurnHasUser ==
    ASSUME IInv, InTurn
    PROVE  \E j \in DOMAIN history : history[j].role = "user"
  <1> DEFINE n == Len(history)
             m == history[n]
  <1>1. n \in DOMAIN history /\ DOMAIN history = 1 .. n /\ n \in Nat
    BY LenProperties, EmptySeq DEF IInv, InTurn
  <1>2. m.kind \in {"prompt", "result", "note"}
    BY DEF InTurn, Last
  <1>3. Proper(m) /\ m \in Messages
    BY <1>1, ElementOfSeq DEF IInv
  <1>4. CASE m.kind = "prompt"
    BY <1>1, <1>3, <1>4 DEF Proper
  <1>5. CASE m.kind # "prompt"
    <2>1. m.role = "tool" \/ m.kind = "note"
      BY <1>2, <1>3, <1>5 DEF Proper
    <2>2. \E j \in 1 .. (n - 1) : history[j].role = "user"
      BY <1>1, <2>1 DEF IInv, Begun
    <2> HIDE DEF n
    <2> QED
      BY <1>1, <2>2
  <1> QED
    BY <1>4, <1>5

LEMMA PromptHolds ==
    ASSUME IInv, Prompt
    PROVE  IInv'
  <1> DEFINE m == Message("user", "prompt")
             v == <<m>>
  <1>1. m \in Messages /\ NoCalls(m) /\ Proper(m) /\ m.kind = "prompt" /\ m.role = "user"
    <2>1. m \in Messages /\ NoCalls(m) /\ m.kind = "prompt" /\ m.role = "user" /\ m.answers = Nobody
      BY MessageTyped DEF Kinds
    <2> HIDE DEF m
    <2> QED
      BY <2>1 DEF Proper, NoCalls
  <1> HIDE DEF m
  <1>2. v \in Seq(Messages) /\ DOMAIN v = {1} /\ v[1] = m
    BY <1>1
  <1> HIDE DEF v
  <1>3. Say(v) /\ UNCHANGED <<implement, active>>
    BY DEF Prompt, v, m
  <1>4. Paired(v) /\ Begun(v)
    <2>1. Paired(v)
      BY <1>1, <1>2, PairedAlone
    <2> QED
      BY <1>1, <1>2, <2>1 DEF Begun
  <1>5. \A i \in DOMAIN v : DOMAIN v[i].calls = {}
    BY <1>1, <1>2 DEF NoCalls
  <1> QED
    BY <1>1, <1>2, <1>3, <1>4, <1>5, SayHolds

\* A reply without calls and the note that may come after it.
LEMMA SettleHolds ==
    ASSUME IInv, Settle
    PROVE  IInv'
  <1>1. PICK failed \in BOOLEAN, kind \in {"text", "silent"} :
           Say(<<Message("assistant", kind)>> \o (IF failed THEN <<Message("system", "note")>> ELSE <<>>))
    BY DEF Settle
  <1> DEFINE x == Message("assistant", kind)
             y == Message("system", "note")
             v == <<x>> \o (IF failed THEN <<y>> ELSE <<>>)
  <1>2. x \in Messages /\ NoCalls(x) /\ Proper(x) /\ x.kind \in {"text", "silent"}
    <2>1. x \in Messages /\ NoCalls(x) /\ x.kind = kind /\ x.role = "assistant" /\ x.answers = Nobody
      BY MessageTyped DEF Kinds
    <2> HIDE DEF x
    <2> QED
      BY <2>1 DEF Proper, NoCalls
  <1>3. y \in Messages /\ NoCalls(y) /\ Proper(y) /\ y.kind = "note"
    <2>1. y \in Messages /\ NoCalls(y) /\ y.kind = "note" /\ y.role = "system" /\ y.answers = Nobody
      BY MessageTyped DEF Kinds
    <2> HIDE DEF y
    <2> QED
      BY <2>1 DEF Proper, NoCalls
  <1>4. Say(v)
    BY <1>1
  <1> HIDE DEF x, y
  <1>5. v \in Seq(Messages) /\ \A i \in DOMAIN v : v[i] = x \/ v[i] = y
    BY <1>2, <1>3, Couple
  <1> HIDE DEF v
  <1>6. Paired(v) /\ \A i \in DOMAIN v : DOMAIN v[i].calls = {}
    <2>1. \A i \in DOMAIN v : NoCalls(v[i])
      BY <1>2, <1>3, <1>5
    <2> QED
      BY <1>5, <2>1, PairedAlone DEF NoCalls
  <1>7. \E j \in DOMAIN history : history[j].role = "user"
    BY InTurnHasUser DEF Settle
  <1>8. UNCHANGED <<implement, active>>
    BY DEF Settle
  <1> QED
    BY <1>2, <1>3, <1>4, <1>5, <1>6, <1>7, <1>8, SayHolds

\* The result of a call.
LEMMA AnswerIs ==
    ASSUME NEW c \in Calls
    PROVE  LET a == Answer(c)
           IN  /\ a \in Messages /\ a.role = "tool" /\ a.of = c /\ a.calls = <<>>
               /\ a.kind = "result" /\ Proper(a)
  <1> DEFINE a == Answer(c)
             b == Message("tool", "result")
  <1>1. c.id \in Ids
    BY DEF Calls
  <1>2. b \in Messages
    <2>1. <<>> \in Seq(Calls)
      OBVIOUS
    <2> QED
      BY <2>1 DEF Message, Messages, Kinds
  <1>3. a.role = "tool" /\ a.of = c /\ a.calls = <<>> /\ a.kind = "result" /\ a.answers = c.id
    BY SMT DEF Answer, Message
  <1>4. a = [[b EXCEPT !.answers = c.id] EXCEPT !.of = c]
    BY DEF Answer
  <1>5. a \in Messages
    <2> DEFINE x == c.id
               d == [b EXCEPT !.answers = x]
    <2> HIDE DEF b, x
    <2>1. d \in Messages
      BY <1>1, <1>2 DEF Messages, x
    <2>2. a = [d EXCEPT !.of = c]
      BY <1>4 DEF b, x
    <2> HIDE DEF d, a
    <2> QED
      BY <2>1, <2>2 DEF Messages
  <1> HIDE DEF a
  <1> QED
    BY <1>3, <1>5 DEF a, Proper

\* A reply with calls: ids, the results after it and the note.
LEMMA RoundHolds ==
    ASSUME IInv, Round
    PROVE  IInv'
  <1>1. PICK reply \in Replies : \E ids \in IdsFor(Len(reply)) : \E noted \in BOOLEAN :
          LET calls == [k \in DOMAIN reply |->
                            [id |-> ids[k], name |-> reply[k].name, arg |-> reply[k].arg]]
          IN Say(<<CallsAs("text", calls)>> \o [k \in DOMAIN calls |-> Answer(calls[k])]
                 \o (IF noted THEN <<Message("system", "note")>> ELSE <<>>))
    BY DEF Round
  <1>2. PICK ids \in IdsFor(Len(reply)), noted \in BOOLEAN :
          LET calls == [k \in DOMAIN reply |->
                            [id |-> ids[k], name |-> reply[k].name, arg |-> reply[k].arg]]
          IN Say(<<CallsAs("text", calls)>> \o [k \in DOMAIN calls |-> Answer(calls[k])]
                 \o (IF noted THEN <<Message("system", "note")>> ELSE <<>>))
    BY <1>1
  <1> DEFINE calls == [k \in DOMAIN reply |->
                            [id |-> ids[k], name |-> reply[k].name, arg |-> reply[k].arg]]
             n == Len(reply)
             x == CallsAs("text", calls)
             answers == [k \in DOMAIN calls |-> Answer(calls[k])]
             y == Message("system", "note")
             tail == IF noted THEN <<y>> ELSE <<>>
             one == <<x>>
             v == one \o answers \o tail
  <1>3. Say(v)
    BY <1>2
  <1>4. n \in 1 .. 2 /\ reply \in [1 .. n -> [name : {"read", "edit"}, arg : Args]] /\ DOMAIN reply = 1 .. n
    BY DEF Replies
  <1>5. /\ ids \in [1 .. n -> Ids]
        /\ ServerIds => \A k \in 1 .. n : ids[k] = <<Len(history), k>>
    <2>1. Len(history) \in Nat
      BY LenProperties DEF IInv
    <2>2. CASE ServerIds
      <3>1. ids = [k \in 1 .. n |-> <<Len(history), k>>]
        BY <2>2 DEF IdsFor
      <3>2. \A k \in 1 .. n : <<Len(history), k>> \in Ids
        BY <2>1, <1>4 DEF Ids
      <3> HIDE DEF n
      <3> QED
        BY <3>1, <3>2
    <2>3. CASE ~ServerIds
      <3>1. ids = [k \in 1 .. n |-> k] \/ ids = [k \in 1 .. n |-> 1]
        BY <2>3 DEF IdsFor
      <3>2. \A k \in 1 .. n : k \in Ids /\ 1 \in Ids
        BY <1>4 DEF Ids
      <3> HIDE DEF n
      <3> QED
        BY <2>3, <3>1, <3>2
    <2> QED
      BY <2>2, <2>3
  <1>6. /\ calls \in Seq(Calls) /\ Len(calls) = n /\ DOMAIN calls = 1 .. n /\ calls # <<>>
        /\ \A k \in 1 .. n : calls[k] \in Calls /\ calls[k].id = ids[k]
    <2> HIDE DEF n
    <2>1. \A k \in 1 .. n : /\ [id |-> ids[k], name |-> reply[k].name, arg |-> reply[k].arg] \in Calls
      BY <1>4, <1>5 DEF Calls
    <2>2. calls \in [1 .. n -> Calls]
      BY <1>4, <2>1
    <2>3. calls \in Seq(Calls) /\ DOMAIN calls = 1 .. n /\ n \in Nat
      BY <1>4, <2>2
    <2>4. Len(calls) = n
      BY <2>3, LenProperties
    <2>5. calls # <<>>
      BY <2>4, <1>4
    <2>6. \A k \in 1 .. n : calls[k].id = ids[k]
      BY <1>4
    <2> HIDE DEF calls
    <2> QED
      BY <2>2, <2>3, <2>4, <2>5, <2>6
  <1> HIDE DEF calls, n
  <1>7. /\ x \in Messages /\ x.role = "assistant" /\ x.kind = "text" /\ x.calls = calls
        /\ x.answers = Nobody /\ x.of = Nobody /\ Proper(x)
    <2>1. x = [role |-> "assistant", kind |-> "text", calls |-> calls, answers |-> Nobody, of |-> Nobody]
      BY DEF CallsAs, Message
    <2> HIDE DEF x
    <2> QED
      BY <1>6, <2>1 DEF Messages, Kinds, Proper
  <1>8. \A k \in 1 .. n : LET a == Answer(calls[k])
                          IN  /\ a \in Messages /\ a.role = "tool" /\ a.of = calls[k] /\ a.calls = <<>>
                              /\ a.kind = "result" /\ Proper(a)
    BY <1>6, AnswerIs
  <1>9. y \in Messages /\ NoCalls(y) /\ Proper(y) /\ y.kind = "note"
    <2>1. y \in Messages /\ NoCalls(y) /\ y.kind = "note" /\ y.role = "system" /\ y.answers = Nobody
      BY MessageTyped DEF Kinds
    <2> HIDE DEF y
    <2> QED
      BY <2>1 DEF Proper, NoCalls
  <1> HIDE DEF x, y
  <1>10. answers \in Seq(Messages) /\ Len(answers) = n /\ \A k \in 1 .. n : answers[k] = Answer(calls[k])
    <2>1. answers \in [1 .. n -> Messages]
      BY <1>6, <1>8
    <2>2. answers \in Seq(Messages) /\ DOMAIN answers = 1 .. n /\ n \in Nat
      BY <1>4, <2>1
    <2>3. Len(answers) = n
      BY <2>2, LenProperties
    <2>4. \A k \in 1 .. n : answers[k] = Answer(calls[k])
      BY <1>6
    <2> QED
      BY <2>2, <2>3, <2>4
  <1>11. one \in Seq(Messages) /\ Len(one) = 1 /\ one[1] = x
    BY <1>7
  <1>12. /\ tail \in Seq(Messages) /\ \A i \in DOMAIN tail : tail[i] = y
    <2>1. <<y>> \in Seq(Messages) /\ DOMAIN <<y>> = {1} /\ <<y>>[1] = y
      BY <1>9
    <2>2. <<>> \in Seq(Messages) /\ DOMAIN <<>> = {}
      OBVIOUS
    <2> QED
      BY <2>1, <2>2
  <1> HIDE DEF answers, one, tail
  <1> DEFINE body == one \o answers
  <1>13. /\ body \in Seq(Messages) /\ DOMAIN body = 1 .. (n + 1) /\ body[1] = x
         /\ \A k \in 1 .. n : body[1 + k] = Answer(calls[k])
         /\ \A i \in 1 .. (n + 1) : i = 1 \/ i - 1 \in 1 .. n
    <2>0. one \in Seq(Messages) /\ answers \in Seq(Messages) /\ Len(one) = 1 /\ Len(answers) = n
      BY <1>10, <1>11
    <2>3. /\ body \in Seq(Messages) /\ DOMAIN body = 1 .. (Len(one) + Len(answers))
          /\ \A i \in 1 .. Len(one) : body[i] = one[i]
          /\ \A i \in 1 .. Len(answers) : body[Len(one) + i] = answers[i]
      BY <2>0, JoinMessages
    <2> HIDE DEF body
    <2>1. DOMAIN body = 1 .. (1 + n) /\ body \in Seq(Messages) /\ body[1] = x
      BY <1>11, <2>0, <2>3
    <2>2. \A k \in 1 .. n : body[1 + k] = Answer(calls[k])
      BY <1>10, <2>0, <2>3
    <2> HIDE DEF body
    <2> QED
      BY <1>4, <2>1, <2>2
  <1> HIDE DEF body
  <1>14. \A i \in 1 .. (n + 1) : i = 1 \/ body[i] = Answer(calls[i - 1])
    <2> TAKE i \in 1 .. (n + 1)
    <2>1. i = 1 \/ (i - 1 \in 1 .. n /\ 1 + (i - 1) = i)
      BY <1>4
    <2> QED
      BY <1>13, <2>1
  <1>15. Paired(body)
    <2>1. ASSUME NEW i \in DOMAIN body, NEW k \in DOMAIN body[i].calls
          PROVE  i + k \in DOMAIN body /\ body[i + k].role = "tool" /\ body[i + k].of = body[i].calls[k]
      <3>1. i = 1
        <4>1. i # 1 => i - 1 \in 1 .. n /\ body[i].calls = <<>>
          BY <1>8, <1>13, <1>14
        <4> QED
          BY <4>1
      <3>2. k \in 1 .. n /\ body[i].calls[k] = calls[k]
        BY <1>6, <1>7, <1>13, <3>1
      <3>3. 1 + k \in 1 .. (n + 1)
        BY <1>4, <3>2
      <3> QED
        BY <1>8, <1>13, <3>1, <3>2, <3>3
    <2>2. ASSUME NEW i \in DOMAIN body, body[i].role = "tool"
          PROVE  \E p \in 1 .. (i - 1) : (i - p) \in DOMAIN body[p].calls /\ body[i].of = body[p].calls[i - p]
      <3>1. i # 1
        BY <1>7, <1>13, <2>2
      <3>2. i - 1 \in 1 .. n /\ body[i] = Answer(calls[i - 1]) /\ 1 \in 1 .. (i - 1)
        BY <1>4, <1>13, <1>14, <3>1
      <3>3. body[i].of = calls[i - 1] /\ body[1].calls = calls
        BY <1>7, <1>8, <1>13, <3>2
      <3> QED
        BY <1>6, <3>2, <3>3
    <2> QED
      BY <2>1, <2>2 DEF Paired
  <1>16. Paired(tail)
    BY <1>9, <1>12, PairedAlone
  <1>17. v \in Seq(Messages) /\ Paired(v)
    BY <1>12, <1>13, <1>15, <1>16, JoinIs, JoinPaired DEF body
  <1>18. \A i \in DOMAIN v : \/ i \in 1 .. (n + 1) /\ v[i] = body[i]
                             \/ v[i] = y
    <2> DEFINE l == Len(body)
    <2>1. l = n + 1
      BY <1>4, <1>13, LenProperties
    <2>2. /\ DOMAIN tail = 1 .. Len(tail) /\ Len(tail) \in Nat
          /\ DOMAIN v = 1 .. (l + Len(tail))
          /\ \A i \in 1 .. l : v[i] = body[i]
          /\ \A i \in 1 .. Len(tail) : v[l + i] = tail[i]
          /\ \A i \in 1 .. (l + Len(tail)) : i <= l \/ i - l \in 1 .. Len(tail)
      BY <1>12, <1>13, JoinIs DEF body
    <2> HIDE DEF v, l
    <2> TAKE i \in DOMAIN v
    <2>3. CASE i <= l
      BY <2>1, <2>2, <2>3
    <2>4. CASE i - l \in 1 .. Len(tail)
      <3>1. l + (i - l) = i
        BY <1>4, <2>1, <2>2
      <3> QED
        BY <1>12, <2>2, <2>4, <3>1
    <2> QED
      BY <2>2, <2>3, <2>4
  <1> HIDE DEF v
  <1>19. \A i \in DOMAIN v : \/ i = 1 /\ v[i] = x
                             \/ \E k \in 1 .. n : v[i] = Answer(calls[k])
                             \/ v[i] = y
    <2> TAKE i \in DOMAIN v
    <2>1. CASE v[i] = y
      BY <2>1
    <2>2. CASE i \in 1 .. (n + 1) /\ v[i] = body[i]
      <3>1. i = 1 \/ (i - 1 \in 1 .. n /\ body[i] = Answer(calls[i - 1]))
        BY <1>4, <1>13, <1>14, <2>2
      <3> QED
        BY <1>13, <2>2, <3>1
    <2> QED
      BY <1>18, <2>1, <2>2
  <1>20. \A i \in DOMAIN v : /\ Proper(v[i])
                             /\ v[i].kind \notin {"pruned", "superseded", "notice", "package"}
    BY <1>7, <1>8, <1>9, <1>19
  <1>21. ServerIds => \A i \in DOMAIN v : \A k \in DOMAIN v[i].calls :
                         v[i].calls[k].id = <<Len(history) + i - 1, k>>
    <2> SUFFICES ASSUME ServerIds, NEW i \in DOMAIN v, NEW k \in DOMAIN v[i].calls
                 PROVE  v[i].calls[k].id = <<Len(history) + i - 1, k>>
      OBVIOUS
    <2>1. i = 1 /\ v[i] = x
      <3>1. y.calls = <<>> /\ \A l \in 1 .. n : Answer(calls[l]).calls = <<>>
        BY <1>8, <1>9 DEF NoCalls
      <3> QED
        BY <1>19, <3>1
    <2>2. Len(history) \in Nat /\ Len(history) + i - 1 = Len(history)
      BY <2>1, LenProperties DEF IInv
    <2>3. k \in 1 .. n /\ v[i].calls[k].id = ids[k]
      BY <1>6, <1>7, <2>1
    <2> QED
      BY <1>5, <2>2, <2>3
  <1>22. \E j \in DOMAIN history : history[j].role = "user"
    BY InTurnHasUser DEF Round
  <1>23. UNCHANGED <<implement, active>>
    BY DEF Round
  <1> QED
    BY <1>3, <1>17, <1>20, <1>21, <1>22, <1>23, SayHolds DEF v
\* The messages a fresh history begins with.
Openers == {Message("user", "package"), Message("system", "ledger"),
            Message("user", "prompt"), Message("system", "summary")}

LEMMA OpenerIs ==
    ASSUME NEW m \in Openers
    PROVE  /\ m \in Messages /\ NoCalls(m) /\ Proper(m)
           /\ m.role \notin {"assistant", "tool"}
           /\ m.kind \notin {"pruned", "superseded", "notice", "note"}
           /\ m.kind = "package" => m = Message("user", "package")
  <1>1. PICK role \in {"user", "system"}, kind \in {"package", "ledger", "prompt", "summary"} :
           /\ m = Message(role, kind) /\ (role = "user") = (kind \in {"package", "prompt"})
    BY DEF Openers
  <1>2. /\ m \in Messages /\ NoCalls(m) /\ m.role = role /\ m.kind = kind /\ m.answers = Nobody
    <2>1. role \in {"system", "user", "assistant"} /\ kind \in Kinds
      BY DEF Kinds
    <2> QED
      BY <1>1, <2>1, MessageTyped
  <1> QED
    BY <1>1, <1>2 DEF Proper, NoCalls

LEMMA JoinOpeners ==
    ASSUME NEW u \in Seq(Openers), NEW v \in Seq(Openers)
    PROVE  /\ u \o v \in Seq(Openers) /\ DOMAIN (u \o v) = 1 .. (Len(u) + Len(v))
           /\ Len(u) \in Nat /\ DOMAIN u = 1 .. Len(u) /\ Len(v) \in Nat /\ DOMAIN v = 1 .. Len(v)
           /\ \A i \in 1 .. Len(u) : (u \o v)[i] = u[i]
           /\ \A i \in 1 .. Len(v) : (u \o v)[Len(u) + i] = v[i]
           /\ \A i \in 1 .. (Len(u) + Len(v)) : i <= Len(u) \/ i - Len(u) \in 1 .. Len(v)
  BY JoinIs

LEMMA SeedIs ==
    ASSUME NEW found \in BOOLEAN, NEW ledger \in BOOLEAN
    PROVE  /\ Seed(found, ledger) \in Seq(Openers)
           /\ \A i \in DOMAIN Seed(found, ledger) :
                 Seed(found, ledger)[i] = Message("user", "package") => i = 1
  <1> DEFINE p == Message("user", "package")
             l == Message("system", "ledger")
             u == IF found THEN <<p>> ELSE <<>>
             v == IF ledger THEN <<l>> ELSE <<>>
  <1>1. p \in Openers /\ l \in Openers
    BY DEF Openers
  <1>2. p # l
    BY MessageTyped DEF Kinds
  <1>3. Seed(found, ledger) = u \o v
    BY DEF Seed
  <1> HIDE DEF p, l
  <1>4. u \in Seq(Openers) /\ v \in Seq(Openers) /\ Len(u) \in {0, 1} /\ Len(v) \in {0, 1}
        /\ (Len(v) = 1 => v[1] = l)
    BY <1>1
  <1> HIDE DEF u, v
  <1>5. /\ u \o v \in Seq(Openers) /\ DOMAIN (u \o v) = 1 .. (Len(u) + Len(v))
        /\ \A i \in 1 .. Len(v) : (u \o v)[Len(u) + i] = v[i]
    BY <1>4, JoinIs
  <1>6. ASSUME NEW i \in DOMAIN (u \o v), i # 1
        PROVE  (u \o v)[i] = l
    <2>0. \A a, b \in {0, 1} : \A k \in 1 .. (a + b) : k = 1 \/ (a = 1 /\ b = 1 /\ k = 1 + 1)
      OBVIOUS
    <2>1. Len(u) = 1 /\ Len(v) = 1 /\ i = 1 + 1
      BY <1>4, <1>5, <1>6, <2>0
    <2>2. (u \o v)[Len(u) + 1] = v[1]
      BY <1>5, <2>1
    <2> QED
      BY <1>4, <2>1, <2>2
  <1> QED
    BY <1>2, <1>3, <1>5, <1>6 DEF p

LEMMA OpeningHolds ==
    ASSUME IInv, NEW v \in Seq(Openers), history' = v, implement' \in BOOLEAN, active' = active,
           \A i \in DOMAIN v : v[i] = Message("user", "package") =>
              implement' /\ \A j \in 1 .. (i - 1) : v[j].role # "user"
    PROVE  IInv'
  <1>1. \A i \in DOMAIN v : v[i] \in Openers
    BY ElementOfSeq, LenProperties
  <1>2. v \in Seq(Messages)
    <2>1. Openers \subseteq Messages
      BY OpenerIs
    <2> QED
      BY <2>1, SeqMonotonic
  <1>3. Begun(v)
    BY <1>1, OpenerIs DEF Begun
  <1>4. \A i \in DOMAIN v : /\ Proper(v[i]) /\ NoCalls(v[i])
                            /\ v[i].kind \notin {"pruned", "superseded", "notice"}
                            /\ v[i].kind = "package" => v[i] = Message("user", "package")
    BY <1>1, OpenerIs
  <1> QED
    BY <1>2, <1>3, <1>4, AnewHolds

LEMMA SeedTaskHolds ==
    ASSUME IInv, SeedTask
    PROVE  IInv'
  <1>1. PICK found \in BOOLEAN, ledger \in BOOLEAN :
           history' = Seed(found, ledger) \o <<Message("user", "prompt")>>
    BY DEF SeedTask
  <1> DEFINE s == Seed(found, ledger)
             p == Message("user", "package")
             one == <<Message("user", "prompt")>>
             v == s \o one
  <1>2. s \in Seq(Openers) /\ \A i \in DOMAIN s : s[i] = p => i = 1
    BY SeedIs
  <1>3. one \in Seq(Openers) /\ Len(one) = 1 /\ one[1] = Message("user", "prompt")
    BY DEF Openers
  <1>4. Message("user", "prompt") # p
    BY MessageTyped DEF Kinds
  <1> HIDE DEF s, p, one
  <1>5. /\ v \in Seq(Openers) /\ DOMAIN v = 1 .. (Len(s) + Len(one)) /\ Len(s) \in Nat /\ DOMAIN s = 1 .. Len(s)
        /\ \A i \in 1 .. Len(s) : v[i] = s[i]
        /\ \A i \in 1 .. Len(one) : v[Len(s) + i] = one[i]
        /\ \A i \in 1 .. (Len(s) + Len(one)) : i <= Len(s) \/ i - Len(s) \in 1 .. Len(one)
    BY <1>2, <1>3, JoinOpeners
  <1>6. history' = v
    BY <1>1 DEF s, one
  <1> HIDE DEF v
  <1>7. \A i \in DOMAIN v : v[i] = p => i = 1
    <2> TAKE i \in DOMAIN v
    <2>1. CASE i <= Len(s)
      BY <1>2, <1>5, <2>1
    <2>2. CASE i - Len(s) \in 1 .. Len(one)
      <3>1. i = Len(s) + 1 /\ 1 \in 1 .. Len(one)
        BY <1>3, <1>5, <2>2
      <3> QED
        BY <1>3, <1>4, <1>5, <3>1
    <2> QED
      BY <1>5, <2>1, <2>2
  <1>8. \A i \in DOMAIN v : v[i] = p => implement' /\ \A j \in 1 .. (i - 1) : v[j].role # "user"
    BY <1>7 DEF SeedTask
  <1> QED
    BY <1>5, <1>6, <1>8, OpeningHolds DEF SeedTask, p

LEMMA CompactHolds ==
    ASSUME IInv, Compact
    PROVE  IInv'
  <1>1. PICK found \in BOOLEAN, ledger \in BOOLEAN :
           history' = <<Message("system", "summary")>> \o (IF implement THEN Seed(found, ledger) ELSE <<>>)
    BY DEF Compact
  <1> DEFINE s == IF implement THEN Seed(found, ledger) ELSE <<>>
             p == Message("user", "package")
             m == Message("system", "summary")
             one == <<m>>
             v == one \o s
  <1>2. s \in Seq(Openers) /\ \A i \in DOMAIN s : s[i] = p => i = 1 /\ implement
    BY SeedIs
  <1>3. m # p /\ m.role = "system" /\ m \in Openers
    BY MessageTyped DEF Kinds, Openers
  <1>4. one \in Seq(Openers) /\ Len(one) = 1 /\ one[1] = m
    BY <1>3
  <1> HIDE DEF s, p, one, m
  <1>5. /\ v \in Seq(Openers) /\ DOMAIN v = 1 .. (Len(one) + Len(s)) /\ Len(s) \in Nat /\ DOMAIN s = 1 .. Len(s)
        /\ \A i \in 1 .. Len(one) : v[i] = one[i]
        /\ \A i \in 1 .. Len(s) : v[Len(one) + i] = s[i]
        /\ \A i \in 1 .. (Len(one) + Len(s)) : i <= Len(one) \/ i - Len(one) \in 1 .. Len(s)
    BY <1>2, <1>4, JoinOpeners
  <1>6. history' = v
    BY <1>1 DEF s, one, m
  <1> HIDE DEF v
  <1>7. v[1] = m
    BY <1>4, <1>5
  <1>8. \A i \in DOMAIN v : v[i] = p => i = 2 /\ implement
    <2> TAKE i \in DOMAIN v
    <2>1. CASE i <= Len(one)
      BY <1>3, <1>4, <1>5, <1>7, <2>1
    <2>2. CASE i - Len(one) \in 1 .. Len(s)
      <3>1. i = Len(one) + (i - Len(one))
        BY <1>4, <1>5
      <3>2. v[i] = s[i - Len(one)]
        BY <1>5, <2>2, <3>1
      <3> QED
        BY <1>2, <1>4, <1>5, <2>2, <3>2
    <2> QED
      BY <1>5, <2>1, <2>2
  <1>9. implement' = implement /\ active' = active /\ implement \in BOOLEAN
    BY DEF Compact, IInv
  <1>10. \A i \in DOMAIN v : v[i] = p => implement' /\ \A j \in 1 .. (i - 1) : v[j].role # "user"
    BY <1>3, <1>7, <1>8, <1>9
  <1> QED
    BY <1>5, <1>6, <1>9, <1>10, OpeningHolds DEF p

\* The histories are in order, whatever was said, compacted and cleared.
THEOREM HistoryInOrder == RequestsSpec => []IInv
  <1>1. RequestsInit => IInv
    <2> SUFFICES ASSUME RequestsInit PROVE IInv
      OBVIOUS
    <2>1. history = <<>> /\ history \in Seq(Messages) /\ DOMAIN history = {}
      BY DEF RequestsInit
    <2>2. implement \in BOOLEAN /\ active \in BOOLEAN
      BY DEF RequestsInit
    <2> QED
      BY <2>1, <2>2 DEF IInv, Paired, Begun, Placed
  <1>2. IInv /\ [RequestsNext]_requestVars => IInv'
    <2> SUFFICES ASSUME IInv, [RequestsNext]_requestVars PROVE IInv'
      OBVIOUS
    <2>1. CASE ClearHistory
      <3>1. <<>> \in Seq(Openers) /\ DOMAIN <<>> = {}
        OBVIOUS
      <3> QED
        BY <2>1, <3>1, OpeningHolds DEF ClearHistory
    <2>2. CASE ToggleActive
      BY <2>2 DEF ToggleActive, IInv
    <2>3. CASE UNCHANGED requestVars
      BY <2>3 DEF requestVars, IInv
    <2> QED
      BY <2>1, <2>2, <2>3, PromptHolds, RoundHolds, SettleHolds, SeedTaskHolds, CompactHolds
         DEF RequestsNext
  <1> QED
    BY <1>1, <1>2, PTL DEF RequestsSpec
-----------------------------------------------------------------------------
(* Positions in their order.                                                 *)

Rank(S, i) == Cardinality({j \in S : j <= i})

LEMMA RanksDiffer ==
    ASSUME NEW n \in Nat, NEW S \in SUBSET (1 .. n), NEW x \in S, NEW y \in S, x < y
    PROVE  Rank(S, x) < Rank(S, y)
  <1> DEFINE X == {j \in S : j <= x}
             Y == {j \in S : j <= y}
  <1>1. IsFiniteSet(S)
    <2>1. IsFiniteSet(1 .. n)
      BY FS_Interval
    <2> QED
      BY <2>1, FS_Subset
  <1>2. IsFiniteSet(X) /\ IsFiniteSet(Y)
    BY <1>1, FS_Subset
  <1>3. X \in SUBSET Y /\ y \in Y /\ y \notin X
    <2>1. \A j \in S : j \in 1 .. n
      OBVIOUS
    <2>2. x \in Nat /\ y \in Nat /\ \A j \in S : j \in Nat
      BY <2>1
    <2>3. \A j \in S : j <= x => j <= y
      BY <2>2
    <2>4. y <= y /\ ~(y <= x)
      BY <2>2
    <2> QED
      BY <2>3, <2>4
  <1>4. Cardinality(X) \in Nat /\ Cardinality(Y) \in Nat
    BY <1>2, FS_CardinalityType
  <1> HIDE DEF X, Y
  <1>5. Cardinality(X) <= Cardinality(Y) /\ Cardinality(X) # Cardinality(Y)
    BY <1>2, <1>3, FS_Subset
  <1> QED
    BY <1>4, <1>5 DEF X, Y, Rank

LEMMA RanksOrder ==
    ASSUME NEW n \in Nat, NEW S \in SUBSET (1 .. n)
    PROVE  \A x, y \in S : \A k, l \in Nat :
              Rank(S, x) = k /\ Rank(S, y) = l => (k = l => x = y) /\ (k < l => x < y)
  <1> SUFFICES ASSUME NEW x \in S, NEW y \in S, NEW k \in Nat, NEW l \in Nat, Rank(S, x) = k, Rank(S, y) = l
               PROVE  (k = l => x = y) /\ (k < l => x < y)
    OBVIOUS
  <1>1. x \in 1 .. n /\ y \in 1 .. n
    OBVIOUS
  <1>2. (x < y => k < l) /\ (y < x => l < k)
    BY RanksDiffer
  <1> QED
    BY <1>1, <1>2

LEMMA InOrderIs ==
    ASSUME NEW n \in Nat, NEW S \in SUBSET (1 .. n)
    PROVE  /\ Cardinality(S) \in Nat /\ IsFiniteSet(S)
           /\ InOrder(S) \in [1 .. Cardinality(S) -> S] /\ Len(InOrder(S)) = Cardinality(S)
           /\ \A k \in 1 .. Cardinality(S) : Rank(S, InOrder(S)[k]) = k
           /\ \A k, l \in 1 .. Cardinality(S) : k < l => InOrder(S)[k] < InOrder(S)[l]
           /\ \A i \in S : \E k \in 1 .. Cardinality(S) : InOrder(S)[k] = i
  <1> DEFINE s == InOrder(S)
             m == Cardinality(S)
  <1>1. IsFiniteSet(S)
    <2>1. IsFiniteSet(1 .. n)
      BY FS_Interval
    <2> QED
      BY <2>1, FS_Subset
  <1>2. m \in Nat
    BY <1>1, FS_CardinalityType
  <1>3. \A k \in 1 .. m : \E i \in S : Rank(S, i) = k
    BY EveryRank DEF Rank
  <1>4. s = [k \in 1 .. m |-> CHOOSE i \in S : Rank(S, i) = k]
    BY DEF InOrder, Rank
  <1> HIDE DEF s, m
  <1>5. \A k \in 1 .. m : s[k] \in S /\ Rank(S, s[k]) = k
    <2> QED
      BY <1>3, <1>4
  <1>6. s \in [1 .. m -> S]
    BY <1>4, <1>5
  <1>7. Len(s) = m
    BY <1>2, <1>6, LenProperties
  <1>8. \A i \in S : i \in Nat
    OBVIOUS
  <1>9. \A x, y \in S : \A k, l \in Nat :
           Rank(S, x) = k /\ Rank(S, y) = l => (k = l => x = y) /\ (k < l => x < y)
    BY RanksOrder, ZenonT(60)
  <1>10. \A k, l \in 1 .. m : k < l => s[k] < s[l]
    <2> SUFFICES ASSUME NEW k \in 1 .. m, NEW l \in 1 .. m, k < l PROVE s[k] < s[l]
      OBVIOUS
    <2>1. s[k] \in S /\ s[l] \in S /\ Rank(S, s[k]) = k /\ Rank(S, s[l]) = l
      BY <1>5
    <2>2. k \in Nat /\ l \in Nat
      BY <1>2
    <2> QED
      BY <1>9, <2>1, <2>2
  <1>11. \A i \in S : \E k \in 1 .. m : s[k] = i
    <2> TAKE i \in S
    <2>1. Rank(S, i) \in 1 .. m
      <3> DEFINE T == {j \in S : j <= i}
      <3>1. T \in SUBSET S /\ i \in T
        BY <1>8
      <3>2. IsFiniteSet(T) /\ Cardinality(T) <= m
        BY <1>1, <3>1, FS_Subset DEF m
      <3>3. Cardinality(T) \in Nat /\ Cardinality(T) # 0
        <4> HIDE DEF T
        <4> QED BY <3>1, <3>2, FS_CardinalityType, FS_EmptySet
      <3> HIDE DEF T
      <3>4. Cardinality(T) \in 1 .. m
        BY <1>2, <3>2, <3>3
      <3> QED
        BY <3>4 DEF T, Rank
    <2>2. PICK k \in 1 .. m : k = Rank(S, i)
      BY <2>1
    <2>3. s[k] \in S /\ Rank(S, s[k]) = k /\ k \in Nat
      BY <1>2, <1>5
    <2>4. s[k] = i
      BY <1>9, <2>2, <2>3
    <2> QED
      BY <2>4
  <1> QED
    BY <1>1, <1>2, <1>5, <1>6, <1>7, <1>10, <1>11 DEF s, m

\* Further on, they are in the same order.
LEMMA InOrderShifted ==
    ASSUME NEW n \in Nat, NEW S \in SUBSET (1 .. n), NEW d \in Nat
    PROVE  LET T == {i + d : i \in S}
           IN  /\ Cardinality(T) = Cardinality(S)
               /\ \A k \in 1 .. Cardinality(S) : InOrder(T)[k] = InOrder(S)[k] + d
  <1> DEFINE T == {i + d : i \in S}
  <1>1. IsFiniteSet(S) /\ \A i \in S : i \in Nat /\ 1 <= i /\ i <= n
    <2>1. \A i \in S : i \in 1 .. n
      OBVIOUS
    <2>2. IsFiniteSet(S)
      BY InOrderIs
    <2> QED
      BY <2>1, <2>2
  <1>2. ASSUME NEW U \in SUBSET S
        PROVE  Cardinality({i + d : i \in U}) = Cardinality(U)
    <2> DEFINE f == [i \in U |-> i + d]
               V == {i + d : i \in U}
    <2>1. f \in Bijection(U, V)
      <3>1. f \in [U -> V] /\ \A y \in V : \E x \in U : f[x] = y
        OBVIOUS
      <3>2. \A x, y \in U : f[x] = f[y] => x = y
        BY <1>1
      <3> HIDE DEF f, V
      <3> QED
        BY <3>1, <3>2 DEF Bijection, Injection, Surjection, IsInjective
    <2>2. IsFiniteSet(U)
      BY <1>1, FS_Subset
    <2> HIDE DEF f, V
    <2>3. Cardinality(V) = Cardinality(U)
      BY <2>1, <2>2, FS_Bijection DEF ExistsBijection
    <2> QED
      BY <2>3 DEF V
  <1>3. Cardinality(T) = Cardinality(S)
    BY <1>2
  <1>4. T \in SUBSET (1 .. (n + d))
    BY <1>1
  <1> DEFINE s == InOrder(S)
             t == InOrder(T)
             m == Cardinality(S)
  <1>5. /\ m \in Nat /\ s \in [1 .. m -> S]
        /\ \A k \in 1 .. m : Rank(S, s[k]) = k
    BY InOrderIs
  <1>6. /\ t \in [1 .. m -> T]
        /\ \A k \in 1 .. m : Rank(T, t[k]) = k
    <2>0. n + d \in Nat
      OBVIOUS
    <2> HIDE DEF T
    <2> QED
      BY <1>3, <1>4, <2>0, InOrderIs
  <1>8. \A x, y \in T : \A k, l \in Nat :
           Rank(T, x) = k /\ Rank(T, y) = l => (k = l => x = y) /\ (k < l => x < y)
    <2>0. n + d \in Nat
      OBVIOUS
    <2> HIDE DEF T
    <2> QED
      BY <1>4, <2>0, RanksOrder, ZenonT(60)
  <1>7. ASSUME NEW k \in 1 .. m
        PROVE  t[k] = s[k] + d
    <2> DEFINE x == s[k]
               U == {j \in S : j <= x}
    <2>1. x \in S /\ Cardinality(U) = k /\ x \in Nat
      BY <1>1, <1>5 DEF Rank
    <2>2. {j \in T : j <= x + d} = {i + d : i \in U}
      <3> HIDE DEF x
      <3>1. \A i \in S : i + d <= x + d <=> i <= x
        BY <1>1, <2>1
      <3> QED
        BY <3>1
    <2>3. Cardinality({i + d : i \in U}) = k
      <3>1. U \in SUBSET S
        OBVIOUS
      <3> HIDE DEF U
      <3> QED
        BY <1>2, <2>1, <3>1
    <2>4. x + d \in T /\ t[k] \in T /\ Rank(T, t[k]) = k
      BY <1>6, <2>1
    <2>5. k \in Nat /\ n + d \in Nat /\ Rank(T, x + d) = k
      <3> HIDE DEF x, T, U
      <3> QED
        BY <1>5, <2>2, <2>3 DEF Rank
    <2> DEFINE y == x + d
    <2> HIDE DEF T, U, t, x, y
    <2>6. Rank(T, y) = k /\ y \in T
      BY <2>4, <2>5 DEF y
    <2>7. t[k] = y
      BY <1>8, <2>4, <2>5, <2>6
    <2> QED
      BY <2>7 DEF x, y
  <1> QED
    BY <1>3, <1>7
-----------------------------------------------------------------------------
(* Messages as they may be sent: calls and results in pairs, and no call that *)
(* was not made.                                                              *)

Said(call) == \E i \in DOMAIN history : \E k \in DOMAIN history[i].calls : call = history[i].calls[k]

Sent(ms) ==
    /\ ms \in Seq(Messages)
    /\ \A i \in DOMAIN ms : Proper(ms[i])
    /\ Paired(ms) /\ Begun(ms)
    /\ \A i \in DOMAIN ms : \A k \in DOMAIN ms[i].calls : Said(ms[i].calls[k])

\* u is v but for some results that are stubs.
Stubs(u, v) ==
    /\ u \in Seq(Messages) /\ v \in Seq(Messages) /\ DOMAIN u = DOMAIN v /\ Len(u) = Len(v)
    /\ \A i \in DOMAIN v :
          /\ u[i].role = v[i].role /\ u[i].calls = v[i].calls
          /\ u[i].answers = v[i].answers /\ u[i].of = v[i].of
          /\ u[i] = v[i] \/ (v[i].role = "tool" /\ u[i].kind \in {"pruned", "superseded"})

LEMMA StubsSent ==
    ASSUME NEW u, NEW v, Stubs(u, v), Sent(v)
    PROVE  Sent(u)
  <1>1. \A i \in DOMAIN u : Proper(u[i])
    <2> TAKE i \in DOMAIN u
    <2>1. /\ Proper(v[i]) /\ u[i].role = v[i].role /\ u[i].calls = v[i].calls
          /\ u[i].answers = v[i].answers /\ u[i].of = v[i].of
          /\ u[i] = v[i] \/ (v[i].role = "tool" /\ u[i].kind \in {"pruned", "superseded"})
      BY DEF Stubs, Sent
    <2> QED
      BY <2>1 DEF Proper
  <1>2. DOMAIN u = DOMAIN v /\ \A i \in DOMAIN v : /\ u[i].role = v[i].role /\ u[i].calls = v[i].calls
                                                   /\ u[i].of = v[i].of /\ (u[i].kind = "note" => v[i].kind = "note")
    <2>1. \A i \in DOMAIN v : u[i] = v[i] \/ u[i].kind \in {"pruned", "superseded"}
      BY DEF Stubs
    <2> QED
      BY <2>1 DEF Stubs
  <1>3. Paired(u)
    <2>1. ASSUME NEW i \in DOMAIN u, NEW k \in DOMAIN u[i].calls
          PROVE  i + k \in DOMAIN u /\ u[i + k].role = "tool" /\ u[i + k].of = u[i].calls[k]
      <3>1. i + k \in DOMAIN v /\ v[i + k].role = "tool" /\ v[i + k].of = v[i].calls[k]
        BY <1>2 DEF Sent, Paired
      <3> QED
        BY <1>2, <3>1
    <2>2. ASSUME NEW i \in DOMAIN u, u[i].role = "tool"
          PROVE  \E p \in 1 .. (i - 1) : (i - p) \in DOMAIN u[p].calls /\ u[i].of = u[p].calls[i - p]
      <3>1. PICK p \in 1 .. (i - 1) : (i - p) \in DOMAIN v[p].calls /\ v[i].of = v[p].calls[i - p]
        BY <1>2, <2>2 DEF Sent, Paired
      <3>2. p \in DOMAIN v
        <4>1. DOMAIN v = 1 .. Len(v) /\ Len(v) \in Nat
          BY LenProperties DEF Sent
        <4> QED
          BY <1>2, <4>1
      <3> QED
        BY <1>2, <3>1, <3>2
    <2> QED
      BY <2>1, <2>2 DEF Paired
  <1>4. Begun(u)
    <2> SUFFICES ASSUME NEW i \in DOMAIN u, u[i].role \in {"assistant", "tool"} \/ u[i].kind = "note"
                 PROVE  \E j \in 1 .. (i - 1) : u[j].role = "user"
      BY DEF Begun
    <2>1. PICK j \in 1 .. (i - 1) : v[j].role = "user"
      BY <1>2 DEF Sent, Begun
    <2>2. j \in DOMAIN v
      <3>1. DOMAIN v = 1 .. Len(v) /\ Len(v) \in Nat
        BY LenProperties DEF Sent
      <3> QED
        BY <1>2, <3>1
    <2> QED
      BY <1>2, <2>1, <2>2
  <1>5. \A i \in DOMAIN u : \A k \in DOMAIN u[i].calls : Said(u[i].calls[k])
    BY <1>2 DEF Sent
  <1>6. u \in Seq(Messages)
    BY DEF Stubs
  <1> QED
    BY <1>1, <1>3, <1>4, <1>5, <1>6 DEF Sent

LEMMA StubsOfStubs ==
    ASSUME NEW u, NEW v, NEW w, Stubs(u, v), Stubs(v, w)
    PROVE  Stubs(u, w)
  <1>1. \A i \in DOMAIN w : u[i] = w[i] \/ (w[i].role = "tool" /\ u[i].kind \in {"pruned", "superseded"})
    <2> TAKE i \in DOMAIN w
    <2>1. /\ u[i] = v[i] \/ (v[i].role = "tool" /\ u[i].kind \in {"pruned", "superseded"})
          /\ v[i] = w[i] \/ (w[i].role = "tool" /\ v[i].kind \in {"pruned", "superseded"})
          /\ v[i].role = w[i].role
      BY DEF Stubs
    <2> QED
      BY <2>1
  <1> QED
    BY <1>1 DEF Stubs

LEMMA StubsSelf ==
    ASSUME NEW u \in Seq(Messages)
    PROVE  Stubs(u, u)
  BY DEF Stubs

LEMMA StubbedIs ==
    ASSUME NEW ms \in Seq(Messages), NEW at, NEW kind \in {"pruned", "superseded"},
           \A i \in DOMAIN ms : i \in at => ms[i].role = "tool"
    PROVE  /\ Stubs(Stubbed(ms, at, kind), ms)
           /\ \A i \in DOMAIN ms : /\ i \in at => Stubbed(ms, at, kind)[i].kind = kind
                                   /\ i \notin at => Stubbed(ms, at, kind)[i] = ms[i]
  <1> DEFINE u == Stubbed(ms, at, kind)
  <1>1. \A i \in DOMAIN ms : ms[i] \in Messages
    BY ElementOfSeq, LenProperties
  <1>2. \A i \in DOMAIN ms : [ms[i] EXCEPT !.kind = kind] \in Messages
    <2> TAKE i \in DOMAIN ms
    <2>1. ms[i] \in Messages
      BY <1>1
    <2>2. kind \in Kinds
      BY DEF Kinds
    <2> QED
      BY <2>1, <2>2 DEF Messages
  <1>3. u = [i \in DOMAIN ms |-> IF i \in at THEN [ms[i] EXCEPT !.kind = kind] ELSE ms[i]]
    BY DEF Stubbed
  <1>4. DOMAIN ms = 1 .. Len(ms) /\ Len(ms) \in Nat
    BY LenProperties
  <1>5. u \in [1 .. Len(ms) -> Messages]
    BY <1>1, <1>2, <1>3, <1>4
  <1>6. u \in Seq(Messages) /\ Len(u) = Len(ms) /\ DOMAIN u = DOMAIN ms
    BY <1>4, <1>5, LenProperties
  <1>7. \A i \in DOMAIN ms : /\ i \in at => u[i] = [ms[i] EXCEPT !.kind = kind]
                             /\ i \notin at => u[i] = ms[i]
    BY <1>3
  <1> HIDE DEF u
  <1>8. ASSUME NEW i \in DOMAIN ms
        PROVE  /\ u[i].role = ms[i].role /\ u[i].calls = ms[i].calls
               /\ u[i].answers = ms[i].answers /\ u[i].of = ms[i].of
               /\ i \in at => u[i].kind = kind
    <2>1. CASE i \in at
      BY <1>1, <1>7, <2>1 DEF Messages
    <2>2. CASE i \notin at
      BY <1>7, <2>2
    <2> QED
      BY <2>1, <2>2
  <1>9. Stubs(u, ms)
    BY <1>6, <1>7, <1>8 DEF Stubs
  <1> QED
    BY <1>7, <1>8, <1>9 DEF u

LEMMA PinnedIs ==
    /\ Pinned \in Seq(Messages) /\ Len(Pinned) \in 1 .. 2 /\ DOMAIN Pinned = 1 .. Len(Pinned)
    /\ \A i \in DOMAIN Pinned : /\ NoCalls(Pinned[i]) /\ Proper(Pinned[i]) /\ Pinned[i].role = "system"
                                /\ Pinned[i].kind \in {"system", "task"}
  <1> DEFINE x == Message("system", "system")
             y == Message("system", "task")
  <1>1. x \in Messages /\ NoCalls(x) /\ x.role = "system" /\ x.kind = "system" /\ x.answers = Nobody
    BY MessageTyped DEF Kinds
  <1>2. y \in Messages /\ NoCalls(y) /\ y.role = "system" /\ y.kind = "task" /\ y.answers = Nobody
    BY MessageTyped DEF Kinds
  <1>3. Pinned = <<x>> \o (IF active THEN <<y>> ELSE <<>>)
    BY DEF Pinned
  <1> HIDE DEF x, y
  <1>4. Proper(x) /\ Proper(y)
    BY <1>1, <1>2 DEF Proper, NoCalls
  <1> DEFINE both == IF active THEN TRUE ELSE FALSE
             v == <<x>> \o (IF both THEN <<y>> ELSE <<>>)
  <1>5. Pinned = v /\ both \in BOOLEAN
    BY <1>3
  <1> HIDE DEF both
  <1>6. /\ v \in Seq(Messages) /\ v[1] = x /\ 1 \in DOMAIN v
        /\ Len(v) = (IF both THEN 2 ELSE 1)
        /\ \A i \in DOMAIN v : i \in Nat /\ (i = 1 \/ (both /\ i = 2 /\ v[i] = y))
    BY <1>1, <1>2, <1>5, Couple
  <1> HIDE DEF v
  <1>7. \A i \in DOMAIN v : v[i] \in {x, y}
    BY <1>6
  <1>8. DOMAIN v = 1 .. Len(v) /\ (Len(v) = 1 \/ Len(v) = 2)
    <2>1. v \in Seq(Messages)
      BY <1>6
    <2>2. Len(v) = 1 \/ Len(v) = 2
      BY <1>6
    <2> QED
      BY <2>1, <2>2, LenProperties
  <1>9. Len(v) \in 1 .. 2
    BY <1>8
  <1> QED
    BY <1>1, <1>2, <1>4, <1>5, <1>6, <1>7, <1>8, <1>9

\* All there is to be sent.
Everything == Pinned \o history

LEMMA EverythingIs ==
    ASSUME IInv
    PROVE  /\ Sent(Everything)
           /\ Len(Everything) = Len(Pinned) + Len(history) /\ Len(history) \in Nat
           /\ DOMAIN Everything = 1 .. Len(Everything) /\ DOMAIN history = 1 .. Len(history)
           /\ \A i \in 1 .. Len(Pinned) : Everything[i] = Pinned[i]
           /\ \A i \in 1 .. Len(history) : Everything[Len(Pinned) + i] = history[i]
           /\ \A i \in DOMAIN Everything :
                 /\ Everything[i].kind \notin {"pruned", "superseded", "notice"}
                 /\ i > Len(Pinned) => i - Len(Pinned) \in DOMAIN history
                                       /\ Everything[i] = history[i - Len(Pinned)]
                 /\ i <= Len(Pinned) + 1 => NoCalls(Everything[i])
  <1> DEFINE a == Everything
             p == Len(Pinned)
             n == Len(history)
  <1>1. /\ Pinned \in Seq(Messages) /\ p \in 1 .. 2 /\ DOMAIN Pinned = 1 .. p
        /\ \A i \in DOMAIN Pinned : /\ NoCalls(Pinned[i]) /\ Proper(Pinned[i]) /\ Pinned[i].role = "system"
                                    /\ Pinned[i].kind \in {"system", "task"}
    BY PinnedIs
  <1>2. /\ history \in Seq(Messages) /\ Paired(history) /\ Begun(history)
        /\ \A i \in DOMAIN history : Proper(history[i]) /\ history[i].kind \notin {"pruned", "superseded", "notice"}
    BY DEF IInv
  <1>3. /\ a \in Seq(Messages) /\ Len(a) = p + n /\ n \in Nat /\ DOMAIN a = 1 .. (p + n) /\ DOMAIN history = 1 .. n
        /\ \A i \in 1 .. p : a[i] = Pinned[i]
        /\ \A i \in 1 .. n : a[p + i] = history[i]
        /\ \A i \in 1 .. (p + n) : i <= p \/ i - p \in 1 .. n
    BY <1>1, <1>2, JoinIs DEF Everything
  <1>4. Paired(a)
    <2>1. Paired(Pinned)
      BY <1>1, PairedAlone
    <2> QED
      BY <1>1, <1>2, <2>1, JoinPaired DEF Everything
  <1>5. Begun(a)
    <2>1. Begun(Pinned)
      BY <1>1 DEF Begun
    <2> QED
      BY <1>1, <1>2, <2>1, JoinBegun DEF Everything
  <1> HIDE DEF a, p, n
  <1>6. \A i \in DOMAIN a : \/ i \in 1 .. p /\ a[i] = Pinned[i]
                            \/ i > p /\ i - p \in 1 .. n /\ a[i] = history[i - p]
    <2> TAKE i \in DOMAIN a
    <2>1. CASE i <= p
      BY <1>3, <2>1
    <2>2. CASE i - p \in 1 .. n
      <3>1. p + (i - p) = i /\ i > p
        BY <1>1, <1>3, <2>2
      <3> QED
        BY <1>3, <2>2, <3>1
    <2> QED
      BY <1>3, <2>1, <2>2
  <1>7. \A i \in DOMAIN a : Proper(a[i]) /\ a[i].kind \notin {"pruned", "superseded", "notice"}
    BY <1>1, <1>2, <1>3, <1>6
  <1>8. \A i \in DOMAIN a : \A k \in DOMAIN a[i].calls : Said(a[i].calls[k])
    <2> SUFFICES ASSUME NEW i \in DOMAIN a, NEW k \in DOMAIN a[i].calls PROVE Said(a[i].calls[k])
      OBVIOUS
    <2>1. CASE i \in 1 .. p /\ a[i] = Pinned[i]
      <3>1. DOMAIN a[i].calls = {}
        BY <1>1, <2>1 DEF NoCalls
      <3> QED
        BY <3>1
    <2>2. CASE i - p \in 1 .. n /\ a[i] = history[i - p]
      BY <1>3, <2>2 DEF Said
    <2> QED
      BY <1>6, <2>1, <2>2
  <1>9. \A i \in DOMAIN a : i <= p + 1 => NoCalls(a[i])
    <2> SUFFICES ASSUME NEW i \in DOMAIN a, i <= p + 1 PROVE NoCalls(a[i])
      OBVIOUS
    <2>1. CASE i \in 1 .. p /\ a[i] = Pinned[i]
      BY <1>1, <2>1
    <2>2. CASE i > p /\ i - p \in 1 .. n /\ a[i] = history[i - p]
      <3>1. i - p = 1
        BY <1>1, <1>3, <2>2
      <3>2. history[1].role \notin {"assistant", "tool"}
        BY <1>2, <1>3, <2>2, <3>1 DEF Begun
      <3>3. Proper(history[1])
        BY <1>2, <1>3, <2>2, <3>1
      <3> QED
        BY <2>2, <3>1, <3>2, <3>3 DEF NoCalls, Proper
    <2> QED
      BY <1>6, <2>1, <2>2
  <1> QED
    BY <1>3, <1>4, <1>5, <1>6, <1>7, <1>8, <1>9 DEF Sent, a, p, n

-----------------------------------------------------------------------------
(* Pruning.                                                                  *)

\* The first messages neither call nor answer.
Quiet(ms, first) == first \in 0 .. Len(ms) /\ \A i \in 1 .. first : NoCalls(ms[i])

LEMMA QuietStubs ==
    ASSUME NEW u, NEW v, NEW first, Stubs(u, v), Quiet(v, first)
    PROVE  Quiet(u, first)
  <1>1. DOMAIN v = 1 .. Len(v) /\ Len(v) \in Nat /\ Len(u) = Len(v)
    BY LenProperties DEF Stubs
  <1>2. \A i \in DOMAIN v : u[i].calls = v[i].calls /\ u[i].role = v[i].role
    BY DEF Stubs
  <1> QED
    BY <1>1, <1>2 DEF Quiet, NoCalls

LEMMA CoalesceIs ==
    ASSUME NEW ms \in Seq(Messages), NEW first \in Nat
    PROVE  LET later(i) == \E j \in (first + 1) .. Len(ms) :
                              j > i /\ Signature(ms, ms[j]) = Signature(ms, ms[i])
               u == Coalesce(ms, first)
           IN  /\ Stubs(u, ms)
               /\ \A i \in DOMAIN ms :
                     \/ /\ i > first /\ Signature(ms, ms[i]) # Nobody /\ later(i)
                        /\ ms[i].role = "tool" /\ u[i].kind = "superseded"
                     \/ /\ u[i] = ms[i]
                        /\ ~(i > first /\ Signature(ms, ms[i]) # Nobody /\ later(i))
  <1> DEFINE later(i) == \E j \in (first + 1) .. Len(ms) :
                              j > i /\ Signature(ms, ms[j]) = Signature(ms, ms[i])
             past == (first + 1) .. Len(ms)
             sig(i) == Signature(ms, ms[i])
             signed == Signed(ms, first)
             at == {r.at : r \in {r \in signed : \E o \in signed : o.of = r.of /\ o.at > r.at}}
             u == Coalesce(ms, first)
  <1>1. signed = {r \in {[at |-> i, of |-> sig(i)] : i \in past} : r.of # Nobody}
    BY DEF Signed
  <1>2. u = Stubbed(ms, at, "superseded")
    BY DEF Coalesce
  <1>3. \A i : sig(i) # Nobody => ms[i].role = "tool"
    BY DEF Signature
  <1>4. DOMAIN ms = 1 .. Len(ms) /\ Len(ms) \in Nat
    BY LenProperties
  <1> HIDE DEF sig, u
  <1>5. \A r : r \in signed <=> \E i \in past : r = [at |-> i, of |-> sig(i)] /\ sig(i) # Nobody
    <2> HIDE DEF past, signed
    <2> QED BY <1>1
  <1>6. \A i : i \in at <=> \E r, o \in signed : r.at = i /\ o.of = r.of /\ o.at > r.at
    <2> HIDE DEF signed
    <2> QED OBVIOUS
  <1> HIDE DEF at, signed
  <1>7. \A i : i \in at <=> i \in past /\ sig(i) # Nobody /\ \E j \in past : j > i /\ sig(j) = sig(i)
    <2> TAKE i
    <2>1. ASSUME i \in at
          PROVE  i \in past /\ sig(i) # Nobody /\ \E j \in past : j > i /\ sig(j) = sig(i)
      <3>1. PICK r \in signed, o \in signed : r.at = i /\ o.of = r.of /\ o.at > r.at
        BY <1>6, <2>1
      <3>2. PICK x \in past : r = [at |-> x, of |-> sig(x)] /\ sig(x) # Nobody
        BY <1>5
      <3>3. PICK y \in past : o = [at |-> y, of |-> sig(y)] /\ sig(y) # Nobody
        BY <1>5
      <3>4. x = i /\ o.at = y /\ o.of = sig(y) /\ r.of = sig(x)
        BY <3>1, <3>2, <3>3
      <3> HIDE DEF past
      <3> QED
        BY <3>1, <3>2, <3>4
    <2>2. ASSUME i \in past, sig(i) # Nobody, NEW j \in past, j > i, sig(j) = sig(i)
          PROVE  i \in at
      <3> DEFINE r == [at |-> i, of |-> sig(i)]
                 o == [at |-> j, of |-> sig(j)]
      <3>1. r \in signed /\ o \in signed
        BY <1>5, <2>2
      <3>2. r.at = i /\ o.of = r.of /\ o.at > r.at
        BY <2>2
      <3> HIDE DEF r, o
      <3> QED
        BY <1>6, <3>1, <3>2
    <2> QED
      BY <2>1, <2>2
  <1>8. \A i \in DOMAIN ms : i \in at => ms[i].role = "tool"
    BY <1>3, <1>7
  <1>9. /\ Stubs(u, ms)
        /\ \A i \in DOMAIN ms : (i \in at => u[i].kind = "superseded") /\ (i \notin at => u[i] = ms[i])
    BY <1>2, <1>8, StubbedIs
  <1>10. \A i \in DOMAIN ms : (i \in past) = (i > first)
    BY <1>4
  <1>11. \A i \in DOMAIN ms : i \in at <=> i > first /\ sig(i) # Nobody /\ later(i)
    BY <1>7, <1>10 DEF sig
  <1> HIDE DEF later
  <1>12. \A i \in DOMAIN ms :
            \/ i > first /\ sig(i) # Nobody /\ later(i) /\ ms[i].role = "tool" /\ u[i].kind = "superseded"
            \/ u[i] = ms[i] /\ ~(i > first /\ sig(i) # Nobody /\ later(i))
    BY <1>8, <1>9, <1>11
  <1> QED
    BY <1>9, <1>12 DEF u, sig, later

LEMMA StubOldIs ==
    ASSUME NEW ms \in Seq(Messages), NEW prefix, NEW first
    PROVE  LET starts == TurnStarts(ms, prefix)
               recent == IF Len(starts) <= RecentTurns THEN 0 ELSE starts[Len(starts) - RecentTurns + 1]
               u == StubOld(ms, prefix, first)
           IN  /\ Stubs(u, ms)
               /\ \A i \in DOMAIN ms :
                     \/ first < i /\ i < recent /\ ms[i].role = "tool" /\ u[i].kind = "pruned"
                     \/ u[i] = ms[i] /\ ~(first < i /\ i < recent /\ ms[i].role = "tool")
  <1> DEFINE starts == TurnStarts(ms, prefix)
             recent == IF Len(starts) <= RecentTurns THEN 0 ELSE starts[Len(starts) - RecentTurns + 1]
             at == {i \in DOMAIN ms : first < i /\ i < recent /\ ms[i].role = "tool"}
             u == StubOld(ms, prefix, first)
  <1>1. u = Stubbed(ms, at, "pruned")
    BY DEF StubOld
  <1> HIDE DEF u, recent
  <1>2. \A i \in DOMAIN ms : i \in at <=> first < i /\ i < recent /\ ms[i].role = "tool"
    OBVIOUS
  <1> HIDE DEF at
  <1>3. /\ Stubs(u, ms)
        /\ \A i \in DOMAIN ms : (i \in at => u[i].kind = "pruned") /\ (i \notin at => u[i] = ms[i])
    BY <1>1, <1>2, StubbedIs
  <1> QED
    BY <1>2, <1>3 DEF u, recent

\* Where the turns of messages begin.
LEMMA StartsIs ==
    ASSUME NEW ms \in Seq(Messages), NEW prefix \in Nat
    PROVE  LET s == TurnStarts(ms, prefix)
           IN  /\ Len(s) \in Nat /\ DOMAIN s = 1 .. Len(s)
               /\ s \in Seq(Nat)
               /\ \A k \in 1 .. Len(s) : s[k] \in DOMAIN ms /\ s[k] > prefix /\ ms[s[k]].role = "user"
               /\ \A k, l \in 1 .. Len(s) : k < l => s[k] < s[l]
               /\ \A i \in DOMAIN ms : i > prefix /\ ms[i].role = "user" => \E k \in 1 .. Len(s) : s[k] = i
  <1> DEFINE S == {i \in DOMAIN ms : i > prefix /\ ms[i].role = "user"}
             s == TurnStarts(ms, prefix)
  <1>1. DOMAIN ms = 1 .. Len(ms) /\ Len(ms) \in Nat
    BY LenProperties
  <1>2. S \in SUBSET (1 .. Len(ms))
    BY <1>1
  <1>3. s = InOrder(S)
    BY DEF TurnStarts
  <1>4. \A i : i \in S <=> i \in DOMAIN ms /\ i > prefix /\ ms[i].role = "user"
    OBVIOUS
  <1> HIDE DEF S, s
  <1>5. /\ Cardinality(S) \in Nat
        /\ s \in [1 .. Cardinality(S) -> S] /\ Len(s) = Cardinality(S)
        /\ \A k, l \in 1 .. Cardinality(S) : k < l => s[k] < s[l]
        /\ \A i \in S : \E k \in 1 .. Cardinality(S) : s[k] = i
    BY <1>1, <1>2, <1>3, InOrderIs
  <1>6. s \in [1 .. Cardinality(S) -> Nat]
    <2>1. \A i \in S : i \in Nat
      BY <1>2
    <2> QED
      BY <1>5, <2>1
  <1>7. s \in Seq(Nat)
    BY <1>5, <1>6
  <1>8. \A k \in 1 .. Len(s) : s[k] \in S
    BY <1>5
  <1> QED
    BY <1>4, <1>5, <1>7, <1>8 DEF s
-----------------------------------------------------------------------------
(* Turns dropped.                                                            *)

\* r is ms without what is from c on and before d.
IsCut(r, ms, c, d) ==
    /\ r \in Seq(Messages) /\ Len(r) = Len(ms) - (d - c)
    /\ \A i \in DOMAIN ms : /\ i < c => r[i] = ms[i]
                            /\ i >= d => r[i - (d - c)] = ms[i]
    /\ \A i \in DOMAIN r : /\ i < c => r[i] = ms[i] /\ i \in DOMAIN ms
                           /\ i >= c => r[i] = ms[i + (d - c)] /\ i + (d - c) \in DOMAIN ms

\* out is that with a notice after the first messages.
Spliced(out, ms, first, c, d) ==
    /\ out \in Seq(Messages) /\ Len(out) = Len(ms) - (d - c) + 1
    /\ out[first + 1] = Message("system", "notice")
    /\ \A i \in DOMAIN ms : /\ i <= first => out[i] = ms[i]
                            /\ first < i /\ i < c => out[i + 1] = ms[i]
                            /\ i >= d => out[i + 1 - (d - c)] = ms[i]
    /\ \A i \in DOMAIN out : /\ i <= first => out[i] = ms[i] /\ i \in DOMAIN ms
                             /\ first + 1 < i /\ i <= c => out[i] = ms[i - 1] /\ i - 1 \in DOMAIN ms
                             /\ i > c => out[i] = ms[i - 1 + (d - c)] /\ i - 1 + (d - c) \in DOMAIN ms

\* A place past the cut, and the one it had.
LEMMA PastTheCut ==
    ASSUME NEW c \in Int, NEW d \in Int, NEW n \in Int, NEW i \in Int,
           i >= c, i <= n - (d - c), 1 <= c, c < d
    PROVE  /\ i + (d - c) \in d .. n /\ i + (d - c) \in 1 .. n
           /\ (i + (d - c)) - (d - c) = i
  OBVIOUS

LEMMA CutIs ==
    ASSUME NEW ms \in Seq(Messages), NEW c \in DOMAIN ms, NEW d \in DOMAIN ms, c < d
    PROVE  IsCut(SubSeq(ms, 1, c - 1) \o SubSeq(ms, d, Len(ms)), ms, c, d)
  <1> DEFINE n == Len(ms)
             u == SubSeq(ms, 1, c - 1)
             v == SubSeq(ms, d, n)
             r == u \o v
  <1>1. DOMAIN ms = 1 .. n /\ n \in Nat /\ \A i \in 1 .. n : ms[i] \in Messages
    BY LenProperties, ElementOfSeq
  <1> HIDE DEF n
  <1>2. c \in 1 .. n /\ d \in 1 .. n /\ c - 1 \in Int /\ n \in Int /\ 1 \in Int /\ d \in Int
    BY <1>1
  <1>3. (\A i \in 1 .. (c - 1) : ms[i] \in Messages) /\ (\A i \in d .. n : ms[i] \in Messages)
    BY <1>1, <1>2
  <1>4. /\ u \in Seq(Messages) /\ Len(u) = IF 1 <= c - 1 THEN (c - 1) - 1 + 1 ELSE 0
        /\ \A i \in 1 .. (c - 1) - 1 + 1 : u[i] = ms[1 + i - 1]
    BY <1>2, <1>3, SubSeqProperties
  <1>5. /\ v \in Seq(Messages) /\ Len(v) = IF d <= n THEN n - d + 1 ELSE 0
        /\ \A i \in 1 .. n - d + 1 : v[i] = ms[d + i - 1]
    BY <1>2, <1>3, SubSeqProperties, SMTT(30)
  <1> HIDE DEF u, v
  <1>6. Len(u) = c - 1 /\ Len(v) = n - d + 1
    BY <1>2, <1>4, <1>5
  <1>7. \A i \in 1 .. (c - 1) : u[i] = ms[i]
    <2> TAKE i \in 1 .. (c - 1)
    <2>1. i \in 1 .. (c - 1) - 1 + 1 /\ 1 + i - 1 = i
      BY <1>2
    <2> QED
      BY <1>4, <2>1
  <1>8. /\ r \in Seq(Messages) /\ Len(r) = Len(u) + Len(v)
        /\ DOMAIN r = 1 .. (Len(u) + Len(v))
        /\ \A i \in 1 .. Len(u) : r[i] = u[i]
        /\ \A i \in 1 .. Len(v) : r[Len(u) + i] = v[i]
    <2>1. u \in Seq(Messages) /\ v \in Seq(Messages)
      BY <1>4, <1>5
    <2> QED
      BY <2>1, JoinIs
  <1> HIDE DEF r
  <1>9. \A i \in 1 .. (c - 1) : r[i] = ms[i]
    BY <1>6, <1>7, <1>8
  <1>10. \A i \in d .. n : r[i - (d - c)] = ms[i]
    <2> TAKE i \in d .. n
    <2>1. i - d + 1 \in 1 .. Len(v) /\ i - d + 1 \in 1 .. n - d + 1 /\ d + (i - d + 1) - 1 = i
          /\ Len(u) + (i - d + 1) = i - (d - c)
      BY <1>2, <1>6, SMTT(30)
    <2> QED
      BY <1>5, <1>8, <2>1, ZenonT(60)
  <1>11. \A i \in 1 .. n : (i < c => i \in 1 .. (c - 1)) /\ (i >= d => i \in d .. n)
    BY <1>2
  <1>12. \A i \in DOMAIN r : /\ i < c => r[i] = ms[i] /\ i \in DOMAIN ms
                             /\ i >= c => r[i] = ms[i + (d - c)] /\ i + (d - c) \in DOMAIN ms
    <2>0. DOMAIN r = 1 .. (n - (d - c))
      <3>1. Len(u) + Len(v) = n - (d - c)
        BY <1>2, <1>6
      <3> QED
        BY <1>8, <3>1
    <2> TAKE i \in DOMAIN r
    <2>1. CASE i < c
      <3>1. i \in 1 .. (c - 1) /\ i \in 1 .. n
        BY <1>2, <2>0, <2>1
      <3> QED
        BY <1>1, <1>2, <1>9, <2>1, <3>1
    <2>2. CASE i >= c
      <3>0. i \in Int /\ i <= n - (d - c)
        BY <1>2, <2>0
      <3>4. c \in Int /\ d \in Int /\ n \in Int /\ 1 <= c /\ c < d /\ d <= n
        BY <1>2
      <3>1. i + (d - c) \in d .. n /\ (i + (d - c)) - (d - c) = i /\ i + (d - c) \in 1 .. n
        BY <2>2, <3>0, <3>4, PastTheCut, SMTT(90)
      <3>2. r[(i + (d - c)) - (d - c)] = ms[i + (d - c)]
        BY <1>10, <3>1
      <3>3. i \in Int /\ ~(i < c)
        BY <1>2, <2>0, <2>2
      <3> QED
        BY <1>1, <3>1, <3>2, <3>3
    <2>3. i \in Int
      BY <1>2, <2>0
    <2> QED
      BY <1>2, <2>1, <2>2, <2>3
  <1>13. Len(r) = n - (d - c)
    BY <1>2, <1>6, <1>8, SMTT(60)
  <1> QED
    BY <1>1, <1>8, <1>9, <1>10, <1>11, <1>12, <1>13 DEF IsCut, r, u, v, n

LEMMA SplicedIs ==
    ASSUME NEW ms \in Seq(Messages), NEW c \in DOMAIN ms, NEW d \in DOMAIN ms, c < d,
           NEW first \in Nat, first < c, NEW r, IsCut(r, ms, c, d)
    PROVE  Spliced(SubSeq(r, 1, first) \o <<Message("system", "notice")>> \o SubSeq(r, first + 1, Len(r)),
                   ms, first, c, d)
  <1> DEFINE n == Len(ms)
             l == Len(r)
             notice == Message("system", "notice")
             u == SubSeq(r, 1, first)
             one == <<notice>>
             v == SubSeq(r, first + 1, l)
             w == u \o one
             out == w \o v
  <1>1. DOMAIN ms = 1 .. n /\ n \in Nat /\ c \in 1 .. n /\ d \in 1 .. n
    BY LenProperties
  <1>2. r \in Seq(Messages) /\ l = n - (d - c)
    BY DEF IsCut
  <1>3. DOMAIN r = 1 .. l /\ l \in Nat /\ \A i \in 1 .. l : r[i] \in Messages
    BY <1>2, LenProperties, ElementOfSeq
  <1> HIDE DEF n, l
  <1>4. first <= l
    BY <1>1, <1>2
  <1>5. first \in Int /\ l \in Int /\ 1 \in Int /\ first + 1 \in Int
        /\ (\A i \in 1 .. first : r[i] \in Messages) /\ (\A i \in first + 1 .. l : r[i] \in Messages)
    BY <1>3, <1>4
  <1>6. /\ u \in Seq(Messages) /\ Len(u) = IF 1 <= first THEN first - 1 + 1 ELSE 0
        /\ \A i \in 1 .. first - 1 + 1 : u[i] = r[1 + i - 1]
    BY <1>5, SubSeqProperties
  <1>7. /\ v \in Seq(Messages) /\ Len(v) = IF first + 1 <= l THEN l - (first + 1) + 1 ELSE 0
        /\ \A i \in 1 .. l - (first + 1) + 1 : v[i] = r[first + 1 + i - 1]
    BY <1>5, SubSeqProperties
  <1>8. one \in Seq(Messages) /\ Len(one) = 1 /\ one[1] = notice
    <2>1. notice \in Messages
      BY MessageTyped DEF Kinds
    <2> HIDE DEF notice
    <2> QED
      BY <2>1
  <1> HIDE DEF u, v, one, notice
  <1>9. Len(u) = first /\ Len(v) = l - first
    BY <1>3, <1>4, <1>6, <1>7
  <1>10. \A i \in 1 .. first : u[i] = r[i]
    <2> TAKE i \in 1 .. first
    <2>1. i \in 1 .. first - 1 + 1 /\ 1 + i - 1 = i
      OBVIOUS
    <2> QED
      BY <1>6, <2>1
  <1>11. \A i \in first + 1 .. l : v[i - first] = r[i]
    <2> TAKE i \in first + 1 .. l
    <2>1. i - first \in 1 .. l - (first + 1) + 1 /\ first + 1 + (i - first) - 1 = i
      BY <1>3
    <2> QED
      BY <1>7, <2>1
  <1>12. /\ w \in Seq(Messages) /\ Len(w) = first + 1
         /\ \A i \in 1 .. first : w[i] = u[i]
         /\ w[first + 1] = notice
    <2>1. /\ w \in Seq(Messages) /\ Len(w) = Len(u) + Len(one)
          /\ \A i \in 1 .. Len(u) : w[i] = u[i]
          /\ \A i \in 1 .. Len(one) : w[Len(u) + i] = one[i]
      <3>1. u \in Seq(Messages) /\ one \in Seq(Messages)
        BY <1>6, <1>8
      <3> QED
        BY <3>1, JoinIs
    <2>2. 1 \in 1 .. Len(one)
      BY <1>8
    <2> QED
      BY <1>8, <1>9, <2>1, <2>2
  <1> HIDE DEF w
  <1>13. /\ out \in Seq(Messages) /\ Len(out) = l + 1 /\ DOMAIN out = 1 .. (l + 1)
         /\ \A i \in 1 .. (first + 1) : out[i] = w[i]
         /\ \A i \in 1 .. (l - first) : out[first + 1 + i] = v[i]
    <2>1. /\ out \in Seq(Messages) /\ Len(out) = Len(w) + Len(v)
          /\ DOMAIN out = 1 .. (Len(w) + Len(v))
          /\ \A i \in 1 .. Len(w) : out[i] = w[i]
          /\ \A i \in 1 .. Len(v) : out[Len(w) + i] = v[i]
      <3>1. w \in Seq(Messages) /\ v \in Seq(Messages)
        BY <1>7, <1>12
      <3> QED
        BY <3>1, JoinIs
    <2>2. Len(w) + Len(v) = l + 1
      BY <1>3, <1>9, <1>12
    <2> QED
      BY <1>9, <1>12, <2>1, <2>2
  <1> HIDE DEF out
  <1>14. \A i \in 1 .. first : out[i] = r[i]
    BY <1>10, <1>12, <1>13
  <1>15. \A i \in first + 1 .. l : out[i + 1] = r[i]
    <2> TAKE i \in first + 1 .. l
    <2>1. i - first \in 1 .. (l - first) /\ first + 1 + (i - first) = i + 1
      BY <1>3
    <2> QED
      BY <1>11, <1>13, <2>1
  <1>16. out[first + 1] = notice
    BY <1>12, <1>13
  <1>17. /\ \A i \in 1 .. n : /\ i < c => r[i] = ms[i]
                              /\ i >= d => r[i - (d - c)] = ms[i]
         /\ \A i \in 1 .. l : /\ i < c => r[i] = ms[i] /\ i \in 1 .. n
                              /\ i >= c => r[i] = ms[i + (d - c)] /\ i + (d - c) \in 1 .. n
    BY <1>1, <1>3 DEF IsCut
  <1>18. ASSUME NEW i \in 1 .. n
         PROVE  /\ i <= first => out[i] = ms[i]
                /\ first < i /\ i < c => out[i + 1] = ms[i]
                /\ i >= d => out[i + 1 - (d - c)] = ms[i]
    <2>1. i <= first => i \in 1 .. first /\ i < c
      BY <1>1
    <2>2. first < i /\ i < c => i \in first + 1 .. l
      BY <1>1, <1>2
    <2>3. i >= d => i - (d - c) \in first + 1 .. l /\ (i - (d - c)) + 1 = i + 1 - (d - c)
      BY <1>1, <1>2
    <2>4. i >= d => out[(i - (d - c)) + 1] = r[i - (d - c)]
      BY <1>15, <2>3
    <2> QED
      BY <1>14, <1>15, <1>17, <2>1, <2>2, <2>3, <2>4
  <1>19. ASSUME NEW i \in 1 .. (l + 1)
         PROVE  /\ i <= first => out[i] = ms[i] /\ i \in 1 .. n
                /\ first + 1 < i /\ i <= c => out[i] = ms[i - 1] /\ i - 1 \in 1 .. n
                /\ i > c => out[i] = ms[i - 1 + (d - c)] /\ i - 1 + (d - c) \in 1 .. n
    <2>1. i <= first => i \in 1 .. first /\ i < c /\ i \in 1 .. l
      BY <1>1, <1>3, <1>4
    <2>2. first + 1 < i => i - 1 \in first + 1 .. l /\ (i - 1) + 1 = i /\ i - 1 \in 1 .. l
      BY <1>3
    <2>3. (i <= c => i - 1 < c) /\ (i > c => i - 1 >= c /\ first + 1 < i)
      BY <1>1
    <2>4. first + 1 < i => out[(i - 1) + 1] = r[i - 1]
      BY <1>15, <2>2
    <2>5. first + 1 < i => out[i] = r[i - 1]
      BY <2>2, <2>4
    <2> QED
      BY <1>14, <1>17, <2>1, <2>2, <2>3, <2>5
  <1>20. l + 1 = n - (d - c) + 1
    BY <1>1, <1>2
  <1> QED
    BY <1>1, <1>13, <1>16, <1>18, <1>19, <1>20 DEF Spliced, out, w, u, v, one, notice, l, n
LEMMA DropOldIs ==
    ASSUME NEW ms \in Seq(Messages), NEW prefix \in Nat, NEW pin \in BOOLEAN,
           NEW first \in Nat, first <= prefix + (IF pin THEN 1 ELSE 0)
    PROVE  LET s == TurnStarts(ms, prefix)
               most == Len(s) - ProtectedTurns - (IF pin THEN 1 ELSE 0)
               oldest == IF pin THEN 2 ELSE 1
               out == DropOld(ms, prefix, pin, first)
           IN  \/ out = ms /\ (most <= 0 \/ Fits(ms))
               \/ \E n \in 1 .. most :
                     /\ oldest \in 1 .. Len(s) /\ oldest + n \in 1 .. Len(s)
                     /\ first < s[oldest]
                     /\ IsCut(WithoutTurns(ms, prefix, pin, n), ms, s[oldest], s[oldest + n])
                     /\ Spliced(out, ms, first, s[oldest], s[oldest + n])
                     /\ Fits(WithoutTurns(ms, prefix, pin, n)) \/ n = most
  <1> DEFINE s == TurnStarts(ms, prefix)
             one == IF pin THEN 1 ELSE 0
             most == Len(s) - ProtectedTurns - one
             oldest == IF pin THEN 2 ELSE 1
             without(n) == WithoutTurns(ms, prefix, pin, n)
             enough == {n \in 0 .. most : Fits(without(n)) \/ n = most}
             n0 == CHOOSE n \in enough : \A m \in enough : n <= m
             out == DropOld(ms, prefix, pin, first)
  <1>1. /\ Len(s) \in Nat /\ DOMAIN s = 1 .. Len(s) /\ s \in Seq(Nat)
        /\ \A k \in 1 .. Len(s) : s[k] \in DOMAIN ms /\ s[k] > prefix /\ ms[s[k]].role = "user"
        /\ \A k, l \in 1 .. Len(s) : k < l => s[k] < s[l]
    BY StartsIs
  <1>2. ProtectedTurns \in Nat /\ RecentTurns \in Nat /\ ProtectedTurns > 1 /\ one \in 0 .. 1 /\ oldest = one + 1
    BY RequestConstants
  <1>3. DOMAIN ms = 1 .. Len(ms) /\ Len(ms) \in Nat
    BY LenProperties
  <1>4. out = IF most <= 0 \/ n0 = 0 THEN ms
              ELSE SubSeq(without(n0), 1, first) \o <<Message("system", "notice")>>
                      \o SubSeq(without(n0), first + 1, Len(without(n0)))
    BY DEF DropOld
  <1>5. without(0) = ms
    BY DEF WithoutTurns
  <1>6. ASSUME NEW n \in 1 .. (most + one) , oldest + n \in 1 .. Len(s)
        PROVE  without(n) = SubSeq(ms, 1, s[oldest] - 1) \o SubSeq(ms, s[oldest + n], Len(ms))
    <2> DEFINE t == Append(s, Len(ms) + 1)
    <2>1. \A k \in 1 .. Len(s) : t[k] = s[k]
      <3> HIDE DEF s
      <3>1. Len(ms) + 1 \in Nat
        BY <1>3
      <3> QED
        BY <1>1, <3>1
    <2>2. n # 0 /\ oldest \in 1 .. Len(s)
      <3> HIDE DEF s, most, one
      <3> QED
        BY <1>1, <1>2, <1>6
    <2>3. without(n) = IF n = 0 THEN ms
                       ELSE SubSeq(ms, 1, t[oldest] - 1) \o SubSeq(ms, t[oldest + n], Len(ms))
      BY DEF WithoutTurns
    <2> HIDE DEF t, without, s, oldest
    <2> QED
      BY <1>6, <2>1, <2>2, <2>3
  <1> HIDE DEF s, one, oldest, without, out
  <1>7. CASE most <= 0
    BY <1>4, <1>7 DEF s, one, oldest, without, out
  <1>8. CASE ~(most <= 0)
    <2>1. most \in Nat /\ most >= 1
      BY <1>1, <1>2, <1>8
    <2>2. n0 \in enough /\ \A m \in enough : n0 <= m
      <3>1. enough \in SUBSET Nat /\ most \in enough
        BY <2>1
      <3> HIDE DEF enough
      <3> QED
        BY <3>1, Least
    <2>3. n0 \in 0 .. most /\ (Fits(without(n0)) \/ n0 = most)
      BY <2>2
    <2> HIDE DEF n0, enough
    <2>4. CASE n0 = 0
      <3>1. out = ms /\ Fits(ms)
        BY <1>4, <1>5, <2>1, <2>3, <2>4
      <3> QED
        BY <3>1 DEF s, one, oldest, without, out
    <2>5. CASE n0 # 0
      <3> DEFINE c == s[oldest]
                 d == s[oldest + n0]
      <3>1. n0 \in 1 .. most /\ n0 \in 1 .. (most + one)
        BY <1>2, <2>1, <2>3, <2>5
      <3>2. oldest \in 1 .. Len(s) /\ oldest + n0 \in 1 .. Len(s) /\ oldest < oldest + n0
        BY <1>1, <1>2, <3>1
      <3>3. c \in DOMAIN ms /\ d \in DOMAIN ms /\ c < d
        BY <1>1, <3>2
      <3>4. first < c
        <4>1. CASE pin
          <5>1. oldest = 2 /\ one = 1
            BY <4>1 DEF oldest, one
          <5>2. 1 \in 1 .. Len(s) /\ 2 \in 1 .. Len(s) /\ 1 < 2
            BY <1>1, <3>2, <5>1
          <5>3. s[1] \in Nat /\ s[1] > prefix /\ s[1] < s[2] /\ s[2] \in Nat
            BY <1>1, <1>3, <5>2
          <5> QED
            BY <5>1, <5>3 DEF one
        <4>2. CASE ~pin
          <5>1. s[oldest] > prefix /\ s[oldest] \in Nat
            BY <1>1, <1>3, <3>2
          <5> QED
            BY <4>2, <5>1
        <4> QED
          BY <4>1, <4>2
      <3>5. without(n0) = SubSeq(ms, 1, c - 1) \o SubSeq(ms, d, Len(ms))
        BY <1>6, <3>1, <3>2
      <3> HIDE DEF c, d
      <3>6. IsCut(without(n0), ms, c, d)
        BY <3>3, <3>5, CutIs
      <3>7. Spliced(SubSeq(without(n0), 1, first) \o <<Message("system", "notice")>>
                       \o SubSeq(without(n0), first + 1, Len(without(n0))), ms, first, c, d)
        BY <3>3, <3>4, <3>6, SplicedIs
      <3>8. Spliced(out, ms, first, c, d)
        BY <1>4, <1>8, <2>5, <3>7
      <3> HIDE DEF most
      <3> QED
        BY <2>3, <3>1, <3>2, <3>4, <3>6, <3>8 DEF c, d, s, one, oldest, without, out, most
    <2> QED
      BY <2>4, <2>5
  <1> QED
    BY <1>7, <1>8

\* What is spliced is as it was: a turn's calls and results go together.
LEMMA SplicedSent ==
    ASSUME NEW ms, Sent(ms), NEW first, Quiet(ms, first), NEW out,
           NEW c \in DOMAIN ms, NEW d \in DOMAIN ms, first < c, c < d,
           ms[c].role = "user", ms[d].role = "user", Spliced(out, ms, first, c, d)
    PROVE  Sent(out)
  <1> DEFINE n == Len(ms)
             e == d - c
             notice == Message("system", "notice")
             from(j) == IF j <= first THEN j ELSE IF j <= c THEN j - 1 ELSE j - 1 + e
             to(i) == IF i <= first THEN i ELSE IF i < c THEN i + 1 ELSE i + 1 - e
             kept(i) == i \in 1 .. n /\ (i < c \/ i >= d)
  <1>1. ms \in Seq(Messages) /\ Paired(ms) /\ Begun(ms) /\ out \in Seq(Messages)
    BY DEF Sent, Spliced
  <1>2. /\ DOMAIN ms = 1 .. n /\ n \in Nat /\ first \in 0 .. n /\ c \in 1 .. n /\ d \in 1 .. n
        /\ DOMAIN out = 1 .. Len(out) /\ Len(out) = n - e + 1
        /\ \A i \in 1 .. first : NoCalls(ms[i])
    BY <1>1, LenProperties DEF Quiet, Spliced
  <1>3. notice \in Messages /\ NoCalls(notice) /\ Proper(notice) /\ notice.role = "system" /\ notice.kind = "notice"
    <2>1. /\ notice \in Messages /\ NoCalls(notice) /\ notice.role = "system" /\ notice.kind = "notice"
          /\ notice.answers = Nobody
      BY MessageTyped DEF Kinds
    <2> HIDE DEF notice
    <2> QED
      BY <2>1 DEF Proper, NoCalls
  <1>4. out[first + 1] = notice
    BY DEF Spliced
  <1> HIDE DEF n, e, notice
  <1>5. e \in Nat /\ e > 0 /\ c + e = d
    BY <1>2 DEF e
  <1>6. \A j \in 1 .. Len(out) : j # first + 1 =>
           out[j] = ms[from(j)] /\ kept(from(j)) /\ to(from(j)) = j
    <2> TAKE j \in 1 .. Len(out)
    <2> HAVE j # first + 1
    <2>0. /\ j <= first => out[j] = ms[j] /\ j \in 1 .. n
          /\ first + 1 < j /\ j <= c => out[j] = ms[j - 1] /\ j - 1 \in 1 .. n
          /\ j > c => out[j] = ms[j - 1 + e] /\ j - 1 + e \in 1 .. n
      BY <1>2 DEF Spliced, e
    <2>1. CASE j <= first
      BY <1>2, <1>5, <2>0, <2>1, SMTT(30)
    <2>2. CASE first + 1 < j /\ j <= c
      BY <1>2, <1>5, <2>0, <2>2, SMTT(30)
    <2>3. CASE j > c
      BY <1>2, <1>5, <2>0, <2>3, SMTT(30)
    <2> QED
      BY <1>2, <1>5, <2>1, <2>2, <2>3
  <1>7. \A i : kept(i) => to(i) \in 1 .. Len(out) /\ to(i) # first + 1 /\ out[to(i)] = ms[i]
    <2> TAKE i
    <2> HAVE kept(i)
    <2>0. /\ i <= first => out[i] = ms[i]
          /\ first < i /\ i < c => out[i + 1] = ms[i]
          /\ i >= d => out[i + 1 - e] = ms[i]
      BY <1>2 DEF Spliced, e
    <2>1. to(i) \in 1 .. Len(out) /\ to(i) # first + 1
      BY <1>2, <1>5
    <2> QED
      BY <1>2, <1>5, <2>0, <2>1
  <1>8. \A i \in 1 .. n : Len(ms[i].calls) \in Nat /\ DOMAIN ms[i].calls = 1 .. Len(ms[i].calls)
    <2> TAKE i \in 1 .. n
    <2>1. ms[i] \in Messages
      BY <1>1, ElementOfSeq DEF n
    <2> QED
      BY <2>1, MessageIs
  <1>9. \A i \in 1 .. first : DOMAIN ms[i].calls = {} /\ ms[i].role # "tool"
    BY <1>2 DEF NoCalls
  <1>10. \A i \in 1 .. n : Proper(ms[i])
    BY <1>2 DEF Sent
  <1>11. \A j \in DOMAIN out : Proper(out[j]) /\ \A k \in DOMAIN out[j].calls : Said(out[j].calls[k])
    <2> TAKE j \in DOMAIN out
    <2>1. CASE j = first + 1
      <3>1. DOMAIN notice.calls = {}
        BY <1>3 DEF NoCalls
      <3> QED
        BY <1>3, <1>4, <2>1, <3>1
    <2>2. CASE j # first + 1
      <3>1. out[j] = ms[from(j)] /\ from(j) \in DOMAIN ms
        BY <1>2, <1>6, <2>2
      <3> HIDE DEF from
      <3> QED
        BY <3>1 DEF Sent
    <2> QED
      BY <2>1, <2>2
  <1>12. ASSUME NEW j \in DOMAIN out, NEW k \in DOMAIN out[j].calls
         PROVE  j + k \in DOMAIN out /\ out[j + k].role = "tool" /\ out[j + k].of = out[j].calls[k]
    <2>1. j # first + 1
      BY <1>3, <1>4, <1>12 DEF NoCalls
    <2> DEFINE i == from(j)
    <2>2. out[j] = ms[i] /\ kept(i) /\ to(i) = j
      BY <1>2, <1>6, <2>1
    <2> HIDE DEF i
    <2>3. k \in 1 .. Len(ms[i].calls) /\ k \in Nat /\ k >= 1 /\ k \in DOMAIN ms[i].calls
      BY <1>8, <1>12, <2>2
    <2>4. i > first
      <3>1. i \in 1 .. n /\ i \notin 1 .. first
        BY <1>9, <2>2, <2>3
      <3> QED
        BY <1>2, <3>1
    <2>5. i + k \in 1 .. n /\ ms[i + k].role = "tool" /\ ms[i + k].of = ms[i].calls[k]
      BY <1>1, <1>2, <2>2, <2>3 DEF Paired
    <2>6. i < c => i + k < c
      <3> SUFFICES ASSUME i < c, ~(i + k < c) PROVE FALSE
        BY <1>2, <2>2, <2>3
      <3>0. i \in 1 .. n /\ Len(ms[i].calls) \in Nat
        BY <1>8, <2>2
      <3>1. c - i \in 1 .. Len(ms[i].calls) /\ i + (c - i) = c
        BY <1>2, <2>3, <3>0, SMTT(60)
      <3>2. i \in DOMAIN ms /\ c - i \in DOMAIN ms[i].calls
        BY <1>2, <1>8, <3>0, <3>1
      <3>3. ms[i + (c - i)].role = "tool"
        <4> HIDE DEF i
        <4> QED
          BY <1>1, <3>2 DEF Paired
      <3> QED
        BY <3>1, <3>3
    <2>7. kept(i + k) /\ to(i + k) = j + k
      BY <1>2, <1>5, <2>2, <2>3, <2>4, <2>5, <2>6, SMTT(90)
    <2>8. j + k \in 1 .. Len(out) /\ out[j + k] = ms[i + k]
      BY <1>7, <2>7
    <2> QED
      BY <1>2, <2>2, <2>5, <2>8
  <1>13. ASSUME NEW j \in DOMAIN out, out[j].role = "tool"
         PROVE  \E p \in 1 .. (j - 1) : (j - p) \in DOMAIN out[p].calls /\ out[j].of = out[p].calls[j - p]
    <2>1. j # first + 1
      BY <1>3, <1>4, <1>13
    <2> DEFINE i == from(j)
    <2>2. out[j] = ms[i] /\ kept(i) /\ to(i) = j
      BY <1>2, <1>6, <2>1
    <2> HIDE DEF i
    <2>3. PICK p \in 1 .. (i - 1) : (i - p) \in DOMAIN ms[p].calls /\ ms[i].of = ms[p].calls[i - p]
      BY <1>1, <1>2, <1>13, <2>2 DEF Paired
    <2>4. p \in 1 .. n /\ p < i /\ i - p \in 1 .. Len(ms[p].calls)
      BY <1>2, <1>8, <2>2, <2>3
    <2>5. p > first
      BY <1>9, <1>2, <2>3, <2>4
    <2>6. i >= d => p >= d
      <3> SUFFICES ASSUME i >= d, p < d PROVE FALSE
        BY <1>2, <2>4
      <3>1. d - p \in 1 .. Len(ms[p].calls) /\ p + (d - p) = d
        BY <1>2, <1>8, <2>2, <2>4
      <3>2. ms[p + (d - p)].role = "tool"
        BY <1>1, <1>2, <1>8, <2>4, <3>1, ZenonT(60) DEF Paired
      <3> QED
        BY <3>1, <3>2
    <2>7. kept(p) /\ to(p) \in 1 .. (j - 1) /\ j - to(p) = i - p
      BY <1>2, <1>5, <2>2, <2>4, <2>5, <2>6, SMTT(90)
    <2>8. out[to(p)] = ms[p]
      BY <1>7, <2>7
    <2> HIDE DEF to
    <2> QED
      BY <2>2, <2>3, <2>7, <2>8
  <1>14. ASSUME NEW j \in DOMAIN out, out[j].role \in {"assistant", "tool"} \/ out[j].kind = "note"
         PROVE  \E q \in 1 .. (j - 1) : out[q].role = "user"
    <2>1. j # first + 1
      BY <1>3, <1>4, <1>14
    <2> DEFINE i == from(j)
    <2>2. out[j] = ms[i] /\ kept(i) /\ to(i) = j
      BY <1>2, <1>6, <2>1
    <2> HIDE DEF i
    <2>3. PICK q \in 1 .. (i - 1) : ms[q].role = "user"
      BY <1>1, <1>2, <1>14, <2>2 DEF Begun
    <2>4. i # d
      BY <1>2, <1>10, <1>14, <2>2, SMTT(30) DEF Proper
    <2>5. i < c => kept(q) /\ to(q) \in 1 .. (j - 1)
      BY <1>2, <1>5, <2>2, <2>3, SMTT(30)
    <2>6. i >= d => kept(d) /\ to(d) \in 1 .. (j - 1)
      BY <1>2, <1>5, <2>2, <2>4, SMTT(30)
    <2>7. kept(q) => out[to(q)] = ms[q]
      BY <1>7
    <2>8. kept(d) => out[to(d)] = ms[d]
      BY <1>7
    <2>9. i < c \/ i >= d
      BY <2>2
    <2> HIDE DEF to, kept
    <2> QED
      BY <2>3, <2>5, <2>6, <2>7, <2>8, <2>9
  <1>15. Paired(out) /\ Begun(out)
    BY <1>12, <1>13, <1>14 DEF Paired, Begun
  <1> QED
    BY <1>1, <1>11, <1>15 DEF Sent-----------------------------------------------------------------------------
(* The request.                                                              *)

Whole == Len(Pinned) + (IF implement THEN 1 ELSE 0)
First == IF Whole <= Len(Everything) THEN Whole ELSE Len(Everything)
Coalesced == Coalesce(Everything, First)
Trimmed == StubOld(Coalesced, Len(Pinned), First)

LEMMA RequestIs ==
    \/ Request = Everything /\ Fits(Everything)
    \/ Request = Coalesced /\ Fits(Coalesced) /\ ~Fits(Everything)
    \/ Request = Trimmed /\ Fits(Trimmed) /\ ~Fits(Everything)
    \/ Request = DropOld(Trimmed, Len(Pinned), implement, First) /\ ~Fits(Everything) /\ ~Fits(Trimmed)
  BY DEF Request, Prune, Whole, First, Coalesced, Trimmed, Everything

LEMMA PiecesAre ==
    ASSUME IInv
    PROVE  /\ First \in Nat /\ Quiet(Everything, First) /\ First <= Whole
           /\ Len(Pinned) \in Nat /\ implement \in BOOLEAN
           /\ Stubs(Coalesced, Everything) /\ Stubs(Trimmed, Coalesced) /\ Stubs(Trimmed, Everything)
  <1>1. /\ Sent(Everything)
        /\ Len(Everything) = Len(Pinned) + Len(history) /\ Len(history) \in Nat
        /\ DOMAIN Everything = 1 .. Len(Everything)
        /\ \A i \in DOMAIN Everything : i <= Len(Pinned) + 1 => NoCalls(Everything[i])
    BY EverythingIs
  <1>2. Len(Pinned) \in 1 .. 2
    BY PinnedIs
  <1>3. implement \in BOOLEAN /\ Everything \in Seq(Messages)
    BY <1>1 DEF IInv, Sent
  <1>4. First \in 0 .. Len(Everything) /\ First <= Len(Pinned) + 1 /\ First <= Whole
    BY <1>1, <1>2, <1>3 DEF First, Whole
  <1>5. Quiet(Everything, First)
    <2>1. \A i \in 1 .. First : i \in DOMAIN Everything /\ i <= Len(Pinned) + 1
      BY <1>1, <1>2, <1>4
    <2> QED
      BY <1>1, <1>4, <2>1 DEF Quiet
  <1>6. First \in Nat
    BY <1>1, <1>2, <1>4
  <1>7. Stubs(Coalesced, Everything)
    BY <1>3, <1>6, CoalesceIs DEF Coalesced
  <1>8. Stubs(Trimmed, Coalesced)
    <2>1. Coalesced \in Seq(Messages)
      BY <1>7 DEF Stubs
    <2> QED
      BY <2>1, StubOldIs DEF Trimmed
  <1>9. Stubs(Trimmed, Everything)
    BY <1>7, <1>8, StubsOfStubs
  <1> QED
    BY <1>2, <1>3, <1>4, <1>5, <1>6, <1>7, <1>8, <1>9

LEMMA RequestSent ==
    ASSUME IInv
    PROVE  Sent(Request)
  <1>1. Sent(Everything)
    BY EverythingIs
  <1>2. /\ First \in Nat /\ Quiet(Everything, First) /\ First <= Whole
        /\ Len(Pinned) \in Nat /\ implement \in BOOLEAN
        /\ Stubs(Coalesced, Everything) /\ Stubs(Trimmed, Everything)
    BY PiecesAre
  <1>3. Sent(Coalesced) /\ Sent(Trimmed) /\ Quiet(Trimmed, First)
    BY <1>1, <1>2, StubsSent, QuietStubs
  <1>4. CASE Request = DropOld(Trimmed, Len(Pinned), implement, First)
    <2> DEFINE s == TurnStarts(Trimmed, Len(Pinned))
               most == Len(s) - ProtectedTurns - (IF implement THEN 1 ELSE 0)
               oldest == IF implement THEN 2 ELSE 1
    <2>1. Trimmed \in Seq(Messages)
      BY <1>3 DEF Sent
    <2>2. \/ Request = Trimmed
          \/ \E n \in 1 .. most :
                     /\ oldest \in 1 .. Len(s) /\ oldest + n \in 1 .. Len(s)
                     /\ First < s[oldest]
                     /\ Spliced(Request, Trimmed, First, s[oldest], s[oldest + n])
      BY <1>2, <1>4, <2>1, DropOldIs DEF Whole
    <2>3. /\ Len(s) \in Nat
          /\ \A k \in 1 .. Len(s) : s[k] \in DOMAIN Trimmed /\ Trimmed[s[k]].role = "user"
          /\ \A k, l \in 1 .. Len(s) : k < l => s[k] < s[l]
      BY <1>2, <2>1, StartsIs
    <2>4. ProtectedTurns \in Nat
      BY RequestConstants
    <2> HIDE DEF s
    <2>5. ASSUME NEW n \in 1 .. most, oldest \in 1 .. Len(s), oldest + n \in 1 .. Len(s), First < s[oldest],
                 Spliced(Request, Trimmed, First, s[oldest], s[oldest + n])
          PROVE  Sent(Request)
      <3>1. oldest < oldest + n
        BY <2>3, <2>4, <2>5
      <3> HIDE DEF most, oldest
      <3>2. s[oldest] < s[oldest + n]
        BY <2>3, <2>5, <3>1
      <3> QED
        BY <1>3, <2>3, <2>5, <3>2, SplicedSent
    <2> QED
      BY <1>3, <2>2, <2>5
  <1> QED
    BY <1>1, <1>3, <1>4, RequestIs
-----------------------------------------------------------------------------
(* On the wire of OpenAI, and of Ollama.                                     *)

\* Pairs that are numbers have a last one.
LEMMA LatestIs ==
    ASSUME NEW P, P # {}, NEW n \in Nat, NEW m \in Nat, \A p \in P : p \in (0 .. n) \X (0 .. m)
    PROVE  Latest(P) \in P /\ \A q \in P : q[1] < Latest(P)[1] \/ (q[1] = Latest(P)[1] /\ q[2] <= Latest(P)[2])
  <1> DEFINE After(p, q) == q[1] < p[1] \/ (q[1] = p[1] /\ q[2] <= p[2])
             A == {n - p[1] : p \in P}
  <1>0. \A p \in P : p[1] \in 0 .. n /\ p[2] \in 0 .. m /\ n - p[1] \in Nat /\ m - p[2] \in Nat
    <2> TAKE p \in P
    <2>1. p \in (0 .. n) \X (0 .. m)
      OBVIOUS
    <2>2. p[1] \in 0 .. n /\ p[2] \in 0 .. m
      BY <2>1
    <2> QED
      BY <2>2
  <1>1. A \in SUBSET Nat /\ A # {}
    BY <1>0
  <1>2. PICK a \in A : \A k \in A : a <= k
    <2> HIDE DEF A
    <2> QED BY <1>1, Least
  <1>3. PICK p0 \in P : a = n - p0[1]
    OBVIOUS
  <1> DEFINE B == {m - p[2] : p \in {p \in P : p[1] = p0[1]}}
  <1>4. B \in SUBSET Nat /\ B # {}
    BY <1>0
  <1>5. PICK b \in B : \A k \in B : b <= k
    <2> HIDE DEF B
    <2> QED BY <1>4, Least
  <1>6. PICK p1 \in P : p1[1] = p0[1] /\ b = m - p1[2]
    OBVIOUS
  <1>7. \A q \in P : After(p1, q)
    <2> TAKE q \in P
    <2>1. q[1] <= p1[1]
      <3>1. n - q[1] \in A
        OBVIOUS
      <3>2. a <= n - q[1]
        BY <1>2, <3>1
      <3> HIDE DEF A
      <3> QED
        BY <1>0, <1>3, <1>6, <3>2
    <2>2. q[1] = p1[1] => q[2] <= p1[2]
      <3> SUFFICES ASSUME q[1] = p1[1] PROVE q[2] <= p1[2]
        OBVIOUS
      <3>1. m - q[2] \in B
        BY <1>6
      <3>2. b <= m - q[2]
        BY <1>5, <3>1
      <3> HIDE DEF B
      <3> QED
        BY <1>0, <1>6, <3>2
    <2> QED
      BY <1>0, <2>1, <2>2
  <1>8. Latest(P) = CHOOSE p \in P : \A q \in P : After(p, q)
    BY DEF Latest
  <1> HIDE DEF After
  <1>9. Latest(P) \in P /\ \A q \in P : After(Latest(P), q)
    BY <1>7, <1>8
  <1> QED
    BY <1>9 DEF After

\* The calls of messages stand at pairs of numbers.
Places(ms) == UNION {{<<i, k>> : k \in DOMAIN ms[i].calls} : i \in DOMAIN ms}

LEMMA PlacesAre ==
    ASSUME NEW ms, Sent(ms)
    PROVE  /\ DOMAIN ms = 1 .. Len(ms) /\ Len(ms) \in Nat
           /\ \A i \in DOMAIN ms : ms[i] \in Messages
           /\ \A i \in DOMAIN ms : \A k \in DOMAIN ms[i].calls :
                 /\ i \in Nat /\ k \in Nat /\ k >= 1 /\ k <= Len(ms)
                 /\ ms[i].calls[k] \in Calls
           /\ \A p : p \in Places(ms) <=>
                 \E i \in DOMAIN ms : \E k \in DOMAIN ms[i].calls : p = <<i, k>>
  <1>1. ms \in Seq(Messages) /\ Paired(ms)
    BY DEF Sent
  <1>2. DOMAIN ms = 1 .. Len(ms) /\ Len(ms) \in Nat /\ \A i \in DOMAIN ms : ms[i] \in Messages
    BY <1>1, LenProperties, ElementOfSeq
  <1>3. ASSUME NEW i \in DOMAIN ms, NEW k \in DOMAIN ms[i].calls
        PROVE  /\ i \in Nat /\ k \in Nat /\ k >= 1 /\ k <= Len(ms)
               /\ ms[i].calls[k] \in Calls
    <2>1. ms[i] \in Messages
      BY <1>2
    <2>2. /\ ms[i].calls \in Seq(Calls) /\ Len(ms[i].calls) \in Nat
          /\ DOMAIN ms[i].calls = 1 .. Len(ms[i].calls)
      BY <2>1, MessageIs
    <2>3. i + k \in 1 .. Len(ms)
      BY <1>1, <1>2 DEF Paired
    <2>4. k \in Nat /\ k >= 1 /\ i \in Nat
      BY <1>2, <2>2
    <2>5. ms[i].calls[k] \in Calls
      BY <2>2, ElementOfSeq
    <2> QED
      BY <1>2, <2>3, <2>4, <2>5
  <1>4. \A p : p \in Places(ms) <=>
                 \E i \in DOMAIN ms : \E k \in DOMAIN ms[i].calls : p = <<i, k>>
    BY DEF Places
  <1> QED
    BY <1>2, <1>3, <1>4

\* With ids of their own, a result's id names its call's tool.
LEMMA CallIs ==
    ASSUME IInv, ServerIds, NEW ms, Sent(ms), NEW i \in DOMAIN ms, ms[i].role = "tool",
           NEW P \in SUBSET Places(ms), P # {}, \A p \in P : ms[p[1]].calls[p[2]].id = ms[i].answers
    PROVE  ms[Latest(P)[1]].calls[Latest(P)[2]] = ms[i].of
  <1> DEFINE all == Places(ms)
             last == Latest(P)
             n == Len(ms)
  <1>1. /\ DOMAIN ms = 1 .. n /\ n \in Nat
        /\ \A a \in DOMAIN ms : \A k \in DOMAIN ms[a].calls :
                 a \in Nat /\ k \in Nat /\ k >= 1 /\ k <= n
        /\ \A p : p \in all <=> \E a \in DOMAIN ms : \E k \in DOMAIN ms[a].calls : p = <<a, k>>
    BY PlacesAre
  <1> HIDE DEF all
  <1>2. \A p \in P : p \in (0 .. n) \X (0 .. n)
    <2> TAKE p \in P
    <2>0. p \in all
      BY DEF all
    <2>1. PICK a \in DOMAIN ms : \E k \in DOMAIN ms[a].calls : p = <<a, k>>
      BY <1>1, <2>0
    <2>2. PICK k \in DOMAIN ms[a].calls : p = <<a, k>>
      BY <2>1
    <2>3. a \in 0 .. n /\ k \in 0 .. n
      BY <1>1
    <2> QED
      BY <2>2, <2>3
  <1>3. last \in P
    <2> HIDE DEF n
    <2> QED
      BY <1>1, <1>2, LatestIs
  <1> HIDE DEF last
  <1>4. PICK a \in DOMAIN ms : \E k \in DOMAIN ms[a].calls : last = <<a, k>>
    BY <1>1, <1>3 DEF all
  <1>5. PICK k \in DOMAIN ms[a].calls : last = <<a, k>>
    BY <1>4
  <1>6. ms[a].calls[k].id = ms[i].answers
    BY <1>3, <1>5
  <1>7. PICK q \in 1 .. (i - 1) : (i - q) \in DOMAIN ms[q].calls /\ ms[i].of = ms[q].calls[i - q]
    BY DEF Sent, Paired
  <1>8. q \in DOMAIN ms /\ ms[i].answers = ms[i].of.id
    BY <1>1, <1>7 DEF Sent, Proper
  <1> DEFINE x == ms[a].calls[k]
             y == ms[q].calls[i - q]
  <1>9. x = y
    <2>1. Said(x) /\ Said(y)
      BY <1>7, <1>8 DEF Sent
    <2>2. PICK b \in DOMAIN history : \E l \in DOMAIN history[b].calls : x = history[b].calls[l]
      BY <2>1 DEF Said
    <2>3. PICK l \in DOMAIN history[b].calls : x = history[b].calls[l]
      BY <2>2
    <2>4. PICK c \in DOMAIN history : \E m \in DOMAIN history[c].calls : y = history[c].calls[m]
      BY <2>1 DEF Said
    <2>5. PICK m \in DOMAIN history[c].calls : y = history[c].calls[m]
      BY <2>4
    <2>6. x.id = <<b - 1, l>> /\ y.id = <<c - 1, m>>
      BY <2>3, <2>5 DEF IInv, Placed
    <2>7. x.id = y.id
      BY <1>6, <1>7, <1>8
    <2>8. b \in Nat /\ c \in Nat
      <3>1. history \in Seq(Messages)
        BY DEF IInv
      <3>2. DOMAIN history = 1 .. Len(history) /\ Len(history) \in Nat
        BY <3>1, LenProperties
      <3> QED
        BY <3>2
    <2> HIDE DEF x, y
    <2>9. b = c /\ l = m
      BY <2>6, <2>7, <2>8
    <2> QED
      BY <2>3, <2>5, <2>9
  <1> QED
    BY <1>5, <1>7, <1>9 DEF last

LEMMA NamesAre ==
    ASSUME IInv, ServerIds, NEW ms, Sent(ms), NEW i \in DOMAIN ms, ms[i].role = "tool"
    PROVE  ToolName(ms, ms[i]) = ms[i].of.name
  <1> DEFINE all == Places(ms)
             P == {p \in all : ms[p[1]].calls[p[2]].id = ms[i].answers}
             last == Latest(P)
  <1>1. PICK q \in 1 .. (i - 1) : (i - q) \in DOMAIN ms[q].calls /\ ms[i].of = ms[q].calls[i - q]
    BY DEF Sent, Paired
  <1>2. q \in DOMAIN ms /\ ms[i].answers = ms[i].of.id
    BY <1>1, PlacesAre DEF Sent, Proper
  <1>3. <<q, i - q>> \in P
    <2>1. <<q, i - q>> \in all
      BY <1>1, <1>2, PlacesAre
    <2> QED
      BY <1>1, <1>2, <2>1
  <1>4. ms[last[1]].calls[last[2]] = ms[i].of
    <2>1. P \in SUBSET Places(ms) /\ P # {} /\ \A p \in P : ms[p[1]].calls[p[2]].id = ms[i].answers
      BY <1>3
    <2> HIDE DEF P
    <2> QED
      BY <2>1, CallIs
  <1>5. ToolName(ms, ms[i]) = IF P = {} THEN Nobody ELSE ms[last[1]].calls[last[2]].name
    BY DEF ToolName, Places
  <1>6. P # {}
    BY <1>3
  <1> HIDE DEF P, last
  <1> QED
    BY <1>4, <1>5, <1>6

\* What a result is signed with is the very call it answers.
LEMMA SignatureIs ==
    ASSUME IInv, ServerIds, NEW ms, Sent(ms), NEW i \in DOMAIN ms, Signature(ms, ms[i]) # Nobody
    PROVE  ms[i].role = "tool" /\ Signature(ms, ms[i]) = <<ms[i].of.name, ms[i].of.arg>>
  <1> DEFINE P == ReadCalls(ms, ms[i].answers)
             last == Latest(P)
  <1>1. Signature(ms, ms[i]) = IF ms[i].role # "tool" \/ P = {} THEN Nobody
                               ELSE <<ms[last[1]].calls[last[2]].name, ms[last[1]].calls[last[2]].arg>>
    BY DEF Signature
  <1>2. P \in SUBSET Places(ms) /\ \A p \in P : ms[p[1]].calls[p[2]].id = ms[i].answers
    BY DEF ReadCalls, Places
  <1> HIDE DEF P
  <1>3. ms[i].role = "tool" /\ P # {}
    BY <1>1
  <1>4. ms[last[1]].calls[last[2]] = ms[i].of
    BY <1>2, <1>3, CallIs
  <1> QED
    BY <1>1, <1>3, <1>4

LEMMA OpenAiTrue ==
    ASSUME IInv, NEW ms, Sent(ms)
    PROVE  LET sent == OpenAiMessages(ms)
           IN  \A i \in DOMAIN sent :
             /\ \A k \in DOMAIN sent[i].uses :
                    i + k \in DOMAIN sent /\ sent[i + k].answers = sent[i].uses[k]
             /\ sent[i].answers # Nobody =>
                    /\ \E k \in 1 .. (i - 1) :
                        k \in DOMAIN sent[i - k].uses /\ sent[i - k].uses[k] = sent[i].answers
                    /\ ServerIds => ToolName(ms, ms[i]) = ms[i].of.name
  <1> DEFINE sent == OpenAiMessages(ms)
  <1>1. /\ DOMAIN sent = DOMAIN ms
        /\ \A i \in DOMAIN ms : /\ DOMAIN sent[i].uses = DOMAIN ms[i].calls
                                /\ \A k \in DOMAIN ms[i].calls : sent[i].uses[k] = ms[i].calls[k].id
                                /\ sent[i].answers = ms[i].answers
    BY DEF OpenAiMessages, OutMessage
  <1>2. DOMAIN ms = 1 .. Len(ms) /\ Len(ms) \in Nat
    BY PlacesAre
  <1>3. \A i \in DOMAIN ms : Proper(ms[i])
    BY DEF Sent
  <1> HIDE DEF sent
  <1>4. ASSUME NEW i \in DOMAIN ms, NEW k \in DOMAIN ms[i].calls
        PROVE  i + k \in DOMAIN ms /\ ms[i + k].answers = ms[i].calls[k].id
    <2>1. i + k \in DOMAIN ms /\ ms[i + k].role = "tool" /\ ms[i + k].of = ms[i].calls[k]
      BY DEF Sent, Paired
    <2> QED
      BY <1>3, <2>1 DEF Proper
  <1>5. ASSUME NEW i \in DOMAIN ms, ms[i].answers # Nobody
        PROVE  /\ \E k \in 1 .. (i - 1) :
                     /\ i - k \in DOMAIN ms /\ k \in DOMAIN ms[i - k].calls
                     /\ ms[i - k].calls[k].id = ms[i].answers
               /\ ms[i].role = "tool"
    <2>1. ms[i].role = "tool" /\ ms[i].answers = ms[i].of.id
      BY <1>3, <1>5 DEF Proper
    <2>2. PICK p \in 1 .. (i - 1) : (i - p) \in DOMAIN ms[p].calls /\ ms[i].of = ms[p].calls[i - p]
      BY <2>1 DEF Sent, Paired
    <2>3. i - p \in 1 .. (i - 1) /\ i - (i - p) = p /\ p \in DOMAIN ms
      BY <1>2
    <2> QED
      BY <2>1, <2>2, <2>3
  <1>6. ASSUME NEW i \in DOMAIN ms, NEW k \in 1 .. (i - 1), i - k \in DOMAIN ms,
               k \in DOMAIN ms[i - k].calls, ms[i - k].calls[k].id = ms[i].answers
        PROVE  k \in DOMAIN sent[i - k].uses /\ sent[i - k].uses[k] = sent[i].answers
    BY <1>1, <1>6
  <1>7. \A i \in DOMAIN ms : \A k \in DOMAIN ms[i].calls :
           i + k \in DOMAIN sent /\ sent[i + k].answers = sent[i].uses[k]
    BY <1>1, <1>4
  <1>8. ASSUME NEW i \in DOMAIN ms, ms[i].answers # Nobody
        PROVE  /\ \E k \in 1 .. (i - 1) :
                        k \in DOMAIN sent[i - k].uses /\ sent[i - k].uses[k] = sent[i].answers
               /\ ServerIds => ToolName(ms, ms[i]) = ms[i].of.name
    BY <1>5, <1>6, <1>8, NamesAre
  <1>9. ASSUME NEW i \in DOMAIN sent
        PROVE  /\ \A k \in DOMAIN sent[i].uses :
                    i + k \in DOMAIN sent /\ sent[i + k].answers = sent[i].uses[k]
               /\ sent[i].answers # Nobody =>
                    /\ \E k \in 1 .. (i - 1) :
                        k \in DOMAIN sent[i - k].uses /\ sent[i - k].uses[k] = sent[i].answers
                    /\ ServerIds => ToolName(ms, ms[i]) = ms[i].of.name
    BY <1>1, <1>7, <1>8
  <1> QED
    BY <1>9 DEF sent

-----------------------------------------------------------------------------
(* On Anthropic's wire.                                                      *)

Parts == [kind : {"text", "use", "result"}, id : Ids \union {Nobody}]
Outs == [role : {"user", "assistant"}, blocks : Seq(Parts)]

\* The ids of a message's calls, and of what it answers.
Uses(m) == {m.calls[k].id : k \in DOMAIN m.calls}
Results(m) == IF m.role = "tool" THEN {m.answers} ELSE {}

LEMMA IdsJoin ==
    ASSUME NEW u \in Seq(Parts), NEW v \in Seq(Parts), NEW kind
    PROVE  IdsOf(u \o v, kind) = IdsOf(u, kind) \union IdsOf(v, kind)
  <1> DEFINE w == u \o v
             m == Len(u)
             n == Len(v)
  <1>1. /\ m \in Nat /\ n \in Nat /\ DOMAIN u = 1 .. m /\ DOMAIN v = 1 .. n /\ DOMAIN w = 1 .. (m + n)
        /\ \A i \in 1 .. m : w[i] = u[i]
        /\ \A i \in 1 .. n : w[m + i] = v[i]
        /\ \A i \in 1 .. (m + n) : i <= m \/ i - m \in 1 .. n
    BY JoinIs
  <1>2. /\ \A x : x \in IdsOf(w, kind) <=> \E k \in DOMAIN w : w[k].kind = kind /\ w[k].id = x
        /\ \A x : x \in IdsOf(u, kind) <=> \E k \in DOMAIN u : u[k].kind = kind /\ u[k].id = x
        /\ \A x : x \in IdsOf(v, kind) <=> \E k \in DOMAIN v : v[k].kind = kind /\ v[k].id = x
    <2> HIDE DEF w
    <2> QED BY DEF IdsOf
  <1> HIDE DEF w, m, n
  <1>3. ASSUME NEW x, x \in IdsOf(w, kind)
        PROVE  x \in IdsOf(u, kind) \/ x \in IdsOf(v, kind)
    <2>1. PICK k \in DOMAIN w : w[k].kind = kind /\ w[k].id = x
      BY <1>2, <1>3
    <2>2. CASE k <= m
      <3>1. k \in DOMAIN u /\ w[k] = u[k]
        BY <1>1, <2>2
      <3> QED
        BY <1>2, <2>1, <3>1
    <2>3. CASE k - m \in 1 .. n
      <3>1. m + (k - m) = k
        BY <1>1
      <3>2. k - m \in DOMAIN v /\ w[k] = v[k - m]
        BY <1>1, <2>3, <3>1
      <3> QED
        BY <1>2, <2>1, <3>2
    <2> QED
      BY <1>1, <2>2, <2>3
  <1>4. ASSUME NEW x, x \in IdsOf(u, kind)
        PROVE  x \in IdsOf(w, kind)
    <2>1. PICK k \in DOMAIN u : u[k].kind = kind /\ u[k].id = x
      BY <1>2, <1>4
    <2>2. k \in DOMAIN w /\ w[k] = u[k]
      BY <1>1
    <2> QED
      BY <1>2, <2>1, <2>2
  <1>5. ASSUME NEW x, x \in IdsOf(v, kind)
        PROVE  x \in IdsOf(w, kind)
    <2>1. PICK k \in DOMAIN v : v[k].kind = kind /\ v[k].id = x
      BY <1>2, <1>5
    <2>2. m + k \in DOMAIN w /\ w[m + k] = v[k]
      BY <1>1
    <2> QED
      BY <1>2, <2>1, <2>2
  <1>6. IdsOf(w, kind) = IdsOf(u, kind) \union IdsOf(v, kind)
    BY <1>3, <1>4, <1>5
  <1> QED
    BY <1>6 DEF w

LEMMA BlocksAre ==
    ASSUME NEW m \in Messages, Proper(m)
    PROVE  /\ Blocks(m) \in Seq(Parts)
           /\ IdsOf(Blocks(m), "use") = Uses(m) /\ IdsOf(Blocks(m), "result") = Results(m)
           /\ (Blocks(m) = <<>>) = (m.kind = "silent")
           /\ m.role # "assistant" => Uses(m) = {}
           /\ m.kind = "silent" => Uses(m) = {}
           /\ m.role \in {"system", "user", "assistant", "tool"}
           /\ RoleOnWire(m) = (IF m.role = "assistant" THEN "assistant" ELSE "user")
  <1> DEFINE n == Len(m.calls)
             t == IF m.role = "tool" \/ m.kind = "silent" THEN <<>> ELSE <<[kind |-> "text", id |-> Nobody]>>
             u == [k \in DOMAIN m.calls |-> [kind |-> "use", id |-> m.calls[k].id]]
             r == IF m.role = "tool" THEN <<[kind |-> "result", id |-> m.answers]>> ELSE <<>>
  <1>1. /\ m.calls \in Seq(Calls) /\ n \in Nat /\ DOMAIN m.calls = 1 .. n
        /\ m.role \in {"system", "user", "assistant", "tool"} /\ m.kind \in Kinds
        /\ m.answers \in Ids \union {Nobody}
        /\ m.calls # <<>> => 1 \in DOMAIN m.calls
        /\ m.calls = <<>> => DOMAIN m.calls = {}
    BY MessageIs
  <1>2. \A k \in 1 .. n : m.calls[k] \in Calls /\ m.calls[k].id \in Ids
    <2> TAKE k \in 1 .. n
    <2>1. m.calls[k] \in Calls
      BY <1>1, ElementOfSeq
    <2> QED
      BY <2>1 DEF Calls
  <1>3. /\ m.role # "assistant" => m.calls = <<>>
        /\ m.kind = "silent" => m.calls = <<>> /\ m.role = "assistant"
    BY DEF Proper
  <1>4. Blocks(m) = t \o u \o r
    BY DEF Blocks
  <1>5. t \in Seq(Parts) /\ IdsOf(t, "use") = {} /\ IdsOf(t, "result") = {} /\ Len(t) \in Nat
        /\ (Len(t) = 0 <=> (m.role = "tool" \/ m.kind = "silent"))
    <2>1. CASE m.role = "tool" \/ m.kind = "silent"
      <3>1. t = <<>>
        BY <2>1
      <3> QED
        BY <2>1, <3>1 DEF IdsOf
    <2>2. CASE ~(m.role = "tool" \/ m.kind = "silent")
      <3> DEFINE x == [kind |-> "text", id |-> Nobody]
                 one == <<x>>
      <3>1. t = one
        BY <2>2
      <3>2. x \in Parts /\ x.kind = "text"
        BY DEF Parts
      <3> HIDE DEF x
      <3>3. one \in Seq(Parts) /\ Len(one) = 1 /\ one[1] = x /\ DOMAIN one = {1}
        BY <3>2
      <3> HIDE DEF one
      <3>4. IdsOf(one, "use") = {} /\ IdsOf(one, "result") = {}
        BY <3>2, <3>3 DEF IdsOf
      <3> QED
        BY <2>2, <3>1, <3>3, <3>4
    <2> QED
      BY <2>1, <2>2
  <1>6. r \in Seq(Parts) /\ IdsOf(r, "use") = {} /\ IdsOf(r, "result") = Results(m) /\ Len(r) \in Nat
        /\ (Len(r) = 0 <=> m.role # "tool")
    <2>1. CASE m.role # "tool"
      <3>1. r = <<>> /\ Results(m) = {}
        BY <2>1 DEF Results
      <3> QED
        BY <2>1, <3>1 DEF IdsOf
    <2>2. CASE m.role = "tool"
      <3> DEFINE x == [kind |-> "result", id |-> m.answers]
                 one == <<x>>
      <3>1. r = one /\ Results(m) = {m.answers}
        BY <2>2 DEF Results
      <3>2. x \in Parts /\ x.kind = "result" /\ x.id = m.answers
        BY <1>1 DEF Parts
      <3> HIDE DEF x
      <3>3. one \in Seq(Parts) /\ Len(one) = 1 /\ one[1] = x /\ DOMAIN one = {1}
        BY <3>2
      <3> HIDE DEF one
      <3>4. IdsOf(one, "use") = {} /\ IdsOf(one, "result") = {m.answers}
        BY <3>2, <3>3 DEF IdsOf
      <3> QED
        BY <2>2, <3>1, <3>3, <3>4, SMTT(30)
    <2> QED
      BY <2>1, <2>2
  <1>7. u \in Seq(Parts) /\ IdsOf(u, "use") = Uses(m) /\ IdsOf(u, "result") = {} /\ Len(u) = n
    <2>1. u \in [1 .. n -> Parts] /\ DOMAIN u = 1 .. n
      <3>1. \A k \in 1 .. n : [kind |-> "use", id |-> m.calls[k].id] \in Parts
        BY <1>2 DEF Parts
      <3> QED
        BY <1>1, <3>1
    <2>2. \A k \in 1 .. n : u[k].kind = "use" /\ u[k].id = m.calls[k].id
      BY <1>1
    <2> HIDE DEF u
    <2>3. u \in Seq(Parts) /\ Len(u) = n
      BY <1>1, <2>1
    <2>4. IdsOf(u, "result") = {}
      BY <2>1, <2>2 DEF IdsOf
    <2>5. IdsOf(u, "use") = Uses(m)
      <3>1. {j \in DOMAIN u : u[j].kind = "use"} = 1 .. n
        BY <2>1, <2>2
      <3>2. IdsOf(u, "use") = {u[k].id : k \in 1 .. n}
        BY <3>1 DEF IdsOf
      <3> QED
        BY <1>1, <2>2, <3>2 DEF Uses
    <2> QED
      BY <2>3, <2>4, <2>5
  <1> HIDE DEF t, u, r
  <1>8. /\ t \o u \in Seq(Parts) /\ Len(t \o u) = Len(t) + n
        /\ \A kind : IdsOf(t \o u, kind) = IdsOf(t, kind) \union IdsOf(u, kind)
    <2>1. t \in Seq(Parts) /\ u \in Seq(Parts) /\ Len(u) = n
      BY <1>5, <1>7
    <2> HIDE DEF n
    <2> QED
      BY <2>1, JoinIs, IdsJoin
  <1> DEFINE tu == t \o u
  <1> HIDE DEF tu
  <1>9. /\ tu \o r \in Seq(Parts) /\ Len(tu \o r) = Len(tu) + Len(r)
        /\ \A kind : IdsOf(tu \o r, kind) = IdsOf(tu, kind) \union IdsOf(r, kind)
    <2>1. tu \in Seq(Parts) /\ r \in Seq(Parts)
      BY <1>6, <1>8 DEF tu
    <2> QED
      BY <2>1, JoinIs, IdsJoin
  <1>10. Blocks(m) = tu \o r
    BY <1>4 DEF tu
  <1>11. /\ Blocks(m) \in Seq(Parts) /\ Len(Blocks(m)) = Len(t) + n + Len(r)
         /\ IdsOf(Blocks(m), "use") = Uses(m) /\ IdsOf(Blocks(m), "result") = Results(m)
    BY <1>5, <1>6, <1>7, <1>8, <1>9, <1>10, ZenonT(60) DEF tu
  <1>12. (Blocks(m) = <<>>) = (Len(Blocks(m)) = 0)
    BY <1>11, EmptySeq
  <1>13. (Len(Blocks(m)) = 0) = (m.kind = "silent")
    <2>1. m.kind = "silent" => n = 0
      BY <1>1, <1>3
    <2> QED
      BY <1>1, <1>3, <1>5, <1>6, <1>11, <2>1
  <1>14. m.calls = <<>> => Uses(m) = {}
    BY <1>1 DEF Uses
  <1> QED
    BY <1>1, <1>3, <1>11, <1>12, <1>13, <1>14 DEF RoleOnWire
-----------------------------------------------------------------------------

\* The ids of calls up to a message that are to be answered after it.
Owed(ms, i) == {x \in UNION {Uses(ms[p]) : p \in DOMAIN ms} :
                   \E p \in 1 .. i : \E k \in DOMAIN ms[p].calls : p + k > i /\ x = ms[p].calls[k].id}

LEMMA OwedIs ==
    ASSUME NEW ms, NEW i, 1 .. i \subseteq DOMAIN ms
    PROVE  \A x : x \in Owed(ms, i) <=>
               \E p \in 1 .. i : \E k \in DOMAIN ms[p].calls : p + k > i /\ x = ms[p].calls[k].id
  BY DEF Owed, Uses

LEMMA OwedTool ==
    ASSUME NEW ms, Sent(ms), NEW i \in DOMAIN ms, ms[i].role = "tool"
    PROVE  Owed(ms, i - 1) = Owed(ms, i) \union {ms[i].answers} /\ Uses(ms[i]) = {}
  <1>1. /\ DOMAIN ms = 1 .. Len(ms) /\ Len(ms) \in Nat
        /\ \A p \in DOMAIN ms : \A k \in DOMAIN ms[p].calls : k \in Nat /\ k >= 1
    BY PlacesAre
  <1>2. Proper(ms[i]) /\ Paired(ms) /\ DOMAIN ms[i].calls = {}
    <2>1. ms[i] \in Messages
      BY PlacesAre
    <2> QED
      BY <2>1, MessageIs DEF Sent, Proper
  <1>3. 1 .. i \subseteq DOMAIN ms /\ 1 .. (i - 1) \subseteq DOMAIN ms /\ i \in Nat
    BY <1>1
  <1>4. \A x : x \in Owed(ms, i) <=>
               \E p \in 1 .. i : \E k \in DOMAIN ms[p].calls : p + k > i /\ x = ms[p].calls[k].id
    BY <1>3, OwedIs
  <1> DEFINE j == i - 1
  <1>5. \A x : x \in Owed(ms, j) <=>
               \E p \in 1 .. j : \E k \in DOMAIN ms[p].calls : p + k > j /\ x = ms[p].calls[k].id
    <2>1. 1 .. j \subseteq DOMAIN ms
      BY <1>3
    <2> HIDE DEF j
    <2> QED
      BY <2>1, OwedIs
  <1>6. ASSUME NEW x, x \in Owed(ms, j)
        PROVE  x \in Owed(ms, i) \/ x = ms[i].answers
    <2>1. PICK p \in 1 .. j : \E k \in DOMAIN ms[p].calls : p + k > j /\ x = ms[p].calls[k].id
      BY <1>5, <1>6
    <2>2. PICK k \in DOMAIN ms[p].calls : p + k > j /\ x = ms[p].calls[k].id
      BY <2>1
    <2>3. p \in DOMAIN ms /\ p \in 1 .. i /\ k \in Nat
      BY <1>1, <1>3
    <2>4. CASE p + k = i
      <3>1. ms[i].of = ms[p].calls[k]
        BY <1>2, <2>3, <2>4 DEF Paired
      <3> QED
        BY <1>2, <2>2, <3>1 DEF Proper
    <2>5. CASE p + k > i
      BY <1>4, <2>2, <2>3, <2>5
    <2> QED
      BY <1>3, <2>2, <2>3, <2>4, <2>5
  <1>7. ASSUME NEW x, x \in Owed(ms, i)
        PROVE  x \in Owed(ms, j)
    <2>1. PICK p \in 1 .. i : \E k \in DOMAIN ms[p].calls : p + k > i /\ x = ms[p].calls[k].id
      BY <1>4, <1>7
    <2>2. PICK k \in DOMAIN ms[p].calls : p + k > i /\ x = ms[p].calls[k].id
      BY <2>1
    <2>3. p # i /\ p \in DOMAIN ms
      BY <1>2, <1>3
    <2>4. p \in 1 .. j /\ p + k > j
      BY <1>1, <1>3, <2>2, <2>3
    <2> QED
      BY <1>5, <2>2, <2>4
  <1>8. ms[i].answers \in Owed(ms, j)
    <2>1. PICK p \in 1 .. (i - 1) : (i - p) \in DOMAIN ms[p].calls /\ ms[i].of = ms[p].calls[i - p]
      BY <1>2 DEF Paired
    <2>2. p + (i - p) > j /\ ms[i].answers = ms[p].calls[i - p].id
      BY <1>2, <1>3, <2>1 DEF Proper
    <2> QED
      BY <1>5, <2>1, <2>2
  <1>9. Uses(ms[i]) = {}
    BY <1>2 DEF Uses
  <1> HIDE DEF j
  <1>10. Owed(ms, j) = Owed(ms, i) \union {ms[i].answers}
    BY <1>6, <1>7, <1>8
  <1> QED
    BY <1>9, <1>10 DEF j

LEMMA OwedOther ==
    ASSUME NEW ms, Sent(ms), NEW i \in DOMAIN ms, ms[i].role # "tool"
    PROVE  Owed(ms, i - 1) = {} /\ Owed(ms, i) = Uses(ms[i])
  <1>1. /\ DOMAIN ms = 1 .. Len(ms) /\ Len(ms) \in Nat
        /\ \A p \in DOMAIN ms : \A k \in DOMAIN ms[p].calls : k \in Nat /\ k >= 1
    BY PlacesAre
  <1>2. Paired(ms)
    BY DEF Sent
  <1>3. 1 .. i \subseteq DOMAIN ms /\ 1 .. (i - 1) \subseteq DOMAIN ms /\ i \in Nat /\ i \in 1 .. i
    BY <1>1
  <1>4. \A x : x \in Owed(ms, i) <=>
               \E p \in 1 .. i : \E k \in DOMAIN ms[p].calls : p + k > i /\ x = ms[p].calls[k].id
    BY <1>3, OwedIs
  <1> DEFINE j == i - 1
  <1>5. \A x : x \in Owed(ms, j) <=>
               \E p \in 1 .. j : \E k \in DOMAIN ms[p].calls : p + k > j /\ x = ms[p].calls[k].id
    <2>1. 1 .. j \subseteq DOMAIN ms
      BY <1>3
    <2> HIDE DEF j
    <2> QED
      BY <2>1, OwedIs
  <1>6. ASSUME NEW p \in 1 .. j, NEW k \in DOMAIN ms[p].calls
        PROVE  ~(p + k > j)
    <2> SUFFICES ASSUME p + k > j PROVE FALSE
      OBVIOUS
    <2>1. p \in DOMAIN ms /\ ms[p] \in Messages
      BY <1>3, PlacesAre
    <2>2. Len(ms[p].calls) \in Nat /\ DOMAIN ms[p].calls = 1 .. Len(ms[p].calls)
      BY <2>1, MessageIs
    <2>3. i - p \in DOMAIN ms[p].calls /\ p + (i - p) = i
      BY <1>3, <2>2
    <2>4. ms[p + (i - p)].role = "tool"
      BY <1>2, <2>1, <2>3 DEF Paired
    <2> QED
      BY <2>3, <2>4
  <1>7. Owed(ms, j) = {}
    BY <1>5, <1>6
  <1>8. ASSUME NEW p \in 1 .. i, NEW k \in DOMAIN ms[p].calls, p + k > i
        PROVE  p = i
    <2> SUFFICES ASSUME p # i PROVE FALSE
      OBVIOUS
    <2>1. p \in 1 .. j /\ p \in DOMAIN ms
      BY <1>3
    <2>2. k \in Nat
      BY <1>1, <2>1
    <2>3. p + k > j
      BY <1>3, <1>8, <2>2
    <2> QED
      BY <1>6, <2>1, <2>3
  <1>9. \A k \in DOMAIN ms[i].calls : i + k > i
    BY <1>1, <1>3
  <1>10. \A x : x \in Owed(ms, i) <=> \E k \in DOMAIN ms[i].calls : x = ms[i].calls[k].id
    BY <1>3, <1>4, <1>8, <1>9
  <1>11. Owed(ms, i) = Uses(ms[i])
    BY <1>10 DEF Uses
  <1> QED
    BY <1>7, <1>11 DEF j
LEMMA Parity ==
    ASSUME NEW n \in Nat
    PROVE  /\ n % 2 = 1 => (n + 1) % 2 # 1
           /\ n % 2 # 1 => (n + 1) % 2 = 1 /\ n # 1
           /\ n = 0 => n % 2 # 1
  OBVIOUS
\* The first i messages on the wire: user and assistant in turn, and each call with
\* its result in the next message, but for those that are still owed.
Lowered(out, ms, i) ==
    /\ out \in Seq(Outs)
    /\ \A j \in DOMAIN out :
          /\ out[j].role = (IF j % 2 = 1 THEN "user" ELSE "assistant")
          /\ out[j].role = "user" => IdsOf(out[j].blocks, "use") = {}
          /\ out[j].role = "assistant" => IdsOf(out[j].blocks, "result") = {}
          /\ j = 1 => IdsOf(out[j].blocks, "result") = {}
          /\ out[j].role = "assistant" =>
                IdsOf(out[j].blocks, "use") =
                   (IF j < Len(out) THEN IdsOf(out[j + 1].blocks, "result") ELSE {})
                     \union (IF j >= Len(out) - 1 THEN Owed(ms, i) ELSE {})
    /\ Owed(ms, i) # {} => Len(out) >= 2
    /\ (\E j \in 1 .. i : ms[j].role = "user") => Len(out) > 0

LEMMA LoweredIs ==
    ASSUME NEW out, NEW ms, NEW i, Lowered(out, ms, i)
    PROVE  /\ out \in Seq(Outs) /\ Len(out) \in Nat /\ DOMAIN out = 1 .. Len(out)
           /\ \A j \in 1 .. Len(out) : out[j] \in Outs /\ out[j].blocks \in Seq(Parts)
           /\ out # <<>> => Len(out) > 0
  <1>1. out \in Seq(Outs)
    BY DEF Lowered
  <1>2. Len(out) \in Nat /\ DOMAIN out = 1 .. Len(out)
    BY <1>1, LenProperties
  <1>3. \A j \in 1 .. Len(out) : out[j] \in Outs
    BY <1>1, ElementOfSeq
  <1>4. \A j \in 1 .. Len(out) : out[j].blocks \in Seq(Parts)
    BY <1>3 DEF Outs
  <1>5. out # <<>> => Len(out) > 0
    BY <1>1, EmptySeq
  <1> QED
    BY <1>1, <1>2, <1>3, <1>4, <1>5

\* What a message changes of what is owed.
LEMMA OwedThen ==
    ASSUME NEW ms, Sent(ms), NEW i \in DOMAIN ms
    PROVE  /\ ms[i] \in Messages /\ Proper(ms[i]) /\ i \in Nat /\ i > 0
           /\ RoleOnWire(ms[i]) = "user" =>
                 /\ Uses(ms[i]) = {} /\ Owed(ms, i - 1) = Owed(ms, i) \union Results(ms[i])
           /\ RoleOnWire(ms[i]) = "assistant" =>
                 Owed(ms, i - 1) = {} /\ Owed(ms, i) = Uses(ms[i]) /\ Results(ms[i]) = {}
           /\ ms[i].role = "system" \/ Blocks(ms[i]) = <<>> => Owed(ms, i) = Owed(ms, i - 1)
           /\ ms[i].role = "system" \/ Blocks(ms[i]) = <<>> => ms[i].role # "user"
  <1>1. /\ ms[i] \in Messages /\ DOMAIN ms = 1 .. Len(ms) /\ Len(ms) \in Nat
    BY PlacesAre
  <1>2. Proper(ms[i]) /\ i \in Nat /\ i > 0
    BY <1>1 DEF Sent
  <1>3. /\ (Blocks(ms[i]) = <<>>) = (ms[i].kind = "silent")
        /\ ms[i].role # "assistant" => Uses(ms[i]) = {}
        /\ ms[i].kind = "silent" => Uses(ms[i]) = {}
        /\ RoleOnWire(ms[i]) = (IF ms[i].role = "assistant" THEN "assistant" ELSE "user")
    BY <1>1, <1>2, BlocksAre
  <1>4. ms[i].kind = "silent" => ms[i].role = "assistant"
    BY <1>2 DEF Proper
  <1>5. CASE ms[i].role = "tool"
    BY <1>1, <1>2, <1>3, <1>4, <1>5, OwedTool DEF Results
  <1>6. CASE ms[i].role # "tool"
    <2>1. Owed(ms, i - 1) = {} /\ Owed(ms, i) = Uses(ms[i])
      BY <1>6, OwedOther
    <2>2. Results(ms[i]) = {}
      BY <1>6 DEF Results
    <2>3. ms[i].role = "system" \/ Blocks(ms[i]) = <<>> => Uses(ms[i]) = {} /\ ms[i].role # "user"
      BY <1>3, <1>4
    <2>4. RoleOnWire(ms[i]) = "user" => Uses(ms[i]) = {}
      BY <1>3
    <2> QED
      BY <1>1, <1>2, <2>1, <2>2, <2>3, <2>4
  <1> QED
    BY <1>5, <1>6

LEMMA MergeHolds ==
    ASSUME NEW ms, Sent(ms), NEW i \in DOMAIN ms, NEW out, Lowered(out, ms, i - 1), out # <<>>,
           out[Len(out)].role = RoleOnWire(ms[i])
    PROVE  Lowered([out EXCEPT ![Len(out)].blocks = @ \o Blocks(ms[i])], ms, i)
  <1> DEFINE n == Len(out)
             b == Blocks(ms[i])
             e == [out[n] EXCEPT !.blocks = out[n].blocks \o b]
             new == [out EXCEPT ![n].blocks = @ \o b]
             O == Owed(ms, i - 1)
             P == Owed(ms, i)
             U == Uses(ms[i])
             R == Results(ms[i])
             uses(s, j) == IdsOf(s[j].blocks, "use")
             results(s, j) == IdsOf(s[j].blocks, "result")
  <1>1. /\ out \in Seq(Outs) /\ n \in Nat /\ DOMAIN out = 1 .. n /\ n > 0
        /\ \A j \in 1 .. n : out[j] \in Outs /\ out[j].blocks \in Seq(Parts)
    BY LoweredIs
  <1>2. /\ ms[i] \in Messages /\ Proper(ms[i]) /\ i \in Nat /\ i > 0
        /\ RoleOnWire(ms[i]) = "user" => U = {} /\ O = P \union R
        /\ RoleOnWire(ms[i]) = "assistant" => O = {} /\ P = U /\ R = {}
    BY OwedThen
  <1>3. /\ b \in Seq(Parts) /\ IdsOf(b, "use") = U /\ IdsOf(b, "result") = R
        /\ RoleOnWire(ms[i]) = "assistant" \/ RoleOnWire(ms[i]) = "user"
    BY <1>2, BlocksAre
  <1>4. /\ \A j \in 1 .. n :
              /\ out[j].role = (IF j % 2 = 1 THEN "user" ELSE "assistant")
              /\ out[j].role = "user" => uses(out, j) = {}
              /\ out[j].role = "assistant" => results(out, j) = {}
              /\ j = 1 => results(out, j) = {}
              /\ out[j].role = "assistant" =>
                    uses(out, j) = (IF j < n THEN results(out, j + 1) ELSE {})
                                      \union (IF j >= n - 1 THEN O ELSE {})
        /\ O # {} => n >= 2
        /\ (\E j \in 1 .. (i - 1) : ms[j].role = "user") => n > 0
    BY <1>1 DEF Lowered
  <1> HIDE DEF n, b, O, P, U, R
  <1>5. new = [out EXCEPT ![n] = e]
    BY <1>1
  <1>6. n \in 1 .. n /\ out[n].blocks \in Seq(Parts) /\ out[n] \in Outs
    BY <1>1
  <1> DEFINE ob == out[n].blocks
  <1>7. /\ ob \o b \in Seq(Parts)
        /\ IdsOf(ob \o b, "use") = IdsOf(ob, "use") \union U
        /\ IdsOf(ob \o b, "result") = IdsOf(ob, "result") \union R
    <2>1. ob \in Seq(Parts)
      BY <1>6
    <2> HIDE DEF ob
    <2>2. ob \o b \in Seq(Parts)
      BY <1>3, <2>1, JoinIs
    <2>3. /\ IdsOf(ob \o b, "use") = IdsOf(ob, "use") \union IdsOf(b, "use")
          /\ IdsOf(ob \o b, "result") = IdsOf(ob, "result") \union IdsOf(b, "result")
      BY <1>3, <2>1, IdsJoin
    <2> QED
      BY <1>3, <2>2, <2>3
  <1>8. e \in Outs /\ e.role = out[n].role /\ IdsOf(e.blocks, "use") = uses(out, n) \union U
        /\ IdsOf(e.blocks, "result") = results(out, n) \union R
    <2> DEFINE x == ob \o b
    <2>1. e = [out[n] EXCEPT !.blocks = x] /\ x \in Seq(Parts)
          /\ IdsOf(x, "use") = uses(out, n) \union U
          /\ IdsOf(x, "result") = results(out, n) \union R
      BY <1>7
    <2> HIDE DEF x, e
    <2>2. e \in Outs /\ e.role = out[n].role /\ e.blocks = x
      BY <1>6, <2>1 DEF Outs
    <2> QED
      BY <2>1, <2>2
  <1> HIDE DEF e, new
  <1>9. new \in Seq(Outs) /\ Len(new) = n /\ \A j \in 1 .. n : new[j] = IF j = n THEN e ELSE out[j]
    BY <1>1, <1>5, <1>6, <1>8, ExceptSeq DEF n
  <1>10. DOMAIN new = 1 .. n
    BY <1>9, LenProperties
  <1>11. \A j \in 1 .. n : /\ new[j].role = out[j].role
                           /\ uses(new, j) = uses(out, j) \union (IF j = n THEN U ELSE {})
                           /\ results(new, j) = results(out, j) \union (IF j = n THEN R ELSE {})
    <2> TAKE j \in 1 .. n
    <2>1. CASE j = n
      BY <1>8, <1>9, <2>1
    <2>2. CASE j # n
      BY <1>9, <2>2
    <2> QED
      BY <2>1, <2>2
  <1> HIDE DEF uses, results
  <1>12. out[n].role = RoleOnWire(ms[i])
    BY DEF n
  <1>13. out[n].role = "assistant" => n >= 2
    <2>1. out[n].role = (IF n % 2 = 1 THEN "user" ELSE "assistant")
      BY <1>4, <1>6
    <2>2. 1 % 2 = 1
      OBVIOUS
    <2> QED
      BY <1>1, <2>1, <2>2
  <1>14. P # {} => n >= 2
    <2>1. CASE out[n].role = "user"
      BY <1>2, <1>4, <1>12, <2>1
    <2>2. CASE out[n].role = "assistant"
      BY <1>13, <2>2
    <2> QED
      BY <1>3, <1>12, <2>1, <2>2
  <1>15. R # {} => n >= 2 /\ out[n].role = "user"
    BY <1>2, <1>3, <1>4, <1>12
  <1>16. \A j \in 1 .. n :
              /\ new[j].role = (IF j % 2 = 1 THEN "user" ELSE "assistant")
              /\ new[j].role = "user" => uses(new, j) = {}
              /\ new[j].role = "assistant" => results(new, j) = {}
              /\ j = 1 => results(new, j) = {}
    <2> TAKE j \in 1 .. n
    <2>1. new[j].role = "user" => uses(new, j) = {}
      BY <1>2, <1>4, <1>11, <1>12
    <2>2. new[j].role = "assistant" => results(new, j) = {}
      BY <1>4, <1>11, <1>15
    <2>3. j = 1 => results(new, j) = {}
      BY <1>1, <1>4, <1>11, <1>15
    <2> QED
      BY <1>4, <1>11, <2>1, <2>2, <2>3
  <1>17. ASSUME NEW j \in 1 .. n, new[j].role = "assistant"
         PROVE  uses(new, j) = (IF j < n THEN results(new, j + 1) ELSE {})
                                      \union (IF j >= n - 1 THEN P ELSE {})
    <2>0. uses(out, j) = (IF j < n THEN results(out, j + 1) ELSE {})
                                      \union (IF j >= n - 1 THEN O ELSE {})
      BY <1>4, <1>11, <1>17
    <2>1. CASE j = n
      <3>3. ~(j < n) /\ j >= n - 1
        BY <1>1, <2>1
      <3>1. uses(out, j) = O /\ uses(new, j) = uses(out, j) \union U
        BY <1>11, <2>0, <2>1, <3>3
      <3>2. O = {} /\ P = U
        BY <1>2, <1>11, <1>12, <1>17, <2>1
      <3> QED
        BY <2>1, <3>1, <3>2, <3>3
    <2>2. CASE j = n - 1
      <3>1. j + 1 = n /\ j # n /\ j < n /\ j >= n - 1
        BY <1>1, <2>2
      <3>2. out[n].role = "user"
        <4>1. out[j].role = (IF j % 2 = 1 THEN "user" ELSE "assistant")
              /\ out[n].role = (IF n % 2 = 1 THEN "user" ELSE "assistant")
          BY <1>4, <1>6
        <4>2. out[j].role = "assistant"
          BY <1>11, <1>17
        <4>3. j % 2 # 1
          BY <4>1, <4>2
        <4>4. (j + 1) % 2 = 1
          BY <4>3, Parity
        <4> QED
          BY <3>1, <4>1, <4>4
      <3>3. uses(out, j) = results(out, n) \union O /\ O = P \union R
        BY <1>2, <1>12, <2>0, <3>1, <3>2
      <3>4. results(new, n) = results(out, n) \union R /\ uses(new, j) = uses(out, j)
        BY <1>6, <1>11, <3>1
      <3> QED
        BY <3>1, <3>3, <3>4
    <2>3. CASE j < n - 1
      <3>1. j + 1 \in 1 .. n /\ j + 1 # n /\ j # n /\ j < n /\ ~(j >= n - 1)
        BY <1>1, <2>3
      <3>2. results(new, j + 1) = results(out, j + 1) /\ uses(new, j) = uses(out, j)
        BY <1>11, <3>1
      <3> QED
        BY <2>0, <3>1, <3>2
    <2> QED
      BY <1>1, <2>1, <2>2, <2>3
  <1> QED
    BY <1>1, <1>9, <1>10, <1>14, <1>16, <1>17, ZenonT(60) DEF Lowered, new, n, b, P, uses, results

LEMMA AppendHolds ==
    ASSUME NEW ms, Sent(ms), NEW i \in DOMAIN ms, NEW out, Lowered(out, ms, i - 1),
           out = <<>> \/ out[Len(out)].role # RoleOnWire(ms[i])
    PROVE  Lowered(Append(out, [role |-> RoleOnWire(ms[i]), blocks |-> Blocks(ms[i])]), ms, i)
  <1> DEFINE n == Len(out)
             b == Blocks(ms[i])
             w == RoleOnWire(ms[i])
             e == [role |-> w, blocks |-> b]
             new == Append(out, e)
             O == Owed(ms, i - 1)
             P == Owed(ms, i)
             U == Uses(ms[i])
             R == Results(ms[i])
             uses(s, j) == IdsOf(s[j].blocks, "use")
             results(s, j) == IdsOf(s[j].blocks, "result")
  <1>1. /\ out \in Seq(Outs) /\ n \in Nat /\ DOMAIN out = 1 .. n
        /\ \A j \in 1 .. n : out[j] \in Outs
        /\ n = 0 \/ n > 0
        /\ n # 0 => out # <<>>
    BY LoweredIs
  <1>2. /\ ms[i] \in Messages /\ Proper(ms[i]) /\ i \in Nat /\ i > 0
        /\ w = "user" => U = {} /\ O = P \union R
        /\ w = "assistant" => O = {} /\ P = U /\ R = {}
    BY OwedThen
  <1>3. /\ b \in Seq(Parts) /\ IdsOf(b, "use") = U /\ IdsOf(b, "result") = R
        /\ w = (IF ms[i].role = "assistant" THEN "assistant" ELSE "user")
    BY <1>2, BlocksAre
  <1>4. /\ \A j \in 1 .. n :
              /\ out[j].role = (IF j % 2 = 1 THEN "user" ELSE "assistant")
              /\ out[j].role = "user" => uses(out, j) = {}
              /\ out[j].role = "assistant" => results(out, j) = {}
              /\ j = 1 => results(out, j) = {}
              /\ out[j].role = "assistant" =>
                    uses(out, j) = (IF j < n THEN results(out, j + 1) ELSE {})
                                      \union (IF j >= n - 1 THEN O ELSE {})
        /\ O # {} => n >= 2
        /\ (\E j \in 1 .. (i - 1) : ms[j].role = "user") => n > 0
    BY <1>1 DEF Lowered
  <1>5. n > 0 => out[n].role # w
    BY <1>1
  <1>6. w = "assistant" => n > 0
    <2>1. w = "assistant" => \E j \in 1 .. (i - 1) : ms[j].role = "user"
      BY <1>3 DEF Sent, Begun
    <2> QED
      BY <1>4, <2>1
  <1> HIDE DEF n, b, O, P, U, R, w
  <1>7. w \in {"user", "assistant"} /\ e \in Outs /\ e.role = w /\ e.blocks = b
    BY <1>3 DEF Outs
  <1> HIDE DEF e
  <1>8. /\ new \in Seq(Outs) /\ Len(new) = n + 1 /\ new[n + 1] = e
        /\ \A j \in 1 .. n : new[j] = out[j]
    BY <1>1, <1>7 DEF n
  <1> HIDE DEF new
  <1>9. DOMAIN new = 1 .. (n + 1)
    BY <1>8, LenProperties
  <1>10. /\ \A j \in 1 .. n : uses(new, j) = uses(out, j) /\ results(new, j) = results(out, j)
         /\ uses(new, n + 1) = U /\ results(new, n + 1) = R
    BY <1>3, <1>7, <1>8
  <1> HIDE DEF uses, results
  <1>11. w = (IF (n + 1) % 2 = 1 THEN "user" ELSE "assistant")
    <2>1. CASE n = 0
      <3>1. (n + 1) % 2 = 1
        BY <2>1
      <3> QED
        BY <1>6, <1>7, <2>1, <3>1
    <2>2. CASE n > 0
      <3>1. out[n].role = (IF n % 2 = 1 THEN "user" ELSE "assistant")
        <4>1. n \in 1 .. n
          BY <1>1, <2>2
        <4> QED
          BY <1>4, <4>1
      <3> QED
        BY <1>1, <1>5, <1>7, <2>2, <3>1, Parity
    <2> QED
      BY <1>1, <2>1, <2>2
  <1>12. P # {} => n + 1 >= 2
    <2>1. CASE w = "user"
      BY <1>1, <1>2, <1>4, <2>1
    <2>2. CASE w = "assistant"
      BY <1>1, <1>6, <2>2
    <2> QED
      BY <1>7, <2>1, <2>2
  <1>13. R # {} => n >= 2 /\ w = "user"
    BY <1>2, <1>4, <1>7
  <1>14. \A j \in 1 .. (n + 1) :
              /\ new[j].role = (IF j % 2 = 1 THEN "user" ELSE "assistant")
              /\ new[j].role = "user" => uses(new, j) = {}
              /\ new[j].role = "assistant" => results(new, j) = {}
              /\ j = 1 => results(new, j) = {}
    <2> TAKE j \in 1 .. (n + 1)
    <2>1. CASE j = n + 1
      <3>1. j = 1 => n = 0
        BY <1>1, <2>1
      <3> QED
        BY <1>1, <1>2, <1>7, <1>8, <1>10, <1>11, <1>13, <2>1, <3>1
    <2>2. CASE j # n + 1
      <3>1. j \in 1 .. n
        BY <1>1, <2>2
      <3> QED
        BY <1>4, <1>8, <1>10, <3>1
    <2> QED
      BY <2>1, <2>2
  <1>15. ASSUME NEW j \in 1 .. (n + 1), new[j].role = "assistant"
         PROVE  uses(new, j) = (IF j < n + 1 THEN results(new, j + 1) ELSE {})
                                      \union (IF j >= (n + 1) - 1 THEN P ELSE {})
    <2>1. CASE j = n + 1
      <3>1. w = "assistant"
        BY <1>7, <1>8, <1>15, <2>1
      <3>2. ~(j < n + 1) /\ j >= (n + 1) - 1
        BY <1>1, <2>1
      <3> QED
        BY <1>2, <1>10, <2>1, <3>1, <3>2
    <2>2. CASE j = n
      <3>1. j \in 1 .. n /\ j < n + 1 /\ j >= (n + 1) - 1 /\ n > 0 /\ ~(j < n) /\ j >= n - 1
        BY <1>1, <2>2
      <3>2. out[j].role = "assistant" /\ w = "user"
        BY <1>5, <1>7, <1>8, <1>15, <2>2, <3>1
      <3>3. uses(out, j) = O /\ O = P \union R
        BY <1>2, <1>4, <3>1, <3>2
      <3> QED
        BY <1>10, <2>2, <3>1, <3>3
    <2>3. CASE j < n
      <3>1. j \in 1 .. n /\ j + 1 \in 1 .. n /\ j < n + 1 /\ ~(j >= (n + 1) - 1)
        BY <1>1, <2>3
      <3>2. uses(out, j) = results(out, j + 1) \union (IF j >= n - 1 THEN O ELSE {})
        BY <1>4, <1>8, <1>15, <2>3, <3>1
      <3>3. j >= n - 1 => O = {}
        <4> SUFFICES ASSUME j >= n - 1 PROVE O = {}
          OBVIOUS
        <4>1. j + 1 = n /\ n \in 1 .. n /\ n > 0
          BY <1>1, <2>3, <3>1
        <4>2. out[j].role = (IF j % 2 = 1 THEN "user" ELSE "assistant")
              /\ out[n].role = (IF n % 2 = 1 THEN "user" ELSE "assistant")
          BY <1>4, <3>1, <4>1
        <4>3. out[j].role = "assistant"
          BY <1>8, <1>15, <3>1
        <4>4. j % 2 # 1
          BY <4>2, <4>3
        <4>5. (j + 1) % 2 = 1
          BY <4>4, Parity
        <4>6. out[n].role = "user"
          BY <4>1, <4>2, <4>5
        <4>7. w = "assistant"
          BY <1>5, <1>7, <4>1, <4>6
        <4> QED
          BY <1>2, <4>7
      <3> QED
        BY <1>10, <3>1, <3>2, <3>3
    <2> QED
      BY <1>1, <2>1, <2>2, <2>3
  <1>16. n + 1 > 0
    BY <1>1
  <1> QED
    BY <1>8, <1>9, <1>12, <1>14, <1>15, <1>16, ZenonT(60) DEF Lowered, new, e, n, b, w, P, uses, results
\* The messages lowered one by one.
Lowerings(ms, f, n) ==
    f = [i \in 0 .. n |-> IF i = 0 THEN <<>> ELSE WithMessage(f[i - 1], ms[i])]

LEMMA LoweringsExist ==
    ASSUME NEW ms, NEW n \in Nat
    PROVE  \E f : Lowerings(ms, f, n)
  <1> DEFINE Bad == {m \in Nat : ~\E f : Lowerings(ms, f, m)}
  <1> SUFFICES ASSUME Bad # {} PROVE FALSE
    OBVIOUS
  <1>1. PICK m \in Bad : \A k \in Bad : m <= k
    <2>1. Bad \in SUBSET Nat
      OBVIOUS
    <2> HIDE DEF Bad
    <2> QED
      BY <2>1, Least
  <1>2. m \in Nat /\ ~\E f : Lowerings(ms, f, m)
    OBVIOUS
  <1>3. CASE m = 0
    <2> DEFINE f == [i \in 0 .. 0 |-> <<>>]
    <2>1. f = [i \in 0 .. 0 |-> IF i = 0 THEN <<>> ELSE WithMessage(f[i - 1], ms[i])]
      <3>1. \A i \in 0 .. 0 : i = 0
        OBVIOUS
      <3> QED
        BY <3>1
    <2> HIDE DEF f
    <2>2. Lowerings(ms, f, m)
      BY <1>3, <2>1 DEF Lowerings
    <2> QED
      BY <1>2, <2>2
  <1>4. CASE m # 0
    <2> DEFINE k == m - 1
    <2>1. k \in Nat /\ k + 1 = m /\ ~(m <= k)
      BY <1>2, <1>4
    <2>2. k \notin Bad
      BY <1>1, <2>1
    <2>3. PICK g : Lowerings(ms, g, k)
      BY <2>1, <2>2
    <2> HIDE DEF k
    <2> DEFINE f == [i \in 0 .. m |-> IF i = m THEN WithMessage(g[k], ms[m]) ELSE g[i]]
               h == [i \in 0 .. m |-> IF i = 0 THEN <<>> ELSE WithMessage(f[i - 1], ms[i])]
    <2>4. \A i \in 0 .. k : g[i] = IF i = 0 THEN <<>> ELSE WithMessage(g[i - 1], ms[i])
      BY <2>3 DEF Lowerings
    <2>5. \A i \in 0 .. k : f[i] = g[i]
      BY <2>1
    <2>6. f[m] = WithMessage(g[k], ms[m])
      BY <1>2
    <2>7. DOMAIN f = 0 .. m /\ DOMAIN h = 0 .. m /\ f = [i \in 0 .. m |-> f[i]] /\ h = [i \in 0 .. m |-> h[i]]
      OBVIOUS
    <2>8. \A i \in 0 .. m : h[i] = IF i = 0 THEN <<>> ELSE WithMessage(f[i - 1], ms[i])
      OBVIOUS
    <2> HIDE DEF f, h
    <2>9. \A i \in 0 .. m : f[i] = h[i]
      <3> TAKE i \in 0 .. m
      <3>1. CASE i = m
        <4>1. i # 0 /\ i - 1 = k /\ k \in 0 .. k
          BY <1>4, <2>1, <3>1
        <4>2. f[i - 1] = g[k]
          BY <2>5, <4>1
        <4>3. h[i] = WithMessage(f[i - 1], ms[i])
          BY <2>8, <4>1
        <4> QED
          BY <2>6, <3>1, <4>2, <4>3
      <3>2. CASE i = 0
        <4>1. i \in 0 .. k
          BY <2>1, <3>2
        <4> QED
          BY <2>4, <2>5, <2>8, <3>2, <4>1
      <3>3. CASE i # 0 /\ i # m
        <4>1. i \in 0 .. k /\ i - 1 \in 0 .. k
          BY <2>1, <3>3
        <4>2. f[i] = WithMessage(g[i - 1], ms[i]) /\ f[i - 1] = g[i - 1]
          BY <2>4, <2>5, <3>3, <4>1
        <4>3. h[i] = WithMessage(f[i - 1], ms[i])
          BY <2>8, <3>3
        <4> QED
          BY <4>2, <4>3
      <3> QED
        BY <3>1, <3>2, <3>3
    <2>10. f = h
      BY <2>7, <2>9
    <2>11. Lowerings(ms, f, m)
      BY <2>10 DEF Lowerings, h
    <2> QED
      BY <1>2, <2>11
  <1> QED
    BY <1>3, <1>4

LEMMA LowerIs ==
    ASSUME NEW ms, Len(ms) \in Nat
    PROVE  \E f : Lowerings(ms, f, Len(ms)) /\ Lower(ms) = f[Len(ms)]
  <1> DEFINE Step(f) == [i \in 0 .. Len(ms) |-> IF i = 0 THEN <<>> ELSE WithMessage(f[i - 1], ms[i])]
             f == CHOOSE f : f = Step(f)
  <1>1. \E g : g = Step(g)
    BY LoweringsExist DEF Lowerings
  <1>2. f = Step(f)
    <2> HIDE DEF Step
    <2> QED BY <1>1
  <1>3. Lower(ms) = f[Len(ms)]
    BY DEF Lower
  <1> HIDE DEF f
  <1> QED
    BY <1>2, <1>3 DEF Lowerings

LEMMA WithMessageHolds ==
    ASSUME NEW ms, Sent(ms), NEW i \in DOMAIN ms, NEW out, Lowered(out, ms, i - 1)
    PROVE  Lowered(WithMessage(out, ms[i]), ms, i)
  <1>1. CASE ms[i].role = "system" \/ Blocks(ms[i]) = <<>>
    <2>1. Owed(ms, i) = Owed(ms, i - 1) /\ ms[i].role # "user" /\ i \in Nat
      BY <1>1, OwedThen
    <2>2. WithMessage(out, ms[i]) = out
      BY <1>1 DEF WithMessage
    <2>3. \A j \in 1 .. i : ms[j].role = "user" => j \in 1 .. (i - 1)
      BY <2>1
    <2> QED
      BY <2>1, <2>2, <2>3 DEF Lowered
  <1>2. CASE ~(ms[i].role = "system" \/ Blocks(ms[i]) = <<>>) /\ out # <<>> /\ out[Len(out)].role = RoleOnWire(ms[i])
    BY <1>2, MergeHolds DEF WithMessage
  <1>3. CASE ~(ms[i].role = "system" \/ Blocks(ms[i]) = <<>>) /\ ~(out # <<>> /\ out[Len(out)].role = RoleOnWire(ms[i]))
    BY <1>3, AppendHolds DEF WithMessage
  <1> QED
    BY <1>1, <1>2, <1>3

LEMMA LowerHolds ==
    ASSUME NEW ms, Sent(ms)
    PROVE  Lowered(Lower(ms), ms, Len(ms)) /\ Owed(ms, Len(ms)) = {}
  <1> DEFINE n == Len(ms)
  <1>1. DOMAIN ms = 1 .. n /\ n \in Nat
    BY PlacesAre
  <1>2. PICK f : Lowerings(ms, f, n) /\ Lower(ms) = f[n]
    BY <1>1, LowerIs
  <1> HIDE DEF n
  <1>3. f[0] = <<>> /\ \A i \in 1 .. n : f[i] = WithMessage(f[i - 1], ms[i])
    <2> DEFINE h == [i \in 0 .. n |-> IF i = 0 THEN <<>> ELSE WithMessage(f[i - 1], ms[i])]
    <2>1. f = h
      BY <1>2 DEF Lowerings
    <2>2. 0 \in 0 .. n /\ \A i \in 1 .. n : i \in 0 .. n /\ i # 0
      BY <1>1
    <2>3. \A i \in 0 .. n : h[i] = IF i = 0 THEN <<>> ELSE WithMessage(f[i - 1], ms[i])
      OBVIOUS
    <2> HIDE DEF h
    <2> QED
      BY <2>1, <2>2, <2>3
  <1>4. Lowered(f[0], ms, 0)
    <2>1. Owed(ms, 0) = {}
      BY DEF Owed
    <2>2. <<>> \in Seq(Outs) /\ DOMAIN <<>> = {} /\ Len(<<>>) = 0 /\ 1 .. 0 = {}
      OBVIOUS
    <2> QED
      BY <1>3, <2>1, <2>2 DEF Lowered
  <1> DEFINE Bad == {i \in 0 .. n : ~Lowered(f[i], ms, i)}
  <1>5. Bad = {}
    <2> SUFFICES ASSUME Bad # {} PROVE FALSE
      OBVIOUS
    <2>1. PICK m \in Bad : \A k \in Bad : m <= k
      <3>1. Bad \in SUBSET Nat
        OBVIOUS
      <3> HIDE DEF Bad
      <3> QED
        BY <3>1, Least
    <2>2. m \in 0 .. n /\ ~Lowered(f[m], ms, m) /\ m # 0
      BY <1>4
    <2>3. m \in 1 .. n /\ m - 1 \in 0 .. n /\ ~(m <= m - 1)
      BY <1>1, <2>2
    <2>4. Lowered(f[m - 1], ms, m - 1)
      BY <2>1, <2>3
    <2> HIDE DEF Bad
    <2> QED
      BY <1>1, <1>3, <2>2, <2>3, <2>4, WithMessageHolds
  <1>6. Lowered(f[n], ms, n)
    <2>1. n \in 0 .. n
      BY <1>1
    <2> QED
      BY <1>5, <2>1
  <1>7. Owed(ms, n) = {}
    <2>1. 1 .. n \subseteq DOMAIN ms
      BY <1>1
    <2>2. \A p \in 1 .. n : \A k \in DOMAIN ms[p].calls : ~(p + k > n)
      <3> TAKE p \in 1 .. n
      <3> TAKE k \in DOMAIN ms[p].calls
      <3>1. p + k \in 1 .. n
        BY <1>1 DEF Sent, Paired
      <3> QED
        BY <1>1, <3>1
    <2> QED
      BY <2>1, <2>2, OwedIs
  <1> QED
    BY <1>2, <1>6, <1>7 DEF n

\* Every call of a request has its result right after it, on every wire.
THEOREM RequestsPaired == RequestsSpec => []WireTrue
  <1>1. ASSUME IInv PROVE WireTrue
    <2> DEFINE ms == Request
               low == Lower(ms)
               owed == Owed(ms, Len(ms))
    <2>1. Sent(ms)
      BY <1>1, RequestSent
    <2> HIDE DEF ms
    <2>2. Lowered(low, ms, Len(ms)) /\ owed = {}
      BY <2>1, LowerHolds
    <2> HIDE DEF low, owed
    <2>3. Len(low) \in Nat /\ DOMAIN low = 1 .. Len(low)
      BY <2>2, LoweredIs
    <2>4. \A i \in DOMAIN low :
             /\ low[i].role = (IF i % 2 = 1 THEN "user" ELSE "assistant")
             /\ low[i].role = "user" => IdsOf(low[i].blocks, "use") = {}
             /\ low[i].role = "assistant" => IdsOf(low[i].blocks, "result") = {}
             /\ i = 1 => IdsOf(low[i].blocks, "result") = {}
             /\ low[i].role = "assistant" =>
                   IdsOf(low[i].blocks, "use") =
                      (IF i < Len(low) THEN IdsOf(low[i + 1].blocks, "result") ELSE {})
                        \union (IF i >= Len(low) - 1 THEN owed ELSE {})
      BY <2>2 DEF Lowered, owed
    <2>5. ASSUME NEW i \in DOMAIN low
          PROVE  /\ low[i].role = (IF i % 2 = 1 THEN "user" ELSE "assistant")
                 /\ IdsOf(low[i].blocks, "use") =
                        (IF i < Len(low) THEN IdsOf(low[i + 1].blocks, "result") ELSE {})
                 /\ i = 1 => IdsOf(low[i].blocks, "result") = {}
      <3>1. CASE low[i].role = "assistant"
        BY <2>2, <2>4, <3>1
      <3>2. CASE low[i].role = "user"
        <4>1. i < Len(low) => IdsOf(low[i + 1].blocks, "result") = {}
          <5> SUFFICES ASSUME i < Len(low) PROVE IdsOf(low[i + 1].blocks, "result") = {}
            OBVIOUS
          <5>1. i + 1 \in DOMAIN low /\ i \in Nat
            BY <2>3
          <5>2. i % 2 = 1
            BY <2>4, <3>2
          <5>3. (i + 1) % 2 # 1
            BY <5>1, <5>2, Parity
          <5> QED
            BY <2>4, <5>1, <5>3
        <4> QED
          BY <2>4, <3>2, <4>1
      <3> QED
        BY <2>4, <3>1, <3>2
    <2> DEFINE sent == OpenAiMessages(ms)
    <2>6. \A i \in DOMAIN sent :
             /\ \A k \in DOMAIN sent[i].uses :
                    i + k \in DOMAIN sent /\ sent[i + k].answers = sent[i].uses[k]
             /\ sent[i].answers # Nobody =>
                    /\ \E k \in 1 .. (i - 1) :
                        k \in DOMAIN sent[i - k].uses /\ sent[i - k].uses[k] = sent[i].answers
                    /\ ServerIds => ToolName(ms, ms[i]) = ms[i].of.name
      BY <1>1, <2>1, OpenAiTrue
    <2> HIDE DEF sent
    <2> QED
      BY <2>5, <2>6 DEF WireTrue, sent, ms, low
  <1>2. IInv => WireTrue
    BY <1>1
  <1> QED
    BY <1>2, HistoryInOrder, PTL

-----------------------------------------------------------------------------
(* What pruning keeps.                                                       *)

Turns == TurnStarts(history, 0)

\* The turns of all that is to be sent, stubs or not, are the history's.
LEMMA TurnsAre ==
    ASSUME IInv, NEW u, Stubs(u, Everything)
    PROVE  /\ Len(TurnStarts(u, Len(Pinned))) = Len(Turns)
           /\ \A k \in 1 .. Len(Turns) : TurnStarts(u, Len(Pinned))[k] = Turns[k] + Len(Pinned)
           /\ Len(Turns) \in Nat
           /\ \A k \in 1 .. Len(Turns) : /\ Turns[k] \in DOMAIN history /\ Turns[k] \in Nat /\ Turns[k] > 0
                                         /\ history[Turns[k]].role = "user"
           /\ \A k, l \in 1 .. Len(Turns) : k < l => Turns[k] < Turns[l]
           /\ \A i \in DOMAIN history : history[i].role = "user" => \E k \in 1 .. Len(Turns) : Turns[k] = i
  <1> DEFINE p == Len(Pinned)
             n == Len(history)
             S == {i \in DOMAIN history : i > 0 /\ history[i].role = "user"}
             T == {i \in DOMAIN u : i > p /\ u[i].role = "user"}
  <1>1. /\ p \in Nat /\ n \in Nat /\ DOMAIN history = 1 .. n /\ DOMAIN Everything = 1 .. (p + n)
        /\ \A i \in 1 .. n : Everything[p + i] = history[i]
        /\ \A i \in DOMAIN Everything : i > p => i - p \in DOMAIN history /\ Everything[i] = history[i - p]
    BY EverythingIs, PiecesAre
  <1>2. DOMAIN u = DOMAIN Everything /\ \A i \in DOMAIN Everything : u[i].role = Everything[i].role
    BY DEF Stubs
  <1>3. /\ history \in Seq(Messages)
    BY DEF IInv
  <1>4. /\ Len(Turns) \in Nat
        /\ \A k \in 1 .. Len(Turns) : /\ Turns[k] \in DOMAIN history /\ Turns[k] > 0
                                      /\ history[Turns[k]].role = "user"
        /\ \A k, l \in 1 .. Len(Turns) : k < l => Turns[k] < Turns[l]
        /\ \A i \in DOMAIN history : i > 0 /\ history[i].role = "user" => \E k \in 1 .. Len(Turns) : Turns[k] = i
    BY <1>3, StartsIs DEF Turns
  <1>5. Turns = InOrder(S) /\ TurnStarts(u, p) = InOrder(T)
    BY DEF Turns, TurnStarts
  <1>6. S \in SUBSET (1 .. n)
    BY <1>1
  <1> HIDE DEF n, p
  <1>7. T = {i + p : i \in S}
    <2>1. \A i \in S : i + p \in T
      <3> TAKE i \in S
      <3>1. i \in 1 .. n /\ history[i].role = "user" /\ p + i = i + p
        BY <1>1
      <3>2. i + p \in DOMAIN Everything /\ i + p > p /\ Everything[i + p] = history[i]
        BY <1>1, <3>1
      <3> QED
        BY <1>2, <3>1, <3>2
    <2>2. \A j \in T : j - p \in S /\ j = (j - p) + p
      <3> TAKE j \in T
      <3>1. j \in DOMAIN Everything /\ j > p /\ Everything[j].role = "user" /\ j \in Nat
        BY <1>1, <1>2
      <3>2. j - p \in DOMAIN history /\ history[j - p].role = "user"
        BY <1>1, <3>1
      <3>3. j - p > 0 /\ j = (j - p) + p
        BY <1>1, <3>1
      <3> QED
        BY <3>2, <3>3
    <2> HIDE DEF S, T
    <2> QED
      BY <2>1, <2>2
  <1> HIDE DEF S, T
  <1>8. /\ Cardinality(T) = Cardinality(S)
        /\ \A k \in 1 .. Cardinality(S) : InOrder(T)[k] = InOrder(S)[k] + p
    BY <1>1, <1>6, <1>7, InOrderShifted
  <1>9. T \in SUBSET (1 .. (p + n)) /\ p + n \in Nat
    BY <1>1, <1>2 DEF T
  <1>10. Len(InOrder(S)) = Cardinality(S) /\ Len(InOrder(T)) = Cardinality(T)
    BY <1>1, <1>6, <1>9, InOrderIs
  <1> QED
    BY <1>1, <1>4, <1>5, <1>8, <1>10 DEF p

Floor == ProtectedTurns + (IF implement THEN 1 ELSE 0)

\* The turns between these two have been dropped from the request.
Dropped(k, l) ==
    LET c == Turns[k] + Len(Pinned)
        d == Turns[l] + Len(Pinned)
        r == WithoutTurns(Trimmed, Len(Pinned), implement, l - k)
    IN  /\ k = (IF implement THEN 2 ELSE 1) /\ k \in 1 .. Len(Turns) /\ l \in 1 .. Len(Turns) /\ k < l
        /\ l + ProtectedTurns <= Len(Turns) + 1
        /\ First < c
        /\ IsCut(r, Trimmed, c, d) /\ Spliced(Request, Trimmed, First, c, d)
        /\ Fits(r) \/ Len(Turns) - (l - k) = Floor

LEMMA RequestForms ==
    ASSUME IInv
    PROVE  \/ Request = Everything /\ Fits(Request)
           \/ Request = Coalesced /\ Fits(Request) /\ ~Fits(Everything)
           \/ Request = Trimmed /\ (Fits(Request) \/ Len(Turns) <= Floor) /\ ~Fits(Everything)
           \/ (\E k, l \in Nat : Dropped(k, l)) /\ ~Fits(Everything)
  <1> SUFFICES ASSUME Request = DropOld(Trimmed, Len(Pinned), implement, First), ~Fits(Everything)
               PROVE  \/ Request = Trimmed /\ (Fits(Request) \/ Len(Turns) <= Floor)
                      \/ \E k, l \in Nat : Dropped(k, l)
    BY RequestIs
  <1> DEFINE s == TurnStarts(Trimmed, Len(Pinned))
             one == IF implement THEN 1 ELSE 0
             most == Len(s) - ProtectedTurns - one
             oldest == IF implement THEN 2 ELSE 1
  <1>1. /\ First \in Nat /\ First <= Whole
        /\ Len(Pinned) \in Nat /\ implement \in BOOLEAN
        /\ Stubs(Trimmed, Everything)
    BY PiecesAre
  <1>2. /\ Len(s) = Len(Turns) /\ Len(Turns) \in Nat
        /\ \A k \in 1 .. Len(Turns) : s[k] = Turns[k] + Len(Pinned)
    BY <1>1, TurnsAre
  <1>3. Trimmed \in Seq(Messages)
    BY <1>1 DEF Stubs
  <1>4. \/ Request = Trimmed /\ (most <= 0 \/ Fits(Trimmed))
        \/ \E n \in 1 .. most :
                     /\ oldest \in 1 .. Len(s) /\ oldest + n \in 1 .. Len(s)
                     /\ First < s[oldest]
                     /\ IsCut(WithoutTurns(Trimmed, Len(Pinned), implement, n), Trimmed, s[oldest], s[oldest + n])
                     /\ Spliced(Request, Trimmed, First, s[oldest], s[oldest + n])
                     /\ Fits(WithoutTurns(Trimmed, Len(Pinned), implement, n)) \/ n = most
    BY <1>1, <1>3, DropOldIs DEF Whole
  <1>5. ProtectedTurns \in Nat /\ one \in Nat /\ oldest = one + 1 /\ Floor = ProtectedTurns + one
    BY RequestConstants DEF Floor
  <1> HIDE DEF s, one, oldest
  <1>6. CASE Request = Trimmed /\ (most <= 0 \/ Fits(Trimmed))
    BY <1>2, <1>5, <1>6
  <1>7. ASSUME NEW n \in 1 .. most,
               /\ oldest \in 1 .. Len(s) /\ oldest + n \in 1 .. Len(s)
               /\ First < s[oldest]
               /\ IsCut(WithoutTurns(Trimmed, Len(Pinned), implement, n), Trimmed, s[oldest], s[oldest + n])
               /\ Spliced(Request, Trimmed, First, s[oldest], s[oldest + n])
               /\ Fits(WithoutTurns(Trimmed, Len(Pinned), implement, n)) \/ n = most
        PROVE  \E k, l \in Nat : Dropped(k, l)
    <2> DEFINE l == oldest + n
    <2>1. l - oldest = n /\ oldest < l /\ oldest \in Nat /\ l \in Nat
      BY <1>2, <1>5, <1>7
    <2>2. l + ProtectedTurns <= Len(Turns) + 1
      BY <1>2, <1>5, <1>7
    <2>3. n = most => Len(Turns) - (l - oldest) = Floor
      BY <1>2, <1>5, <2>1
    <2>4. s[oldest] = Turns[oldest] + Len(Pinned) /\ s[l] = Turns[l] + Len(Pinned)
      BY <1>2, <1>7
    <2> HIDE DEF most
    <2>5. Dropped(oldest, l)
      BY <1>2, <1>7, <2>1, <2>2, <2>3, <2>4 DEF Dropped, oldest
    <2> QED
      BY <2>1, <2>5
  <1> HIDE DEF most
  <1> QED
    BY <1>4, <1>6, <1>7

\* Where the last turns begin, in the history.
From(turns) == IF Len(Turns) <= turns THEN 1 ELSE Turns[Len(Turns) - turns + 1]

\* Where the results that stay begin, in what is to be sent.
Recent == IF Len(Turns) <= RecentTurns THEN 0 ELSE Turns[Len(Turns) - RecentTurns + 1] + Len(Pinned)

LEMMA PiecesDiffer ==
    ASSUME IInv, NEW i \in DOMAIN Everything
    PROVE  /\ \/ Coalesced[i] = Everything[i]
              \/ i > First /\ Everything[i].role = "tool" /\ Coalesced[i].kind = "superseded"
           /\ \/ First < i /\ i < Recent /\ Everything[i].role = "tool" /\ Trimmed[i].kind = "pruned"
              \/ /\ Trimmed[i] = Coalesced[i]
                 /\ ~(First < i /\ i < Recent /\ Everything[i].role = "tool")
           /\ i <= First => Trimmed[i] = Everything[i]
  <1>1. /\ First \in Nat /\ Len(Pinned) \in Nat
        /\ Stubs(Coalesced, Everything) /\ Stubs(Trimmed, Coalesced) /\ Stubs(Trimmed, Everything)
    BY PiecesAre
  <1>2. Everything \in Seq(Messages) /\ Coalesced \in Seq(Messages) /\ DOMAIN Coalesced = DOMAIN Everything
    BY <1>1 DEF Stubs
  <1>3. DOMAIN Everything = 1 .. Len(Everything) /\ Len(Everything) \in Nat
    BY <1>2, LenProperties
  <1>4. \/ Coalesced[i] = Everything[i]
        \/ i > First /\ Everything[i].role = "tool" /\ Coalesced[i].kind = "superseded"
    BY <1>1, <1>2, CoalesceIs DEF Coalesced
  <1> DEFINE s == TurnStarts(Coalesced, Len(Pinned))
  <1>5. /\ Len(s) = Len(Turns) /\ Len(Turns) \in Nat
        /\ \A k \in 1 .. Len(Turns) : s[k] = Turns[k] + Len(Pinned)
    BY <1>1, TurnsAre
  <1>6. RecentTurns \in Nat /\ RecentTurns > 0
    BY RequestConstants
  <1> DEFINE recent == IF Len(s) <= RecentTurns THEN 0 ELSE s[Len(s) - RecentTurns + 1]
  <1>7. recent = Recent
    <2> HIDE DEF s
    <2>1. CASE Len(Turns) <= RecentTurns
      BY <1>5, <2>1 DEF Recent
    <2>2. CASE ~(Len(Turns) <= RecentTurns)
      <3>1. Len(Turns) - RecentTurns + 1 \in 1 .. Len(Turns)
        BY <1>5, <1>6, <2>2
      <3> QED
        BY <1>5, <2>2, <3>1 DEF Recent
    <2> QED
      BY <2>1, <2>2
  <1>8. \/ First < i /\ i < recent /\ Coalesced[i].role = "tool" /\ Trimmed[i].kind = "pruned"
        \/ Trimmed[i] = Coalesced[i] /\ ~(First < i /\ i < recent /\ Coalesced[i].role = "tool")
    BY <1>2, StubOldIs DEF Trimmed
  <1>9. Coalesced[i].role = Everything[i].role
    BY <1>1 DEF Stubs
  <1>10. i <= First => ~(i > First) /\ ~(First < i)
    BY <1>1, <1>3
  <1> QED
    BY <1>4, <1>7, <1>8, <1>9, <1>10

LEMMA DroppedIs ==
    ASSUME IInv, NEW k \in Nat, NEW l \in Nat, Dropped(k, l)
    PROVE  LET p == Len(Pinned)
               n == Len(history)
               c == Turns[k] + p
               d == Turns[l] + p
           IN  /\ p \in Nat /\ n \in Nat /\ c \in 1 .. (p + n) /\ d \in 1 .. (p + n) /\ c < d
               /\ First \in Nat /\ First < c /\ p <= First /\ First <= p + 1
               /\ DOMAIN Trimmed = 1 .. (p + n) /\ DOMAIN Everything = 1 .. (p + n) /\ DOMAIN history = 1 .. n
               /\ Len(Request) = (p + n) - (d - c) + 1 /\ DOMAIN Request = 1 .. Len(Request)
               /\ d <= From(ProtectedTurns) + p /\ From(ProtectedTurns) <= From(RecentTurns)
               /\ Recent = From(RecentTurns) + p /\ From(RecentTurns) \in Nat /\ From(ProtectedTurns) \in Nat
               /\ Trimmed[c].role = "user" /\ Trimmed[d].role = "user"
  <1> DEFINE p == Len(Pinned)
             n == Len(history)
             c == Turns[k] + p
             d == Turns[l] + p
             L == Len(Turns)
  <1>1. /\ Len(Everything) = p + n /\ n \in Nat
        /\ DOMAIN Everything = 1 .. Len(Everything) /\ DOMAIN history = 1 .. n
        /\ \A i \in 1 .. n : Everything[p + i] = history[i]
    BY EverythingIs
  <1>2. p \in 1 .. 2
    BY PinnedIs
  <1>3. First \in Nat /\ Stubs(Trimmed, Everything) /\ implement \in BOOLEAN
    BY PiecesAre
  <1>4. /\ L \in Nat
        /\ \A j \in 1 .. L : /\ Turns[j] \in DOMAIN history /\ Turns[j] \in Nat /\ Turns[j] > 0
                             /\ history[Turns[j]].role = "user"
        /\ \A i, j \in 1 .. L : i < j => Turns[i] < Turns[j]
    BY <1>3, TurnsAre
  <1>5. k \in 1 .. L /\ l \in 1 .. L /\ k < l /\ l + ProtectedTurns <= L + 1 /\ First < c
        /\ Spliced(Request, Trimmed, First, c, d)
    BY DEF Dropped
  <1>6. RecentTurns \in Nat /\ ProtectedTurns \in Nat /\ 0 < RecentTurns /\ RecentTurns < ProtectedTurns
    BY RequestConstants
  <1>7. p <= First /\ First <= p + 1
    <2>1. Whole = p + (IF implement THEN 1 ELSE 0)
      BY DEF Whole
    <2>2. First = IF Whole <= p + n THEN Whole ELSE p + n
      BY <1>1 DEF First
    <2> HIDE DEF p, n
    <2> QED
      BY <1>1, <1>2, <1>3, <2>1, <2>2
  <1>8. DOMAIN Trimmed = DOMAIN Everything /\ Len(Trimmed) = p + n
        /\ \A i \in DOMAIN Everything : Trimmed[i].role = Everything[i].role
    BY <1>1, <1>3 DEF Stubs
  <1>9. Request \in Seq(Messages) /\ Len(Request) = (p + n) - (d - c) + 1
    <2>1. Request \in Seq(Messages) /\ Len(Request) = Len(Trimmed) - (d - c) + 1
      <3> HIDE DEF c, d
      <3> QED BY <1>5 DEF Spliced
    <2>2. Len(Trimmed) = p + n /\ p + n \in Nat
      BY <1>1, <1>2, <1>8
    <2>3. c \in Nat /\ d \in Nat
      <3>1. Turns[k] \in Nat /\ Turns[l] \in Nat
        BY <1>4, <1>5
      <3> QED
        BY <1>2, <3>1
    <2> DEFINE q == p + n
    <2> HIDE DEF c, d, q
    <2>4. Len(Request) = q - (d - c) + 1
      BY <2>1, <2>2, <2>3 DEF q
    <2> QED
      BY <2>1, <2>4 DEF q
  <1>10. DOMAIN Request = 1 .. Len(Request)
    BY <1>9, LenProperties
  <1> HIDE DEF p, n, L
  <1>11. /\ Turns[k] \in 1 .. n /\ Turns[l] \in 1 .. n /\ Turns[k] < Turns[l]
         /\ history[Turns[k]].role = "user" /\ history[Turns[l]].role = "user"
    BY <1>1, <1>4, <1>5
  <1>12. c \in 1 .. (p + n) /\ d \in 1 .. (p + n) /\ c < d /\ p + Turns[k] = c /\ p + Turns[l] = d
    BY <1>1, <1>2, <1>11, SMTT(30)
  <1>13. Trimmed[c].role = "user" /\ Trimmed[d].role = "user"
    <2>1. Everything[c] = history[Turns[k]] /\ Everything[d] = history[Turns[l]]
      BY <1>1, <1>11, <1>12
    <2> QED
      BY <1>1, <1>8, <1>11, <1>12, <2>1
  <1>14. L > ProtectedTurns /\ L > RecentTurns
    BY <1>4, <1>5, <1>6
  <1> DEFINE a == L - ProtectedTurns + 1
             b == L - RecentTurns + 1
  <1>15. From(ProtectedTurns) = Turns[a] /\ From(RecentTurns) = Turns[b] /\ Recent = Turns[b] + p
    BY <1>4, <1>6, <1>14 DEF From, Recent, L, p
  <1>16. a \in 1 .. L /\ b \in 1 .. L /\ a < b /\ (l < a \/ l = a)
    BY <1>4, <1>5, <1>6, <1>14
  <1>17. Turns[l] <= Turns[a] /\ Turns[a] < Turns[b] /\ Turns[a] \in Nat /\ Turns[b] \in Nat /\ Turns[l] \in Nat
    <2> HIDE DEF a, b
    <2>1. Turns[a] < Turns[b] /\ Turns[a] \in Nat /\ Turns[b] \in Nat /\ Turns[l] \in Nat
      BY <1>4, <1>5, <1>16
    <2>2. l < a => Turns[l] < Turns[a]
      BY <1>4, <1>5, <1>16
    <2> QED
      BY <1>16, <2>1, <2>2
  <1> HIDE DEF a, b
  <1>18. d <= Turns[a] + p
    BY <1>2, <1>17
  <1> HIDE DEF c, d
  <1>20. /\ d <= From(ProtectedTurns) + p /\ From(ProtectedTurns) <= From(RecentTurns)
         /\ Recent = From(RecentTurns) + p /\ From(RecentTurns) \in Nat /\ From(ProtectedTurns) \in Nat
    BY <1>15, <1>17, <1>18
  <1>19. /\ p \in Nat /\ n \in Nat /\ c \in 1 .. (p + n) /\ d \in 1 .. (p + n) /\ c < d
         /\ First \in Nat /\ First < c /\ p <= First /\ First <= p + 1
         /\ DOMAIN Trimmed = 1 .. (p + n) /\ DOMAIN Everything = 1 .. (p + n) /\ DOMAIN history = 1 .. n
         /\ Len(Request) = (p + n) - (d - c) + 1 /\ DOMAIN Request = 1 .. Len(Request)
         /\ Trimmed[c].role = "user" /\ Trimmed[d].role = "user"
    BY <1>1, <1>2, <1>3, <1>5, <1>7, <1>8, <1>9, <1>10, <1>12, <1>13
  <1> QED
    BY <1>19, <1>20 DEF p, n, c, d

\* The first messages of a request, one by one.
LEMMA PrefixKept ==
    ASSUME IInv
    PROVE  SubSeq(Request, 1, Len(Pinned)) = Pinned
  <1> DEFINE p == Len(Pinned)
  <1>1. /\ Len(Everything) = p + Len(history) /\ Len(history) \in Nat
        /\ DOMAIN Everything = 1 .. Len(Everything)
        /\ \A i \in 1 .. p : Everything[i] = Pinned[i]
    BY EverythingIs
  <1>2. Pinned \in Seq(Messages) /\ p \in 1 .. 2 /\ \A i \in 1 .. p : Pinned[i].role = "system"
    BY PinnedIs
  <1>3. Stubs(Coalesced, Everything) /\ Stubs(Trimmed, Everything)
    BY PiecesAre
  <1>4. Everything \in Seq(Messages)
    BY EverythingIs DEF Sent
  <1>5. Stubs(Everything, Everything)
    BY <1>4, StubsSelf
  <1> HIDE DEF p
  <1>6. ASSUME Stubs(Request, Everything)
        PROVE  Request \in Seq(Messages) /\ Len(Request) >= p /\ \A i \in 1 .. p : Request[i] = Pinned[i]
    <2>1. \A i \in 1 .. p : i \in DOMAIN Everything /\ Everything[i].role # "tool"
      BY <1>1, <1>2
    <2>2. Request \in Seq(Messages) /\ Len(Request) = Len(Everything) /\ \A i \in 1 .. p : Request[i] = Everything[i]
      BY <1>6, <2>1 DEF Stubs
    <2> QED
      BY <1>1, <1>2, <2>2
  <1>7. ASSUME NEW k \in Nat, NEW l \in Nat, Dropped(k, l)
        PROVE  Request \in Seq(Messages) /\ Len(Request) >= p /\ \A i \in 1 .. p : Request[i] = Pinned[i]
    <2> DEFINE n == Len(history)
               c == Turns[k] + p
               d == Turns[l] + p
    <2>1. /\ n \in Nat /\ c \in 1 .. (p + n) /\ d \in 1 .. (p + n) /\ c < d
          /\ First \in Nat /\ First < c /\ p <= First
          /\ DOMAIN Trimmed = 1 .. (p + n)
          /\ Len(Request) = (p + n) - (d - c) + 1
      BY <1>7, DroppedIs DEF p
    <2>2. Spliced(Request, Trimmed, First, c, d)
      BY <1>7 DEF Dropped, p
    <2> HIDE DEF c, d, n
    <2>3. \A i \in 1 .. p : i \in DOMAIN Trimmed /\ i <= First /\ i \in DOMAIN Everything
      BY <1>1, <1>2, <2>1 DEF n
    <2>4. \A i \in 1 .. p : Request[i] = Trimmed[i]
      BY <2>2, <2>3 DEF Spliced
    <2>5. \A i \in 1 .. p : Trimmed[i] = Everything[i]
      BY <2>3, PiecesDiffer
    <2>6. Len(Request) >= p
      BY <1>2, <2>1
    <2>7. Request \in Seq(Messages)
      BY <2>2 DEF Spliced
    <2> QED
      BY <1>1, <2>4, <2>5, <2>6, <2>7
  <1>8. Request \in Seq(Messages) /\ Len(Request) >= p /\ \A i \in 1 .. p : Request[i] = Pinned[i]
    BY <1>3, <1>5, <1>6, <1>7, RequestForms
  <1> DEFINE u == SubSeq(Request, 1, p)
  <1>9. \A i \in 1 .. p : Request[i] \in Messages
    <2>1. Len(Request) \in Nat
      BY <1>8, LenProperties
    <2>2. \A i \in 1 .. p : i \in 1 .. Len(Request)
      BY <1>2, <1>8, <2>1
    <2> QED
      BY <1>8, <2>2, ElementOfSeq
  <1>10. /\ u \in Seq(Messages) /\ Len(u) = IF 1 <= p THEN p - 1 + 1 ELSE 0
         /\ \A i \in 1 .. p - 1 + 1 : u[i] = Request[1 + i - 1]
    <2>1. 1 \in Int /\ p \in Int
      BY <1>2
    <2> QED
      BY <1>9, <2>1, SubSeqProperties
  <1> HIDE DEF u
  <1>11. \A i \in 1 .. p : u[i] = Request[i]
    <2> TAKE i \in 1 .. p
    <2>1. i \in 1 .. p - 1 + 1 /\ 1 + i - 1 = i
      BY <1>2
    <2> QED
      BY <1>10, <2>1
  <1>12. Len(u) = p
    BY <1>2, <1>10
  <1>13. u = Pinned
    BY <1>2, <1>8, <1>10, <1>11, <1>12, SeqEqual DEF p
  <1> QED
    BY <1>13 DEF u, p
\* The work package stays.
LEMMA PackageKept ==
    ASSUME IInv, NEW x \in DOMAIN history, history[x].kind = "package"
    PROVE  \E i \in DOMAIN Request : Request[i].kind = "package"
  <1> DEFINE p == Len(Pinned)
             n == Len(history)
             y == p + x
  <1>1. /\ Len(Everything) = p + n /\ n \in Nat
        /\ DOMAIN Everything = 1 .. Len(Everything) /\ DOMAIN history = 1 .. n
        /\ \A i \in 1 .. n : Everything[p + i] = history[i]
    BY EverythingIs
  <1>2. p \in 1 .. 2
    BY PinnedIs
  <1>3. /\ Stubs(Coalesced, Everything) /\ Stubs(Trimmed, Everything)
    BY PiecesAre
  <1>4. /\ implement /\ Proper(history[x]) /\ \A j \in 1 .. (x - 1) : history[j].role # "user"
    BY DEF IInv
  <1>5. history[x].role = "user"
    BY <1>4 DEF Proper
  <1> HIDE DEF p, n
  <1>6. y \in DOMAIN Everything /\ Everything[y].kind = "package" /\ Everything[y].role = "user"
    BY <1>1, <1>2, <1>5
  <1>7. ASSUME NEW u, Stubs(u, Everything)
        PROVE  y \in DOMAIN u /\ u[y].kind = "package"
    <2>1. y \in DOMAIN u /\ u[y] = Everything[y]
      BY <1>6, <1>7 DEF Stubs
    <2> QED
      BY <1>6, <2>1
  <1>8. Stubs(Everything, Everything)
    <2>1. Everything \in Seq(Messages)
      BY EverythingIs DEF Sent
    <2> QED
      BY <2>1, StubsSelf
  <1>9. ASSUME NEW k \in Nat, NEW l \in Nat, Dropped(k, l)
        PROVE  \E i \in DOMAIN Request : Request[i].kind = "package"
    <2> DEFINE c == Turns[k] + p
               d == Turns[l] + p
    <2>1. /\ c \in 1 .. (p + n) /\ d \in 1 .. (p + n) /\ c < d
          /\ First \in Nat /\ First < c /\ p <= First
          /\ DOMAIN Trimmed = 1 .. (p + n)
          /\ Len(Request) = (p + n) - (d - c) + 1 /\ DOMAIN Request = 1 .. Len(Request)
      BY <1>9, DroppedIs DEF p, n
    <2>2. Spliced(Request, Trimmed, First, c, d) /\ k = 2 /\ k \in 1 .. Len(Turns)
      BY <1>4, <1>9 DEF Dropped, p
    <2>3. x < Turns[k]
      <3>1. /\ Len(Turns) \in Nat
            /\ \A j \in 1 .. Len(Turns) : Turns[j] \in Nat /\ Turns[j] > 0 /\ history[Turns[j]].role = "user"
            /\ \A i, j \in 1 .. Len(Turns) : i < j => Turns[i] < Turns[j]
            /\ \A i \in DOMAIN history : history[i].role = "user" => \E j \in 1 .. Len(Turns) : Turns[j] = i
        BY <1>3, TurnsAre
      <3>2. PICK j \in 1 .. Len(Turns) : Turns[j] = x
        BY <1>5, <3>1
      <3>3. 1 \in 1 .. Len(Turns) /\ 1 < 2 /\ (j = 1 \/ 1 < j)
        BY <2>2, <3>1
      <3>4. j = 1
        <4> SUFFICES ASSUME 1 < j PROVE FALSE
          BY <3>3
        <4>1. Turns[1] < x /\ Turns[1] \in Nat /\ Turns[1] > 0 /\ history[Turns[1]].role = "user"
          BY <3>1, <3>2, <3>3
        <4>2. Turns[1] \in 1 .. (x - 1)
          BY <1>1, <4>1
        <4> QED
          BY <1>4, <4>1, <4>2
      <3> QED
        BY <2>2, <3>1, <3>2, <3>3, <3>4
    <2>4. y < c
      <3>1. Turns[k] \in Nat
        BY <1>3, <2>2, TurnsAre
      <3> QED
        BY <1>1, <1>2, <2>3, <3>1
    <2>5. y \in DOMAIN Trimmed /\ Trimmed[y].kind = "package"
      BY <1>3, <1>7
    <2> HIDE DEF c, d, y
    <2>6. /\ y <= First => Request[y] = Trimmed[y]
          /\ First < y => Request[y + 1] = Trimmed[y]
      BY <2>2, <2>4, <2>5 DEF Spliced
    <2>7. y \in DOMAIN Request /\ y + 1 \in DOMAIN Request /\ (y <= First \/ First < y)
      <3>1. y \in 1 .. (p + n)
        BY <2>1, <2>5
      <3>2. y \in Nat /\ y > 0 /\ c \in Nat /\ d \in Nat /\ p + n \in Nat /\ d <= p + n /\ c < d
        BY <1>1, <1>2, <2>1, <3>1
      <3> DEFINE q == p + n
      <3> HIDE DEF q
      <3>5. Len(Request) = q - (d - c) + 1
        BY <2>1 DEF q
      <3>3. Len(Request) = q - (d - c) + 1 /\ q \in Nat /\ d <= q
        BY <3>2, <3>5 DEF q
      <3>4. y \in 1 .. Len(Request) /\ y + 1 \in 1 .. Len(Request)
        BY <2>4, <3>2, <3>3
      <3> QED
        BY <2>1, <3>2, <3>4
    <2> QED
      BY <2>5, <2>6, <2>7
  <1>10. Stubs(Request, Everything) => \E i \in DOMAIN Request : Request[i].kind = "package"
    BY <1>7
  <1> QED
    BY <1>3, <1>8, <1>9, <1>10, RequestForms

\* Where a message of the history is in the request, if its turn is.
Shift == Len(Request) - Len(history)

\* The last turns stay, and in the latest ones only what is superseded becomes a stub.
LEMMA TailKept ==
    ASSUME IInv, NEW i \in DOMAIN history
    PROVE  /\ i >= From(ProtectedTurns) =>
                 Request[i + Shift] = history[i]
                   \/ (history[i].role = "tool" /\ Request[i + Shift].of = history[i].of)
           /\ (i >= From(RecentTurns) /\ Request[i + Shift] # history[i]) =>
                 Request[i + Shift].kind = "superseded"
  <1> DEFINE p == Len(Pinned)
             n == Len(history)
             x == i + p
  <1>1. /\ Len(Everything) = p + n /\ n \in Nat
        /\ DOMAIN Everything = 1 .. Len(Everything) /\ DOMAIN history = 1 .. n
        /\ \A j \in 1 .. n : Everything[p + j] = history[j]
    BY EverythingIs
  <1>2. p \in 1 .. 2
    BY PinnedIs
  <1>3. /\ Stubs(Coalesced, Everything) /\ Stubs(Trimmed, Everything) /\ Stubs(Everything, Everything)
    <2>1. Everything \in Seq(Messages)
      BY EverythingIs DEF Sent
    <2> QED
      BY <2>1, PiecesAre, StubsSelf
  <1> HIDE DEF n
  <1>4. x \in DOMAIN Everything /\ Everything[x] = history[i] /\ x = p + i /\ i \in Nat
    <2> HIDE DEF p
    <2> QED BY <1>1, <1>2
  <1>5. ASSUME NEW u, Stubs(u, Everything)
        PROVE  u[x] = history[i] \/ (history[i].role = "tool" /\ u[x].of = history[i].of)
    BY <1>4, <1>5 DEF Stubs
  <1>6. Stubs(Request, Everything) => Shift = p
    <2>1. Stubs(Request, Everything) => Len(Request) = Len(Everything)
      BY DEF Stubs
    <2> HIDE DEF p
    <2> QED
      BY <1>1, <1>2, <2>1 DEF Shift, n
  <1>7. i >= From(RecentTurns) => Trimmed[x] = Coalesced[x]
    <2> SUFFICES ASSUME i >= From(RecentTurns) PROVE Trimmed[x] = Coalesced[x]
      OBVIOUS
    <2>1. ~(x < Recent)
      <3>1. CASE Len(Turns) <= RecentTurns
        <4>1. Recent = 0
          BY <3>1 DEF Recent
        <4> HIDE DEF p
        <4> QED
          BY <1>2, <1>4, <4>1
      <3>2. CASE ~(Len(Turns) <= RecentTurns)
        <4> DEFINE t == Turns[Len(Turns) - RecentTurns + 1]
        <4>1. Recent = t + p /\ i >= t
          BY <3>2 DEF Recent, From
        <4>2. t \in Nat
          <5>1. RecentTurns \in Nat /\ RecentTurns > 0 /\ Len(Turns) \in Nat
            BY <1>3, RequestConstants, TurnsAre
          <5>2. Len(Turns) - RecentTurns + 1 \in 1 .. Len(Turns)
            BY <3>2, <5>1
          <5> QED
            BY <1>3, <5>2, TurnsAre
        <4> HIDE DEF p, t
        <4> QED
          BY <1>2, <1>4, <4>1, <4>2
      <3> QED
        BY <3>1, <3>2
    <2> QED
      BY <1>4, <2>1, PiecesDiffer
  <1>8. Coalesced[x] = history[i] \/ Coalesced[x].kind = "superseded"
    BY <1>4, PiecesDiffer
  <1>9. ASSUME NEW k \in Nat, NEW l \in Nat, Dropped(k, l)
        PROVE  /\ From(ProtectedTurns) <= From(RecentTurns)
               /\ From(ProtectedTurns) \in Nat /\ From(RecentTurns) \in Nat
               /\ i >= From(ProtectedTurns) => Request[i + Shift] = Trimmed[x]
    <2> DEFINE c == Turns[k] + p
               d == Turns[l] + p
               e == d - c
    <2>1. /\ c \in 1 .. (p + n) /\ d \in 1 .. (p + n) /\ c < d
          /\ DOMAIN Trimmed = 1 .. (p + n)
          /\ Len(Request) = (p + n) - e + 1
          /\ d <= From(ProtectedTurns) + p /\ From(ProtectedTurns) <= From(RecentTurns)
          /\ From(RecentTurns) \in Nat /\ From(ProtectedTurns) \in Nat
      BY <1>9, DroppedIs DEF p, n
    <2>2. Spliced(Request, Trimmed, First, c, d)
      BY <1>9 DEF Dropped, p
    <2> HIDE DEF c, d
    <2>3. \A j \in 1 .. (p + n) : j >= d => Request[j + 1 - e] = Trimmed[j]
      BY <2>1, <2>2 DEF Spliced
    <2> HIDE DEF p
    <2>4. i >= From(ProtectedTurns) => x >= d /\ x \in 1 .. (p + n) /\ x + 1 - e = i + Shift
      <3>1. c \in Nat /\ d \in Nat /\ n \in Nat /\ p \in Nat /\ i \in Nat
        BY <1>1, <1>2, <1>4, <2>1, SMTT(30)
      <3>2. e \in Nat
        BY <2>1, <3>1
      <3>3. Shift = ((p + n) - e + 1) - n
        BY <2>1 DEF Shift, n
      <3>4. i >= From(ProtectedTurns) => x >= d
        BY <2>1, <3>1
      <3>5. x \in 1 .. (p + n)
        BY <1>1, <1>4
      <3> HIDE DEF e
      <3>6. x + 1 - e = i + Shift
        BY <3>1, <3>2, <3>3
      <3> QED
        BY <3>4, <3>5, <3>6
    <2> HIDE DEF x, e
    <2> QED
      BY <2>1, <2>3, <2>4
  <1> DEFINE y == i + Shift
  <1>10. CASE Request = Everything \/ Request = Coalesced \/ Request = Trimmed
    <2>1. Stubs(Request, Everything) /\ y = x
      BY <1>3, <1>6, <1>10
    <2>2. Request[x] = history[i] \/ (history[i].role = "tool" /\ Request[x].of = history[i].of)
      BY <1>5, <2>1
    <2>3. i >= From(RecentTurns) => Request[x] = history[i] \/ Request[x].kind = "superseded"
      BY <1>4, <1>7, <1>8, <1>10
    <2> HIDE DEF x, y
    <2> QED
      BY <2>1, <2>2, <2>3 DEF y
  <1>11. ASSUME NEW k \in Nat, NEW l \in Nat, Dropped(k, l)
         PROVE  /\ i >= From(ProtectedTurns) =>
                     Request[y] = history[i] \/ (history[i].role = "tool" /\ Request[y].of = history[i].of)
                /\ (i >= From(RecentTurns) /\ Request[y] # history[i]) => Request[y].kind = "superseded"
    <2>1. Trimmed[x] = history[i] \/ (history[i].role = "tool" /\ Trimmed[x].of = history[i].of)
      BY <1>3, <1>5
    <2>2. /\ From(ProtectedTurns) <= From(RecentTurns)
          /\ From(ProtectedTurns) \in Nat /\ From(RecentTurns) \in Nat
          /\ i >= From(ProtectedTurns) => Request[y] = Trimmed[x]
      BY <1>9, <1>11
    <2> HIDE DEF x, y
    <2>3. i >= From(RecentTurns) => i >= From(ProtectedTurns)
      BY <1>4, <2>2
    <2> QED
      BY <1>7, <1>8, <2>1, <2>2, <2>3
  <1> QED
    BY <1>10, <1>11, RequestForms DEF y

-----------------------------------------------------------------------------
(* When all that may be pruned has been.                                     *)

LEMMA NoNotices ==
    ASSUME IInv, NEW u, Stubs(u, Everything), NEW i \in DOMAIN u
    PROVE  u[i].kind # "notice"
  <1>1. i \in DOMAIN Everything
        /\ (u[i] = Everything[i] \/ u[i].kind \in {"pruned", "superseded"})
    BY DEF Stubs
  <1>2. Everything[i].kind # "notice"
    BY <1>1, EverythingIs
  <1> QED
    BY <1>1, <1>2

\* The notice apart, a request without turns is just that.
LEMMA NoticeApart ==
    ASSUME IInv, NEW k \in Nat, NEW l \in Nat, Dropped(k, l)
    PROVE  WithoutNotice(Request) = WithoutTurns(Trimmed, Len(Pinned), implement, l - k)
  <1> DEFINE p == Len(Pinned)
             n == Len(history)
             c == Turns[k] + p
             d == Turns[l] + p
             e == d - c
             q == p + n
             f == First
             Q == Request
             T == Trimmed
             r == WithoutTurns(Trimmed, Len(Pinned), implement, l - k)
             m == Len(Q)
             notices == {i \in DOMAIN Q : Q[i].kind = "notice"}
  <1>1. /\ p \in Nat /\ n \in Nat /\ c \in 1 .. q /\ d \in 1 .. q /\ c < d
        /\ f \in Nat /\ f < c
        /\ DOMAIN T = 1 .. q
        /\ m = q - e + 1 /\ DOMAIN Q = 1 .. m
    BY DroppedIs
  <1>2. IsCut(r, T, c, d) /\ Spliced(Q, T, f, c, d)
    BY DEF Dropped
  <1>3. \A i \in DOMAIN T : T[i].kind # "notice"
    BY PiecesAre, NoNotices
  <1>4. Message("system", "notice").kind = "notice"
    BY DEF Message
  <1>5. WithoutNotice(Q) = IF notices = {} THEN Q ELSE RemoveAt(Q, CHOOSE i \in notices : TRUE)
    BY DEF WithoutNotice
  <1> HIDE DEF r, T, Q, f, c, d, m
  <1>0. c \in Nat /\ d \in Nat /\ e \in Nat /\ e > 0 /\ q \in Nat /\ c + e <= q
    <2>1. q \in Nat
      BY <1>1
    <2> HIDE DEF q
    <2>2. c \in Nat /\ d \in Nat
      BY <1>1, <2>1
    <2> QED
      BY <1>1, <2>1, <2>2
  <1> HIDE DEF e, q
  <1>6. /\ Q \in Seq(Messages) /\ Q[f + 1].kind = "notice"
        /\ \A i \in 1 .. m : /\ i <= f => Q[i] = T[i] /\ i \in 1 .. q
                             /\ f + 1 < i /\ i <= c => Q[i] = T[i - 1] /\ i - 1 \in 1 .. q
                             /\ i > c => Q[i] = T[i - 1 + e] /\ i - 1 + e \in 1 .. q
    BY <1>1, <1>2, <1>4 DEF Spliced, e
  <1>7. /\ r \in Seq(Messages) /\ Len(r) = m - 1 /\ DOMAIN r = 1 .. (m - 1)
        /\ \A i \in 1 .. (m - 1) : /\ i < c => r[i] = T[i]
                                   /\ i >= c => r[i] = T[i + e]
    <2>1. r \in Seq(Messages) /\ Len(r) = Len(T) - e
      BY <1>2 DEF IsCut, e
    <2>2. Len(T) = q
      <3>1. T \in Seq(Messages)
        BY PiecesAre DEF Stubs, T
      <3>2. Len(T) \in Nat /\ DOMAIN T = 1 .. Len(T)
        BY <3>1, LenProperties
      <3> QED
        BY <1>0, <1>1, <3>2
    <2>3. Len(r) = m - 1
      BY <1>0, <1>1, <2>1, <2>2
    <2>4. DOMAIN r = 1 .. (m - 1)
      BY <2>1, <2>3, LenProperties
    <2> QED
      BY <1>2, <2>1, <2>3, <2>4 DEF IsCut, e
  <1>8. m \in Nat /\ f + 1 \in 1 .. m /\ c <= m
    BY <1>0, <1>1
  <1>9. notices = {f + 1}
    <2>1. f + 1 \in notices
      BY <1>1, <1>6, <1>8
    <2>2. ASSUME NEW i \in notices PROVE i = f + 1
      <3> SUFFICES ASSUME i # f + 1 PROVE FALSE
        OBVIOUS
      <3>1. i \in 1 .. m /\ Q[i].kind = "notice"
        BY <1>1
      <3>2. i <= f \/ (f + 1 < i /\ i <= c) \/ i > c
        BY <1>0, <1>1, <3>1
      <3>3. \E j \in 1 .. q : Q[i] = T[j]
        BY <1>6, <3>1, <3>2
      <3> QED
        BY <1>1, <1>3, <3>1, <3>3
    <2> HIDE DEF notices
    <2> QED
      BY <2>1, <2>2
  <1> HIDE DEF notices
  <1>10. (CHOOSE i \in notices : TRUE) = f + 1 /\ notices # {}
    BY <1>9
  <1> DEFINE g == f + 1
             u == SubSeq(Q, 1, g - 1)
             v == SubSeq(Q, g + 1, m)
             w == u \o v
  <1>11. WithoutNotice(Q) = w
    BY <1>5, <1>10 DEF RemoveAt, m
  <1>12. g \in Nat /\ g >= 1 /\ g <= m /\ g <= c
    BY <1>1, <1>8, <1>0
  <1>13. \A i \in 1 .. m : Q[i] \in Messages
    BY <1>6, ElementOfSeq DEF m
  <1> HIDE DEF g
  <1>14. /\ u \in Seq(Messages) /\ Len(u) = IF 1 <= g - 1 THEN (g - 1) - 1 + 1 ELSE 0
         /\ \A i \in 1 .. (g - 1) - 1 + 1 : u[i] = Q[1 + i - 1]
    <2>1. 1 \in Int /\ g - 1 \in Int /\ \A i \in 1 .. (g - 1) : Q[i] \in Messages
      BY <1>8, <1>12, <1>13
    <2> QED
      BY <2>1, SubSeqProperties
  <1>15. /\ v \in Seq(Messages) /\ Len(v) = IF g + 1 <= m THEN m - (g + 1) + 1 ELSE 0
         /\ \A i \in 1 .. m - (g + 1) + 1 : v[i] = Q[g + 1 + i - 1]
    <2>1. m \in Int /\ g + 1 \in Int /\ \A i \in g + 1 .. m : Q[i] \in Messages
      BY <1>8, <1>12, <1>13
    <2> QED
      BY <2>1, SubSeqProperties
  <1> HIDE DEF u, v
  <1>16. Len(u) = g - 1 /\ Len(v) = m - g
    BY <1>8, <1>12, <1>14, <1>15
  <1>17. \A i \in 1 .. (g - 1) : u[i] = Q[i]
    <2> TAKE i \in 1 .. (g - 1)
    <2>1. i \in 1 .. (g - 1) - 1 + 1 /\ 1 + i - 1 = i
      BY <1>12
    <2> QED
      BY <1>14, <2>1
  <1>18. \A i \in g .. (m - 1) : v[i - (g - 1)] = Q[i + 1]
    <2> TAKE i \in g .. (m - 1)
    <2>1. i - (g - 1) \in 1 .. m - (g + 1) + 1 /\ g + 1 + (i - (g - 1)) - 1 = i + 1
      BY <1>8, <1>12
    <2> QED
      BY <1>15, <2>1
  <1>19. /\ w \in Seq(Messages) /\ Len(w) = Len(u) + Len(v)
         /\ \A i \in 1 .. Len(u) : w[i] = u[i]
         /\ \A i \in 1 .. Len(v) : w[Len(u) + i] = v[i]
    <2>1. u \in Seq(Messages) /\ v \in Seq(Messages)
      BY <1>14, <1>15
    <2> QED
      BY <2>1, JoinIs
  <1> HIDE DEF w
  <1>20. \A i \in 1 .. (m - 1) : w[i] = r[i]
    <2> TAKE i \in 1 .. (m - 1)
    <2>1. CASE i <= g - 1
      <3>1. i \in 1 .. (g - 1) /\ i \in 1 .. m /\ i <= f /\ i < c
        BY <1>0, <1>8, <1>12, <1>1, <2>1 DEF g
      <3> QED
        BY <1>6, <1>7, <1>16, <1>17, <1>19, <3>1, ZenonT(60)
    <2>2. CASE i >= g
      <3>1. i \in g .. (m - 1) /\ i - (g - 1) \in 1 .. (m - g) /\ (g - 1) + (i - (g - 1)) = i
        BY <1>8, <1>12, <2>2
      <3>2. w[i] = Q[i + 1]
        <4> DEFINE x == i - (g - 1)
        <4>1. v[x] = Q[i + 1]
          BY <1>18, <3>1
        <4>2. x \in 1 .. Len(v) /\ Len(u) + x = i
          BY <1>16, <3>1
        <4> HIDE DEF x
        <4>3. w[Len(u) + x] = v[x]
          BY <1>19, <4>2
        <4> QED
          BY <4>1, <4>2, <4>3
      <3>3. i + 1 \in 1 .. m /\ f + 1 < i + 1 /\ (i + 1) - 1 = i
        BY <1>1, <1>8, <1>12, <2>2 DEF g
      <3>4. CASE i < c
        <4>1. i + 1 <= c
          BY <1>0, <3>4
        <4> QED
          BY <1>6, <1>7, <3>2, <3>3, <3>4, <4>1
      <3>5. CASE i >= c
        <4>1. i + 1 > c /\ (i + 1) - 1 + e = i + e
          BY <1>0, <3>5
        <4> QED
          BY <1>6, <1>7, <3>2, <3>3, <3>5, <4>1
      <3> QED
        BY <1>0, <3>4, <3>5
    <2> QED
      BY <1>12, <2>1, <2>2
  <1>21. Len(w) = m - 1
    BY <1>8, <1>12, <1>16, <1>19
  <1>22. w = r
    BY <1>7, <1>19, <1>20, <1>21, SeqEqual
  <1> QED
    BY <1>11, <1>22 DEF r, Q
\* The turns that are left.
LEMMA TurnsLeft ==
    ASSUME IInv, NEW k \in Nat, NEW l \in Nat, Dropped(k, l)
    PROVE  Len(TurnStarts(Request, Len(Pinned))) <= Len(Turns) - (l - k)
  <1> DEFINE p == Len(Pinned)
             n == Len(history)
             c == Turns[k] + p
             d == Turns[l] + p
             e == d - c
             q == p + n
             f == First
             Q == Request
             T == Trimmed
             m == Len(Q)
             L == Len(Turns)
             U == {j \in DOMAIN Q : j > p /\ Q[j].role = "user"}
             src(j) == IF j <= f THEN j ELSE IF j <= c THEN j - 1 ELSE j - 1 + e
             left == L - (l - k)
  <1>1. /\ p \in Nat /\ n \in Nat /\ c \in 1 .. q /\ d \in 1 .. q /\ c < d
        /\ f \in Nat /\ f < c /\ p <= f
        /\ DOMAIN T = 1 .. q /\ DOMAIN Everything = 1 .. q /\ DOMAIN history = 1 .. n
        /\ m = q - e + 1 /\ DOMAIN Q = 1 .. m
    BY DroppedIs
  <1>2. Spliced(Q, T, f, c, d) /\ k \in 1 .. L /\ l \in 1 .. L /\ k < l
    BY DEF Dropped
  <1>3. Message("system", "notice").role = "system"
    BY DEF Message
  <1>4. /\ Len(Everything) = q
        /\ \A i \in DOMAIN Everything : i > p => i - p \in DOMAIN history /\ Everything[i] = history[i - p]
    BY EverythingIs
  <1>5. Stubs(T, Everything)
    BY PiecesAre
  <1>6. \A i \in 1 .. q : T[i].role = Everything[i].role
    BY <1>1, <1>5 DEF Stubs
  <1>7. /\ L \in Nat
        /\ \A i \in 1 .. L : /\ Turns[i] \in DOMAIN history /\ Turns[i] \in Nat /\ Turns[i] > 0
        /\ \A i, j \in 1 .. L : i < j => Turns[i] < Turns[j]
        /\ \A i \in DOMAIN history : history[i].role = "user" => \E j \in 1 .. L : Turns[j] = i
    BY <1>5, TurnsAre
  <1>8. TurnStarts(Q, p) = InOrder(U)
    BY DEF TurnStarts
  <1> HIDE DEF T, Q, f, m, L
  <1>9. Turns[k] \in Nat /\ Turns[l] \in Nat /\ Turns[k] + p = c /\ Turns[l] + p = d
    BY <1>2, <1>7
  <1> HIDE DEF c, d
  <1>0. c \in Nat /\ d \in Nat /\ e \in Nat /\ e > 0 /\ q \in Nat /\ c + e = d /\ d <= q
    <2>1. q \in Nat
      BY <1>1
    <2> HIDE DEF q
    <2>2. c \in Nat /\ d \in Nat
      BY <1>1, <2>1
    <2> QED
      BY <1>1, <2>1, <2>2
  <1>10. /\ Q[f + 1].role = "system"
         /\ \A i \in 1 .. m : /\ i <= f => Q[i] = T[i] /\ i \in 1 .. q
                              /\ f + 1 < i /\ i <= c => Q[i] = T[i - 1] /\ i - 1 \in 1 .. q
                              /\ i > c => Q[i] = T[i - 1 + e] /\ i - 1 + e \in 1 .. q
    BY <1>1, <1>2, <1>3 DEF Spliced, e
  <1> HIDE DEF e, q, p, n
  <1>11. \A j \in 1 .. m : j # f + 1 => Q[j] = T[src(j)] /\ src(j) \in 1 .. q
    <2> TAKE j \in 1 .. m
    <2> HAVE j # f + 1
    <2>1. j <= f \/ (f + 1 < j /\ j <= c) \/ j > c
      BY <1>0, <1>1
    <2>2. CASE j <= f
      BY <1>10, <2>2
    <2>3. CASE f + 1 < j /\ j <= c
      <3>1. src(j) = j - 1
        BY <1>1, <2>3
      <3> QED
        BY <1>10, <2>3, <3>1
    <2>4. CASE j > c
      <3>1. src(j) = j - 1 + e
        BY <1>0, <1>1, <2>4
      <3> QED
        BY <1>10, <2>4, <3>1
    <2> QED
      BY <2>1, <2>2, <2>3, <2>4
  <1>12. \A j \in U : j \in 1 .. m /\ j > p /\ j # f + 1 /\ Q[j].role = "user" /\ j \in Nat
    BY <1>1, <1>10
  <1>13. ASSUME NEW j \in U
         PROVE  /\ src(j) \in Nat /\ src(j) > p /\ (src(j) < c \/ src(j) >= d)
                /\ \E i \in 1 .. L : Turns[i] + p = src(j)
    <2> DEFINE s == src(j)
    <2>1. s > p /\ (s < c \/ s >= d) /\ s \in Nat
      <3>1. j \in Nat /\ j > p /\ j # f + 1
        BY <1>12
      <3>2. p \in Nat /\ f \in Nat /\ f < c /\ p <= f /\ c \in Nat /\ d \in Nat /\ e \in Nat
            /\ c + e = d /\ e > 0
        BY <1>0, <1>1
      <3>3. CASE j <= f
        <4>1. s = j
          BY <3>3
        <4> HIDE DEF s
        <4> QED
          BY <3>1, <3>2, <3>3, <4>1
      <3>4. CASE ~(j <= f) /\ j <= c
        <4>1. s = j - 1
          BY <3>4
        <4> HIDE DEF s
        <4> QED
          BY <3>1, <3>2, <3>4, <4>1
      <3>5. CASE ~(j <= f) /\ ~(j <= c)
        <4>1. s = j - 1 + e
          BY <3>5
        <4> HIDE DEF s
        <4> QED
          BY <3>1, <3>2, <3>5, <4>1
      <3> QED
        BY <3>3, <3>4, <3>5
    <2>2. s \in 1 .. q /\ T[s].role = "user"
      BY <1>11, <1>12
    <2> HIDE DEF s
    <2>3. Everything[s].role = "user"
      BY <1>6, <2>2
    <2>4. s - p \in DOMAIN history /\ history[s - p].role = "user"
      BY <1>1, <1>4, <2>1, <2>2, <2>3
    <2>5. PICK i \in 1 .. L : Turns[i] = s - p
      BY <1>7, <2>4
    <2>6. Turns[i] + p = s
      BY <1>1, <2>1, <2>5
    <2> QED
      BY <2>1, <2>6 DEF s
  <1>14. \A i, j \in U : src(i) = src(j) => i = j
    <2> SUFFICES ASSUME NEW i \in U, NEW j \in U, src(i) = src(j) PROVE i = j
      OBVIOUS
    <2>1. i \in Nat /\ j \in Nat /\ i # f + 1 /\ j # f + 1
      BY <1>12
    <2> QED
      BY <1>0, <1>1, <2>1
  <1> DEFINE idx(j) == CHOOSE i \in 1 .. L : Turns[i] + p = src(j)
             to(i) == IF i < k THEN i ELSE i - (l - k)
             g == [j \in U |-> to(idx(j))]
  <1> HIDE DEF src
  <1>15. \A j \in U : idx(j) \in 1 .. L /\ Turns[idx(j)] + p = src(j)
    BY <1>13
  <1> HIDE DEF idx
  <1>16. ASSUME NEW j \in U
         PROVE  idx(j) \in 1 .. L /\ (idx(j) < k \/ idx(j) >= l)
    <2> DEFINE x == idx(j)
    <2>1. x \in 1 .. L /\ Turns[x] + p = src(j)
      BY <1>15
    <2> HIDE DEF x
    <2>2. Turns[x] \in Nat /\ x \in Nat /\ (Turns[x] < Turns[k] \/ Turns[x] >= Turns[l])
      <3>1. Turns[x] \in Nat /\ x \in Nat
        BY <1>7, <2>1
      <3>2. src(j) \in Nat /\ (src(j) < c \/ src(j) >= d)
        BY <1>13
      <3>3. p \in Nat /\ Turns[k] \in Nat /\ Turns[l] \in Nat /\ c = Turns[k] + p /\ d = Turns[l] + p
        BY <1>1, <1>9
      <3>4. src(j) = Turns[x] + p
        BY <2>1
      <3> QED
        BY <3>1, <3>2, <3>3, <3>4
    <2>3. k \in 1 .. L /\ l \in 1 .. L /\ k < l
      BY <1>2
    <2>4. Turns[x] < Turns[k] => x < k
      <3>1. x = k => Turns[x] = Turns[k]
        OBVIOUS
      <3>2. k < x => Turns[k] < Turns[x]
        BY <1>7, <2>1, <2>3
      <3> QED
        BY <1>9, <2>2, <3>1, <3>2
    <2>5. Turns[x] >= Turns[l] => x >= l
      <3>1. x < l => Turns[x] < Turns[l]
        BY <1>7, <2>1, <2>3
      <3> QED
        BY <1>9, <2>2, <3>1
    <2> QED
      BY <2>1, <2>2, <2>4, <2>5 DEF x
  <1>17. left \in Nat /\ left >= 1
    BY <1>2, <1>7
  <1>18. \A j \in U : to(idx(j)) \in 1 .. left
    <2> TAKE j \in U
    <2> DEFINE x == idx(j)
    <2>1. x \in 1 .. L /\ (x < k \/ x >= l)
      BY <1>16
    <2> HIDE DEF x
    <2>2. to(x) \in 1 .. left
      BY <1>2, <1>7, <2>1
    <2> QED
      BY <2>2 DEF x
  <1>19. \A i, j \in U : to(idx(i)) = to(idx(j)) => i = j
    <2> SUFFICES ASSUME NEW i \in U, NEW j \in U, to(idx(i)) = to(idx(j)) PROVE i = j
      OBVIOUS
    <2> DEFINE x == idx(i)
               y == idx(j)
    <2>1. x \in 1 .. L /\ (x < k \/ x >= l) /\ y \in 1 .. L /\ (y < k \/ y >= l) /\ to(x) = to(y)
      BY <1>16
    <2> HIDE DEF x, y
    <2>2. x = y
      BY <1>2, <1>7, <2>1
    <2>3. src(i) = src(j)
      BY <1>15, <2>2 DEF x, y
    <2> QED
      BY <1>14, <2>3
  <1> HIDE DEF to, left
  <1>20. g \in Injection(U, 1 .. left)
    <2>1. g \in [U -> 1 .. left]
      BY <1>18
    <2>2. \A i, j \in U : g[i] = g[j] => i = j
      BY <1>19
    <2> HIDE DEF g
    <2> QED
      BY <2>1, <2>2 DEF Injection, IsInjective
  <1>21. Cardinality(U) <= Cardinality(1 .. left) /\ Cardinality(1 .. left) = left
    <2>1. IsFiniteSet(1 .. left) /\ Cardinality(1 .. left) = left
      <3>1. 1 \in Int /\ left \in Int /\ ~(1 > left)
        BY <1>17
      <3>2. left - 1 + 1 = left
        BY <1>17
      <3> QED
        BY <3>1, <3>2, FS_Interval
    <2>2. Cardinality(U) <= Cardinality(1 .. left)
      <3> HIDE DEF U, g
      <3> QED
        BY <1>20, <2>1, FS_Injection
    <2> QED
      BY <2>1, <2>2
  <1>22. Len(InOrder(U)) = Cardinality(U)
    <2>1. m \in Nat
      BY <1>0, <1>1
    <2>2. U \in SUBSET (1 .. m)
      BY <1>1
    <2> HIDE DEF U
    <2> QED
      BY <2>1, <2>2, InOrderIs
  <1> QED
    BY <1>8, <1>21, <1>22 DEF Q, p, left, L

\* What is left of the results is in the latest turns.
LEMMA ResultsLeft ==
    ASSUME IInv, Request = Trimmed \/ \E k, l \in Nat : Dropped(k, l),
           NEW i \in DOMAIN Request, Request[i].kind = "result", i > Len(Pinned) + 1
    PROVE  i - Shift >= From(RecentTurns)
  <1> DEFINE p == Len(Pinned)
             n == Len(history)
  <1>1. /\ Len(Everything) = p + n /\ n \in Nat
        /\ DOMAIN Everything = 1 .. (p + n)
        /\ \A j \in DOMAIN Everything : Proper(Everything[j])
    BY EverythingIs DEF Sent
  <1>2. p \in 1 .. 2 /\ implement \in BOOLEAN
    BY PinnedIs, PiecesAre
  <1>3. Stubs(Trimmed, Everything) /\ First \in Nat /\ First <= Whole
    BY PiecesAre
  <1>4. First <= p + 1
    BY <1>2, <1>3 DEF Whole
  <1>5. RecentTurns \in Nat /\ RecentTurns > 0 /\ Len(Turns) \in Nat
        /\ \A k \in 1 .. Len(Turns) : Turns[k] \in Nat /\ Turns[k] > 0
    BY <1>3, RequestConstants, TurnsAre
  <1>6. ASSUME NEW x \in DOMAIN Everything, x > First, Trimmed[x].kind = "result"
        PROVE  ~(x < Recent)
    <2>1. Trimmed[x] = Everything[x]
      BY <1>3, <1>6 DEF Stubs
    <2>2. Everything[x].role = "tool"
      BY <1>1, <1>6, <2>1 DEF Proper
    <2>3. First < x
      BY <1>1, <1>3, <1>6
    <2> QED
      BY <1>6, <2>2, <2>3, PiecesDiffer
  <1>7. DOMAIN Trimmed = DOMAIN Everything /\ Len(Trimmed) = p + n
    BY <1>1, <1>3 DEF Stubs
  <1> HIDE DEF p, n
  <1>8. CASE Request = Trimmed
    <2>1. i \in 1 .. (p + n) /\ i > First /\ Shift = p
      BY <1>1, <1>2, <1>3, <1>4, <1>7, <1>8 DEF Shift, n, p
    <2>2. ~(i < Recent)
      BY <1>1, <1>6, <1>8, <2>1
    <2>3. CASE Len(Turns) <= RecentTurns
      <3>1. From(RecentTurns) = 1
        BY <2>3 DEF From
      <3> QED
        BY <1>1, <1>2, <2>1, <3>1 DEF p
    <2>4. CASE ~(Len(Turns) <= RecentTurns)
      <3> DEFINE t == Turns[Len(Turns) - RecentTurns + 1]
      <3>1. t \in Nat
        <4>1. Len(Turns) - RecentTurns + 1 \in 1 .. Len(Turns)
          BY <1>5, <2>4
        <4> QED
          BY <1>5, <4>1
      <3>2. From(RecentTurns) = t /\ Recent = t + p
        BY <2>4 DEF From, Recent, p
      <3> HIDE DEF t
      <3> QED
        BY <1>1, <1>2, <2>1, <2>2, <3>1, <3>2
    <2> QED
      BY <2>3, <2>4
  <1>9. ASSUME NEW k \in Nat, NEW l \in Nat, Dropped(k, l)
        PROVE  i - Shift >= From(RecentTurns)
    <2> DEFINE c == Turns[k] + p
               d == Turns[l] + p
               e == d - c
               q == p + n
               m == Len(Request)
               a == From(RecentTurns)
    <2>1. /\ c \in 1 .. q /\ d \in 1 .. q /\ c < d
          /\ First < c /\ p <= First
          /\ DOMAIN Trimmed = 1 .. q
          /\ m = q - e + 1 /\ DOMAIN Request = 1 .. m
          /\ d <= From(ProtectedTurns) + p /\ From(ProtectedTurns) <= a
          /\ Recent = a + p /\ a \in Nat /\ From(ProtectedTurns) \in Nat
      BY <1>9, DroppedIs DEF p, n
    <2>2. Spliced(Request, Trimmed, First, c, d)
      BY <1>9 DEF Dropped, p
    <2> HIDE DEF c, d, m, a
    <2>3. c \in Nat /\ d \in Nat /\ e \in Nat /\ e > 0 /\ q \in Nat /\ c + e = d /\ d <= q
      <3>1. q \in Nat
        BY <1>1, <1>2
      <3> HIDE DEF q
      <3>2. c \in Nat /\ d \in Nat
        BY <2>1, <3>1
      <3> QED
        BY <2>1, <3>1, <3>2
    <2>4. /\ First + 1 < i /\ i <= c => Request[i] = Trimmed[i - 1] /\ i - 1 \in 1 .. q
          /\ i > c => Request[i] = Trimmed[i - 1 + e] /\ i - 1 + e \in 1 .. q
      BY <2>1, <2>2 DEF Spliced
    <2> HIDE DEF e, q
    <2>5. i \in Nat /\ m \in Nat
      BY <2>1, <2>3
    <2>6. First + 1 < i
      <3>1. i > p + 1
        BY DEF p
      <3>2. p \in Nat
        BY <1>2
      <3>3. i # First + 1
        BY <2>2 DEF Spliced, Message
      <3> QED
        BY <1>3, <1>4, <2>5, <3>1, <3>2, <3>3
    <2>7. i > c
      <3> SUFFICES ASSUME i <= c PROVE FALSE
        BY <2>3, <2>5
      <3> DEFINE x == i - 1
      <3>1. Request[i] = Trimmed[x] /\ x \in 1 .. q
        BY <2>4, <2>6
      <3>2. x > First /\ x < c /\ x \in Nat
        BY <1>3, <2>3, <2>5, <2>6
      <3> HIDE DEF x
      <3>3. x \in DOMAIN Everything /\ Trimmed[x].kind = "result"
        BY <1>7, <2>1, <3>1
      <3>4. ~(x < Recent)
        BY <1>6, <3>2, <3>3
      <3> QED
        BY <1>2, <2>1, <2>3, <3>2, <3>4
    <2> DEFINE x == i - 1 + e
    <2>8. Request[i] = Trimmed[x] /\ x \in 1 .. q
      BY <2>4, <2>7
    <2>9. x > First /\ x \in Nat
      BY <1>3, <2>1, <2>3, <2>5, <2>7
    <2> HIDE DEF x
    <2>10. x \in DOMAIN Everything /\ Trimmed[x].kind = "result"
      BY <1>7, <2>1, <2>8
    <2>11. ~(x < Recent)
      BY <1>6, <2>9, <2>10
    <2>12. Shift = (q - e + 1) - n
      BY <2>1 DEF Shift, m, n
    <2>13. i - Shift >= a
      <3>1. x = i - 1 + e
        BY DEF x
      <3>2. q = p + n /\ p \in Nat /\ n \in Nat
        BY <1>1, <1>2 DEF q
      <3>3. Recent = a + p /\ a \in Nat /\ ~(x < Recent)
        BY <2>1, <2>11
      <3>4. e \in Nat /\ i \in Nat /\ x \in Nat
        BY <2>3, <2>5, <2>9
      <3>5. Shift \in Int /\ Shift + e = p + 1
        BY <2>12, <3>2, <3>4
      <3>6. x >= a + p
        BY <3>2, <3>3, <3>4
      <3> HIDE DEF x
      <3> QED
        BY <3>1, <3>2, <3>3, <3>4, <3>5, <3>6
    <2> QED
      BY <2>13 DEF a
  <1> QED
    BY <1>8, <1>9

\* Without a notice it is as it is.
LEMMA NothingApart ==
    ASSUME IInv, NEW u, Stubs(u, Everything)
    PROVE  WithoutNotice(u) = u
  <1>1. {i \in DOMAIN u : u[i].kind = "notice"} = {}
    BY NoNotices
  <1> QED
    BY <1>1 DEF WithoutNotice

\* It prunes until the request fits or nothing it may touch is left.
LEMMA PrunedEnough ==
    ASSUME IInv, ~Fits(WithoutNotice(Request))
    PROVE  /\ Len(TurnStarts(Request, Len(Pinned))) <= Floor
           /\ Request = Trimmed \/ \E k, l \in Nat : Dropped(k, l)
  <1>1. Stubs(Coalesced, Everything) /\ Stubs(Trimmed, Everything)
    BY PiecesAre
  <1>2. Stubs(Everything, Everything)
    BY EverythingIs, StubsSelf DEF Sent
  <1>3. \A u : Stubs(u, Everything) /\ Request = u => ~Fits(Request)
    BY NothingApart
  <1>4. \/ Request = Trimmed /\ Len(Turns) <= Floor
        \/ \E k, l \in Nat : Dropped(k, l)
    BY <1>1, <1>2, <1>3, RequestForms
  <1>5. CASE Request = Trimmed /\ Len(Turns) <= Floor
    <2>1. Len(TurnStarts(Trimmed, Len(Pinned))) = Len(Turns)
      BY <1>1, TurnsAre
    <2> QED
      BY <1>5, <2>1
  <1>6. ASSUME NEW k \in Nat, NEW l \in Nat, Dropped(k, l)
        PROVE  Len(TurnStarts(Request, Len(Pinned))) <= Floor
    <2>1. WithoutNotice(Request) = WithoutTurns(Trimmed, Len(Pinned), implement, l - k)
      BY <1>6, NoticeApart
    <2>2. Len(Turns) - (l - k) = Floor
      BY <1>6, <2>1 DEF Dropped
    <2> QED
      BY <1>6, <2>2, TurnsLeft
  <1> QED
    BY <1>4, <1>5, <1>6

LEMMA PruneHolds ==
    ASSUME IInv
    PROVE  PruneSound(Request)
  <1>1. SubSeq(Request, 1, Len(Pinned)) = Pinned
    BY PrefixKept
  <1>2. (\E i \in DOMAIN history : history[i].kind = "package")
           => \E i \in DOMAIN Request : Request[i].kind = "package"
    BY PackageKept
  <1>3. \A i \in DOMAIN history :
           /\ i >= From(ProtectedTurns) =>
                 Request[i + Shift] = history[i]
                   \/ (history[i].role = "tool" /\ Request[i + Shift].of = history[i].of)
           /\ (i >= From(RecentTurns) /\ Request[i + Shift] # history[i]) =>
                 Request[i + Shift].kind = "superseded"
    BY TailKept
  <1>4. Fits(Everything) => Request = Everything
    BY DEF Request, Prune, Everything
  <1>5. ~Fits(WithoutNotice(Request)) =>
           /\ Len(TurnStarts(Request, Len(Pinned))) <= Floor
           /\ \A i \in DOMAIN Request :
                 (Request[i].kind = "result" /\ i > Len(Pinned) + 1) =>
                     i - Shift >= From(RecentTurns)
    BY PrunedEnough, ResultsLeft
  <1> QED
    BY <1>1, <1>2, <1>3, <1>4, <1>5 DEF PruneSound, Everything, Shift, From, Turns, Floor

\* The same call, though it may have been made twice.
SameCall(m, n) == m.of.name = n.of.name /\ m.of.arg = n.of.arg

\* Of the results of one call, the last one is left.
LEMMA LastResult ==
    ASSUME IInv, ServerIds, NEW x \in DOMAIN Everything, Coalesced[x].kind = "superseded"
    PROVE  /\ x > First /\ Everything[x].role = "tool"
           /\ \E y \in DOMAIN Everything :
                 /\ y > x /\ Coalesced[y] = Everything[y] /\ Everything[y].kind = "result"
                 /\ SameCall(Everything[y], Everything[x])
  <1> DEFINE ms == Everything
             sig(i) == Signature(ms, ms[i])
             N == Len(ms)
             later(i) == \E j \in (First + 1) .. N : j > i /\ sig(j) = sig(i)
  <1>1. /\ Sent(ms) /\ DOMAIN ms = 1 .. N
        /\ \A i \in DOMAIN ms : ms[i].kind \notin {"pruned", "superseded", "notice"}
    BY EverythingIs
  <1>2. ms \in Seq(Messages) /\ \A i \in DOMAIN ms : Proper(ms[i])
    BY <1>1 DEF Sent
  <1>3. First \in Nat /\ N \in Nat
    BY <1>2, LenProperties, PiecesAre
  <1>4. \A i \in DOMAIN ms :
           \/ i > First /\ sig(i) # Nobody /\ later(i) /\ ms[i].role = "tool"
           \/ Coalesced[i] = ms[i] /\ ~(i > First /\ sig(i) # Nobody /\ later(i))
    BY <1>2, <1>3, CoalesceIs DEF Coalesced
  <1>5. x > First /\ sig(x) # Nobody /\ later(x) /\ ms[x].role = "tool"
    BY <1>1, <1>4
  <1>6. \A i \in DOMAIN ms : sig(i) # Nobody =>
           ms[i].role = "tool" /\ sig(i) = <<ms[i].of.name, ms[i].of.arg>>
    BY <1>1, SignatureIs
  <1> HIDE DEF ms, sig, N
  <1> DEFINE S == {j \in (First + 1) .. N : j > x /\ sig(j) = sig(x)}
             A == {N - j : j \in S}
  <1>7. A \in SUBSET Nat /\ A # {}
    BY <1>3, <1>5
  <1>8. PICK a \in A : \A b \in A : a <= b
    <2> HIDE DEF A
    <2> QED
      BY <1>7, Least
  <1>9. PICK y \in S : a = N - y
    OBVIOUS
  <1>10. \A j \in S : j <= y
    <2> TAKE j \in S
    <2>1. N - y <= N - j
      BY <1>8, <1>9
    <2> QED
      BY <1>3, <2>1
  <1> HIDE DEF A
  <1>11. y \in DOMAIN ms /\ y > First /\ y > x /\ sig(y) = sig(x)
    BY <1>1, <1>3
  <1>12. ~later(y)
    <2> SUFFICES ASSUME NEW j \in (First + 1) .. N, j > y, sig(j) = sig(y)
                 PROVE  FALSE
      OBVIOUS
    <2>1. x \in Nat /\ y \in Nat /\ j \in Nat
      BY <1>1, <1>3, <1>11 DEF ms
    <2>2. j \in S
      BY <1>11, <2>1
    <2> QED
      BY <1>10, <2>1, <2>2
  <1>13. Coalesced[y] = ms[y]
    BY <1>4, <1>11, <1>12
  <1>14. ms[y].role = "tool" /\ sig(y) = <<ms[y].of.name, ms[y].of.arg>>
    BY <1>5, <1>6, <1>11
  <1>15. ms[y].kind = "result"
    BY <1>1, <1>2, <1>11, <1>14 DEF Proper
  <1>16. SameCall(ms[y], ms[x])
    <2>1. sig(x) = <<ms[x].of.name, ms[x].of.arg>>
      BY <1>5, <1>6 DEF ms
    <2>2. <<ms[x].of.name, ms[x].of.arg>> = <<ms[y].of.name, ms[y].of.arg>>
      BY <1>11, <1>14, <2>1
    <2>3. ms[x].of.name = ms[y].of.name /\ ms[x].of.arg = ms[y].of.arg
      BY <2>2
    <2> QED
      BY <2>3 DEF SameCall
  <1> QED
    BY <1>5, <1>11, <1>13, <1>15, <1>16 DEF ms

\* Also when the older results are stubs as well.
LEMMA LastLeft ==
    ASSUME IInv, ServerIds, NEW x \in DOMAIN Everything, Trimmed[x].kind = "superseded"
    PROVE  /\ x > First /\ ~(x < Recent) /\ Trimmed[x] = Coalesced[x]
           /\ \E y \in DOMAIN Everything :
                 /\ y > x /\ Trimmed[y].kind \in {"result", "pruned"}
                 /\ SameCall(Trimmed[y], Trimmed[x])
  <1>1. Stubs(Trimmed, Everything)
    BY PiecesAre
  <1>2. /\ Trimmed[x] = Coalesced[x]
        /\ ~(First < x /\ x < Recent /\ Everything[x].role = "tool")
    BY PiecesDiffer
  <1>3. x > First /\ Everything[x].role = "tool"
    BY <1>2, LastResult
  <1>4. PICK y \in DOMAIN Everything :
           /\ y > x /\ Coalesced[y] = Everything[y] /\ Everything[y].kind = "result"
           /\ SameCall(Everything[y], Everything[x])
    BY <1>2, LastResult
  <1>5. Trimmed[y].kind \in {"result", "pruned"}
    BY <1>4, PiecesDiffer
  <1>6. SameCall(Trimmed[y], Trimmed[x])
    BY <1>1, <1>4 DEF Stubs, SameCall
  <1>7. First < x
    BY <1>3, EverythingIs, PiecesAre
  <1> QED
    BY <1>2, <1>3, <1>4, <1>5, <1>6, <1>7

LEMMA StubsHold ==
    ASSUME IInv, ServerIds
    PROVE  StubsTrue(Request)
  <1> SUFFICES ASSUME NEW i \in DOMAIN Request, Request[i].kind = "superseded"
               PROVE  \E j \in (i + 1) .. Len(Request) :
                          Request[j].kind \in {"result", "pruned"} /\ SameCall(Request[j], Request[i])
    BY DEF StubsTrue, SameCall
  <1>1. Stubs(Coalesced, Everything) /\ Stubs(Trimmed, Everything)
    BY PiecesAre
  <1>2. /\ DOMAIN Everything = 1 .. Len(Everything) /\ Len(Everything) \in Nat
        /\ \A x \in DOMAIN Everything : Everything[x].kind \notin {"pruned", "superseded", "notice"}
    <2>1. Everything \in Seq(Messages)
      BY EverythingIs DEF Sent
    <2> QED
      BY <2>1, EverythingIs, LenProperties
  <1>3. CASE Request = Everything
    BY <1>2, <1>3
  <1>4. CASE Request = Coalesced
    <2>1. i \in DOMAIN Everything /\ Len(Request) = Len(Everything)
      BY <1>1, <1>4 DEF Stubs
    <2>2. PICK y \in DOMAIN Everything :
             /\ y > i /\ Coalesced[y] = Everything[y] /\ Everything[y].kind = "result"
             /\ SameCall(Everything[y], Everything[i])
      BY <1>4, <2>1, LastResult
    <2>3. y \in (i + 1) .. Len(Request)
      BY <1>2, <2>1, <2>2
    <2>4. SameCall(Request[y], Request[i])
      BY <1>1, <1>4, <2>1, <2>2 DEF Stubs, SameCall
    <2> QED
      BY <1>4, <2>2, <2>3, <2>4
  <1>5. CASE Request = Trimmed
    <2>1. i \in DOMAIN Everything /\ Len(Request) = Len(Everything)
      BY <1>1, <1>5 DEF Stubs
    <2>2. PICK y \in DOMAIN Everything :
             y > i /\ Trimmed[y].kind \in {"result", "pruned"} /\ SameCall(Trimmed[y], Trimmed[i])
      BY <1>5, <2>1, LastLeft
    <2>3. y \in (i + 1) .. Len(Request)
      BY <1>2, <2>1, <2>2
    <2> QED
      BY <1>5, <2>2, <2>3
  <1>6. ASSUME NEW k \in Nat, NEW l \in Nat, Dropped(k, l)
        PROVE  \E j \in (i + 1) .. Len(Request) :
                  Request[j].kind \in {"result", "pruned"} /\ SameCall(Request[j], Request[i])
    <2> DEFINE p == Len(Pinned)
               n == Len(history)
               c == Turns[k] + p
               d == Turns[l] + p
               e == d - c
               q == p + n
               m == Len(Request)
    <2>1. /\ p \in Nat /\ n \in Nat /\ c \in 1 .. q /\ d \in 1 .. q /\ c < d
          /\ First \in Nat /\ First < c
          /\ DOMAIN Trimmed = 1 .. q /\ DOMAIN Everything = 1 .. q
          /\ m = q - e + 1 /\ DOMAIN Request = 1 .. m
          /\ d <= Recent /\ Recent \in Nat
      <3>1. /\ d <= From(ProtectedTurns) + p /\ From(ProtectedTurns) <= From(RecentTurns) /\ p \in Nat
            /\ Recent = From(RecentTurns) + p /\ From(RecentTurns) \in Nat /\ From(ProtectedTurns) \in Nat
            /\ d \in 1 .. q /\ q \in Nat
        BY <1>6, DroppedIs, SMTT(60)
      <3>2. d <= Recent /\ Recent \in Nat
        <4> HIDE DEF d, p, q
        <4> QED
          BY <3>1
      <3> QED
        BY <1>6, <3>2, DroppedIs
    <2>2. Spliced(Request, Trimmed, First, c, d)
      BY <1>6 DEF Dropped
    <2> HIDE DEF c, d, m, n, p
    <2>3. c \in Nat /\ d \in Nat /\ e \in Nat /\ e > 0 /\ q \in Nat /\ c + e = d /\ d <= q
      <3>1. q \in Nat
        BY <2>1
      <3> HIDE DEF q
      <3>2. c \in Nat /\ d \in Nat
        BY <2>1, <3>1
      <3> QED
        BY <2>1, <3>1, <3>2, SMTT(60)
    <2>12. Request[First + 1].kind = "notice"
      BY <2>2 DEF Spliced, Message
    <2>4. /\ i <= First => Request[i] = Trimmed[i] /\ i \in 1 .. q
          /\ First + 1 < i /\ i <= c => Request[i] = Trimmed[i - 1] /\ i - 1 \in 1 .. q
          /\ i > c => Request[i] = Trimmed[i - 1 + e] /\ i - 1 + e \in 1 .. q
          /\ \A y \in 1 .. q : y >= d => Request[y + 1 - e] = Trimmed[y]
      BY <2>1, <2>2 DEF Spliced
    <2> HIDE DEF e, q
    <2>5. i \in Nat /\ m \in Nat /\ i # First + 1
      BY <2>1, <2>3, <2>12
    <2>6. ~(i <= First)
      <3> SUFFICES ASSUME i <= First PROVE FALSE
        OBVIOUS
      <3>1. i \in DOMAIN Everything /\ Request[i] = Trimmed[i]
        BY <2>1, <2>4
      <3>2. Trimmed[i] = Everything[i]
        BY <3>1, PiecesDiffer
      <3> QED
        BY <1>2, <3>1, <3>2
    <2>7. i > c
      <3> SUFFICES ASSUME i <= c PROVE FALSE
        BY <2>3, <2>5
      <3> DEFINE x == i - 1
      <3>1. First + 1 < i
        BY <2>1, <2>5, <2>6
      <3>2. Request[i] = Trimmed[x] /\ x \in 1 .. q
        BY <2>4, <3>1
      <3>3. x < c
        BY <2>3, <2>5
      <3> HIDE DEF x
      <3>4. ~(x < Recent)
        BY <2>1, <3>2, LastLeft
      <3> QED
        BY <2>1, <2>3, <3>2, <3>3, <3>4
    <2> DEFINE x == i - 1 + e
    <2>8. Request[i] = Trimmed[x] /\ x \in 1 .. q /\ x >= d
      BY <2>3, <2>4, <2>5, <2>7
    <2>9. PICK y \in 1 .. q :
             y > x /\ Trimmed[y].kind \in {"result", "pruned"} /\ SameCall(Trimmed[y], Trimmed[x])
      <3> HIDE DEF x
      <3> QED
        BY <2>1, <2>8, LastLeft
    <2> DEFINE j == y + 1 - e
    <2>10. y >= d /\ j \in (i + 1) .. m
      BY <2>1, <2>3, <2>5, <2>8, <2>9
    <2>11. Request[j] = Trimmed[y]
      BY <2>4, <2>10
    <2> HIDE DEF j, x
    <2> QED
      BY <2>8, <2>9, <2>10, <2>11 DEF m
  <1> QED
    BY <1>3, <1>4, <1>5, <1>6, RequestForms

\* However often the history was pruned, what every request of a session leaves
\* out is what budget::prune says it may leave out: the prefix, the work package
\* and the latest turns are there, and it stops pruning only when the request
\* fits or nothing else may go.
THEOREM RequestsPruned == RequestsSpec => []PruneSound(Request)
  <1>1. RequestsSpec => []IInv
    BY HistoryInOrder
  <1>2. IInv => PruneSound(Request)
    BY PruneHolds
  <1> QED
    BY <1>1, <1>2, PTL

\* When the provider tells calls apart, each stub also says the truth: "superseded -
\* see the latest below" stands above a result of the same call, or above its stub.
THEOREM StubsTellTrue == ASSUME ServerIds PROVE RequestsSpec => []PruneTrue
  <1>1. RequestsSpec => []IInv
    BY HistoryInOrder
  <1>2. IInv => PruneTrue
    BY PruneHolds, StubsHold DEF PruneTrue
  <1> QED
    BY <1>1, <1>2, PTL
=============================================================================
