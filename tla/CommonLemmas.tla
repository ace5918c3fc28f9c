---------------------------- MODULE CommonLemmas -----------------------------
(***************************************************************************)
(* Facts the proofs share. Numbers: the least of a set, and ranks, for "the *)
(* first call that remains" and "the tasks in the step's order". Sequences: *)
(* the last element and what is before it, and what FlattenSeq makes of a   *)
(* sequence of sequences.                                                   *)
(***************************************************************************)
EXTENDS Integers, FiniteSets, SequencesExt, FiniteSetTheorems, SequenceTheorems,
        WellFoundedInduction, TLAPS

\* Numbers have a least element.
LEMMA Least ==
    ASSUME NEW T \in SUBSET Nat, T # {}
    PROVE  \E i \in T : \A k \in T : i <= k
<1> DEFINE R == OpToRel(<, Nat)
<1>1. IsWellFoundedOn(R, Nat)
  BY NatLessThanWellFounded
<1>2. \A x, y \in Nat : <<x, y>> \in R <=> x < y
  BY DEF OpToRel
<1> HIDE DEF R
<1>3. PICK x \in T : \A y \in T : ~(<<y, x>> \in R)
  BY <1>1, WFMin
<1>4. \A y \in T : x <= y
  <2> TAKE y \in T
  <2>1. x \in Nat /\ y \in Nat
    OBVIOUS
  <2>2. ~(y < x)
    BY <1>2, <1>3, <2>1
  <2> QED
    BY <2>1, <2>2
<1> QED
  BY <1>4

\* Of a set of n numbers, each of 1 .. n is the rank of one.
LEMMA EveryRank ==
    ASSUME NEW n \in Nat, NEW S \in SUBSET (1 .. n), NEW i \in 1 .. Cardinality(S)
    PROVE  \E t \in S : Cardinality({u \in S : u <= t}) = i
<1> DEFINE UpTo(t) == {u \in S : u <= t}
<1>1. IsFiniteSet(S) /\ Cardinality(S) \in Nat /\ i \in Nat
  <2>1. IsFiniteSet(S)
    <3>1. IsFiniteSet(1 .. n)
      BY FS_Interval
    <3> QED
      BY <3>1, FS_Subset
  <2>2. Cardinality(S) \in Nat
    BY <2>1, FS_CardinalityType
  <2> QED
    BY <2>2, <2>1
<1>0. \A u \in S : u \in Nat /\ 1 <= u /\ u <= n
  <2>1. \A u \in S : u \in 1 .. n
    OBVIOUS
  <2> QED
    BY <2>1
<1>2. \A t : IsFiniteSet(UpTo(t)) /\ Cardinality(UpTo(t)) \in Nat
  BY <1>1, FS_Subset, FS_CardinalityType
<1> DEFINE T == {t \in Nat : i <= Cardinality(UpTo(t))}
<1>3. T \in SUBSET Nat /\ T # {}
  <2>1. UpTo(n) = S
    BY <1>0
  <2>2. n \in T
    BY <1>1, <2>1
  <2> QED
    BY <2>2
<1>4. PICK t \in T : \A k \in T : t <= k
  <2> HIDE DEF T
  <2> QED
    BY <1>3, Least
<1>5. t \in Nat /\ i <= Cardinality(UpTo(t))
  BY <1>4
<1>6. t # 0
  <2>1. UpTo(0) = {}
    <3>1. \A u \in S : ~(u <= 0)
      BY <1>0
    <3> QED
      BY <3>1
  <2>2. Cardinality(UpTo(0)) = 0
    BY <2>1, FS_EmptySet
  <2> QED
    BY <1>1, <1>5, <2>2
<1>7. t - 1 \in Nat /\ ~(i <= Cardinality(UpTo(t - 1)))
  <2>1. t - 1 \in Nat /\ ~(t <= t - 1)
    BY <1>5, <1>6
  <2>2. t - 1 \notin T
    BY <1>4, <2>1
  <2> QED
    BY <2>1, <2>2
<1>8. t \in S
  <2> SUFFICES ASSUME t \notin S PROVE FALSE
    OBVIOUS
  <2>1. \A u \in S : u <= t <=> u <= t - 1
    BY <1>0, <1>5
  <2>2. UpTo(t) = UpTo(t - 1)
    BY <2>1
  <2> QED
    BY <1>5, <1>7, <2>2
<1>9. UpTo(t) = UpTo(t - 1) \union {t} /\ t \notin UpTo(t - 1)
  <2>1. \A u \in S : u <= t <=> u <= t - 1 \/ u = t
    BY <1>0, <1>5
  <2>2. UpTo(t) = {u \in S : u <= t - 1 \/ u = t}
    BY <2>1
  <2>3. {u \in S : u <= t - 1 \/ u = t} = UpTo(t - 1) \union {t}
    BY <1>8
  <2>4. t \notin UpTo(t - 1)
    BY <1>5
  <2> QED
    BY <2>2, <2>3, <2>4, Zenon
<1>10. Cardinality(UpTo(t)) = Cardinality(UpTo(t - 1)) + 1
  <2> HIDE DEF UpTo
  <2> QED
    BY <1>2, <1>9, FS_AddElement
<1>11. Cardinality(UpTo(t)) = i
  <2> HIDE DEF UpTo
  <2> QED
    BY <1>1, <1>2, <1>5, <1>7, <1>10
<1> QED
  BY <1>8, <1>11

-----------------------------------------------------------------------------
\* A sequence that is not empty is its front and its last element.
LEMMA FrontLast ==
    ASSUME NEW S, NEW t \in Seq(S), t # <<>>
    PROVE  /\ Front(t) \in Seq(S) /\ Last(t) \in S
           /\ t = Append(Front(t), Last(t))
           /\ Len(t) \in Nat \ {0} /\ Len(Front(t)) = Len(t) - 1
           /\ Last(t) = t[Len(t)]
           /\ \A i \in 1 .. Len(t) - 1 : Front(t)[i] = t[i]
<1>1. Len(t) \in Nat \ {0} /\ \A i \in 1 .. Len(t) : t[i] \in S
  <2>1. Len(t) \in Nat \ {0}
    BY EmptySeq
  <2> QED
    BY <2>1, ElementOfSeq
<1>2. /\ Front(t) \in Seq(S) /\ Len(Front(t)) = Len(t) - 1
      /\ \A i \in 1 .. Len(t) - 1 : Front(t)[i] = t[i]
  <2>1. 1 \in Int /\ Len(t) - 1 \in Int /\ \A i \in 1 .. Len(t) - 1 : t[i] \in S
    BY <1>1
  <2>2. Front(t) = SubSeq(t, 1, Len(t) - 1)
    BY DEF Front
  <2>3. /\ SubSeq(t, 1, Len(t) - 1) \in Seq(S)
        /\ Len(SubSeq(t, 1, Len(t) - 1)) = IF 1 <= Len(t) - 1 THEN (Len(t) - 1) - 1 + 1 ELSE 0
        /\ \A i \in 1 .. (Len(t) - 1) - 1 + 1 : SubSeq(t, 1, Len(t) - 1)[i] = t[1 + i - 1]
    BY <2>1, SubSeqProperties
  <2>4. ASSUME NEW i \in 1 .. Len(t) - 1 PROVE Front(t)[i] = t[i]
    <3>1. i \in 1 .. (Len(t) - 1) - 1 + 1 /\ 1 + i - 1 = i
      BY <1>1
    <3> QED
      BY <2>2, <2>3, <3>1, Zenon
  <2>5. (IF 1 <= Len(t) - 1 THEN (Len(t) - 1) - 1 + 1 ELSE 0) = Len(t) - 1
    <3>1. \A n \in Nat \ {0} : (IF 1 <= n - 1 THEN (n - 1) - 1 + 1 ELSE 0) = n - 1
      OBVIOUS
    <3> QED
      BY <1>1, <3>1, Zenon
  <2> QED
    BY <2>2, <2>3, <2>4, <2>5, Zenon
<1>3. Last(t) = t[Len(t)] /\ Last(t) \in S
  BY <1>1 DEF Last
<1>4. t = Append(Front(t), Last(t))
  <2>1. Append(Front(t), Last(t)) \in Seq(S) /\ Len(Append(Front(t), Last(t))) = Len(t)
    BY <1>1, <1>2, <1>3
  <2>2. \A i \in 1 .. Len(t) : Append(Front(t), Last(t))[i] = t[i]
    BY <1>1, <1>2, <1>3
  <2> QED
    BY <2>1, <2>2, SeqEqual
<1> QED
  BY <1>1, <1>2, <1>3, <1>4

-----------------------------------------------------------------------------
(* FlattenSeq. Its recursive function is the only one of its kind, found by *)
(* looking at the first place where there would be none, or two.            *)

Cuts(s, f, n, S) ==
    /\ f \in [1 .. n -> Seq(S)]
    /\ \A i \in 1 .. n : f[i] = IF i = 1 THEN s[i] ELSE f[i - 1] \o s[i]

LEMMA CutsExist ==
    ASSUME NEW S, NEW s \in Seq(Seq(S)), NEW n \in 1 .. Len(s)
    PROVE  \E f : Cuts(s, f, n, S)
<1> DEFINE Bad == {m \in 1 .. Len(s) : ~\E f : Cuts(s, f, m, S)}
<1> SUFFICES ASSUME Bad # {} PROVE FALSE
  OBVIOUS
<1>1. Bad \in SUBSET Nat
  BY LenProperties
<1>2. PICK m \in Bad : \A k \in Bad : m <= k
  <2> HIDE DEF Bad
  <2> QED
    BY <1>1, Least
<1>3. m \in 1 .. Len(s) /\ s[m] \in Seq(S) /\ s[1] \in Seq(S)
  BY <1>2, LenProperties, ElementOfSeq
<1>4. CASE m = 1
  <2>1. Cuts(s, [i \in 1 .. 1 |-> s[1]], 1, S)
    BY <1>3 DEF Cuts
  <2> QED
    BY <1>2, <1>4, <2>1
<1>5. CASE m # 1
  <2>1. m - 1 \in 1 .. Len(s) /\ ~(m <= m - 1)
    BY <1>3, <1>5, LenProperties
  <2>2. PICK f : Cuts(s, f, m - 1, S)
    BY <1>2, <2>1
  <2> DEFINE g == [i \in 1 .. m |-> IF i = m THEN f[m - 1] \o s[m] ELSE f[i]]
  <2>3. f[m - 1] \o s[m] \in Seq(S)
    BY <1>3, <2>1, <2>2, ConcatProperties DEF Cuts
  <2>4. g \in [1 .. m -> Seq(S)]
    BY <1>3, <2>2, <2>3 DEF Cuts
  <2>5. \A i \in 1 .. m : g[i] = IF i = 1 THEN s[i] ELSE g[i - 1] \o s[i]
    <3> TAKE i \in 1 .. m
    <3>1. CASE i = m
      <4>1. m \in 1 .. m /\ m - 1 \in 1 .. m /\ m - 1 # m
        BY <1>3, <1>5, <2>1
      <4>2. g[m] = f[m - 1] \o s[m] /\ g[m - 1] = f[m - 1]
        BY <4>1
      <4> HIDE DEF g
      <4> QED
        BY <1>5, <3>1, <4>2
    <3>2. CASE i # m
      <4>1. i \in 1 .. m - 1 /\ g[i] = f[i] /\ (i # 1 => i - 1 \in 1 .. m /\ g[i - 1] = f[i - 1])
        BY <1>3, <3>2
      <4> HIDE DEF g
      <4> QED
        BY <2>2, <4>1 DEF Cuts
    <3> QED
      BY <3>1, <3>2
  <2>6. Cuts(s, g, m, S)
    <3> HIDE DEF g
    <3> QED
      BY <2>4, <2>5 DEF Cuts
  <2> QED
    BY <1>2, <2>6
<1> QED
  BY <1>4, <1>5

LEMMA CutsAgree ==
    ASSUME NEW S, NEW n \in Nat, NEW m \in 0 .. n, NEW s, NEW r, NEW f, NEW g,
           \A i \in 1 .. m : s[i] = r[i],
           Cuts(s, f, n, S), Cuts(r, g, m, S)
    PROVE  \A i \in 1 .. m : f[i] = g[i]
<1> DEFINE Bad == {i \in 1 .. m : f[i] # g[i]}
<1> SUFFICES ASSUME Bad # {} PROVE FALSE
  OBVIOUS
<1>1. PICK i \in Bad : \A k \in Bad : i <= k
  <2>1. Bad \in SUBSET Nat
    OBVIOUS
  <2> HIDE DEF Bad
  <2> QED
    BY <2>1, Least
<1>0. i \in 1 .. m /\ i \in 1 .. n /\ f[i] # g[i]
  BY <1>1
<1>2. CASE i = 1
  <2>1. f[i] = s[i] /\ g[i] = r[i]
    BY <1>0, <1>2 DEF Cuts
  <2> QED
    BY <1>0, <2>1
<1>3. CASE i # 1
  <2>1. i - 1 \in 1 .. m /\ ~(i <= i - 1) /\ i \in 1 .. n
    BY <1>1, <1>3
  <2>2. f[i - 1] = g[i - 1]
    BY <1>1, <2>1
  <2>3. f[i] = f[i - 1] \o s[i] /\ g[i] = g[i - 1] \o r[i]
    BY <1>0, <1>3 DEF Cuts
  <2> QED
    BY <1>0, <2>2, <2>3
<1> QED
  BY <1>2, <1>3

LEMMA FlattenIs ==
    ASSUME NEW S, NEW s \in Seq(Seq(S)), s # <<>>
    PROVE  \E f : Cuts(s, f, Len(s), S) /\ FlattenSeq(s) = f[Len(s)]
<1> DEFINE Cut(f) == [i \in 1 .. Len(s) |-> IF i = 1 THEN s[i] ELSE f[i - 1] \o s[i]]
           flat == CHOOSE f : f = Cut(f)
<1>1. Len(s) \in Nat \ {0}
  BY EmptySeq
<1>2. FlattenSeq(s) = flat[Len(s)]
  BY <1>1 DEF FlattenSeq
<1>3. PICK f : Cuts(s, f, Len(s), S)
  BY <1>1, CutsExist
<1>4. f = Cut(f)
  BY <1>3 DEF Cuts
<1>5. flat = Cut(flat)
  BY <1>4
<1>6. \A i \in 1 .. Len(s) : flat[i] = f[i]
  <2> DEFINE Bad == {i \in 1 .. Len(s) : flat[i] # f[i]}
  <2> SUFFICES ASSUME Bad # {} PROVE FALSE
    OBVIOUS
  <2>1. PICK i \in Bad : \A k \in Bad : i <= k
    <3>1. Bad \in SUBSET Nat
      <4> HIDE DEF flat
      <4> QED
        BY <1>1
    <3> HIDE DEF Bad
    <3> QED
      BY <3>1, Least
  <2>2. \A j \in 1 .. Len(s) : flat[j] = IF j = 1 THEN s[j] ELSE flat[j - 1] \o s[j]
    <3> HIDE DEF flat
    <3> QED
      BY <1>5
  <2> HIDE DEF flat
  <2>3. CASE i = 1
    BY <1>3, <2>1, <2>2, <2>3 DEF Cuts
  <2>4. CASE i # 1
    <3>1. i - 1 \in 1 .. Len(s) /\ ~(i <= i - 1)
      BY <1>1, <2>1, <2>4
    <3>2. flat[i - 1] = f[i - 1]
      BY <2>1, <3>1
    <3> QED
      BY <1>3, <2>1, <2>2, <2>4, <3>2, ZenonT(60) DEF Cuts
  <2> QED
    BY <2>3, <2>4
<1> QED
  <2>1. Len(s) \in 1 .. Len(s)
    BY <1>1
  <2> HIDE DEF flat
  <2> QED
    BY <1>2, <1>3, <1>6, <2>1

LEMMA FlattenEmpty == FlattenSeq(<<>>) = <<>>
  BY DEF FlattenSeq

LEMMA FlattenAppend ==
    ASSUME NEW S, NEW s \in Seq(Seq(S)), NEW x \in Seq(S)
    PROVE  /\ FlattenSeq(s) \in Seq(S)
           /\ FlattenSeq(Append(s, x)) = FlattenSeq(s) \o x
<1> DEFINE u == Append(s, x)
<1>1. /\ u \in Seq(Seq(S)) /\ u # <<>> /\ Len(u) = Len(s) + 1 /\ Len(s) \in Nat
      /\ u[Len(s) + 1] = x /\ \A i \in 1 .. Len(s) : u[i] = s[i]
  BY AppendProperties, LenProperties
<1>2. PICK g : Cuts(u, g, Len(u), S) /\ FlattenSeq(u) = g[Len(u)]
  BY <1>1, FlattenIs
<1>3. CASE s = <<>>
  <2>1. FlattenSeq(s) = <<>> /\ Len(u) = 1
    BY <1>1, <1>3, FlattenEmpty
  <2>2. g[1] = x
    BY <1>1, <1>2, <1>3, <2>1 DEF Cuts
  <2> QED
    BY <1>2, <2>1, <2>2, ConcatEmptySeq, EmptySeq
<1>4. CASE s # <<>>
  <2>1. PICK f : Cuts(s, f, Len(s), S) /\ FlattenSeq(s) = f[Len(s)]
    BY <1>4, FlattenIs
  <2>2. Len(s) \in 1 .. Len(s)
    BY <1>1, <1>4, EmptySeq
  <2>3. \A i \in 1 .. Len(s) : g[i] = f[i]
    <3>1. Len(u) \in Nat
      BY <1>1
    <3>2. Len(s) \in 0 .. Len(u)
      BY <1>1
    <3>3. \A i \in 1 .. Len(s) : u[i] = s[i]
      BY <1>1
    <3>4. Cuts(u, g, Len(u), S) /\ Cuts(s, f, Len(s), S)
      BY <1>2, <2>1
    <3> HIDE DEF u
    <3>5. \A n \in Nat : \A m \in 0 .. n : \A r, q, h, k :
             /\ \A i \in 1 .. m : r[i] = q[i]
             /\ Cuts(r, h, n, S) /\ Cuts(q, k, m, S)
             => \A i \in 1 .. m : h[i] = k[i]
      BY CutsAgree
    <3> QED
      BY <3>1, <3>2, <3>3, <3>4, <3>5
  <2>4. g[Len(u)] = g[Len(s)] \o x
    <3>1. Len(u) \in 1 .. Len(u) /\ Len(u) # 1 /\ Len(u) - 1 = Len(s) /\ u[Len(u)] = x
      BY <1>1, <2>2
    <3> HIDE DEF u
    <3> QED
      BY <1>2, <3>1 DEF Cuts
  <2>5. f[Len(s)] \in Seq(S)
    BY <2>1, <2>2 DEF Cuts
  <2> QED
    BY <1>2, <2>1, <2>2, <2>3, <2>4, <2>5
<1> QED
  BY <1>3, <1>4

-----------------------------------------------------------------------------
\* What the empty sequence has, and each append keeps, all sequences have.
LEMMA ByAppending ==
    ASSUME NEW S, NEW G, <<>> \in G,
           \A s \in Seq(S), x \in S : s \in G => Append(s, x) \in G
    PROVE  Seq(S) \subseteq G
<1> SUFFICES ASSUME NEW z \in Seq(S), z \notin G PROVE FALSE
  OBVIOUS
<1> DEFINE T == {n \in Nat : \E s \in Seq(S) : Len(s) = n /\ s \notin G}
<1>1. T # {} /\ T \in SUBSET Nat
  BY LenProperties
<1> HIDE DEF T
<1>2. PICK n \in T : \A k \in T : n <= k
  BY <1>1, Least
<1>3. PICK s \in Seq(S) : Len(s) = n /\ s \notin G
  BY <1>2 DEF T
<1>4. s # <<>>
  BY <1>3
<1>5. /\ Front(s) \in Seq(S) /\ Last(s) \in S /\ s = Append(Front(s), Last(s))
      /\ Len(s) \in Nat /\ Len(Front(s)) = Len(s) - 1
  BY <1>4, FrontLast
<1>6. Front(s) \notin G
  BY <1>3, <1>5
<1>7. Len(Front(s)) \in T
  BY <1>5, <1>6, LenProperties DEF T
<1> QED
  BY <1>2, <1>3, <1>5, <1>7

\* SetToSeq lists each element of a finite set, and once.
LEMMA SetToSeqIs ==
    ASSUME NEW S, IsFiniteSet(S)
    PROVE  /\ SetToSeq(S) \in Seq(S)
           /\ \A i, j \in DOMAIN SetToSeq(S) : SetToSeq(S)[i] = SetToSeq(S)[j] => i = j
           /\ \A x \in S : \E i \in DOMAIN SetToSeq(S) : SetToSeq(S)[i] = x
<1> DEFINE n == Cardinality(S)
           f == SetToSeq(S)
<1>1. n \in Nat /\ \E g \in [1 .. n -> S] : IsInjective(g)
  BY FS_CardinalityType DEF ExistsBijection, Bijection, Injection
<1>2. f \in [1 .. n -> S] /\ IsInjective(f)
  BY <1>1 DEF SetToSeq
<1> HIDE DEF f
<1>3. f \in Seq(S)
  BY <1>1, <1>2
<1>4. f \in Injection(1 .. n, S)
  BY <1>2 DEF Injection
<1>5. IsFiniteSet(1 .. n) /\ Cardinality(1 .. n) = n
  BY <1>1, FS_Interval
<1>6. f \in Surjection(1 .. n, S)
  BY <1>4, <1>5, FS_Injection
<1> QED
  BY <1>2, <1>3, <1>6 DEF f, Surjection, IsInjective
=============================================================================
