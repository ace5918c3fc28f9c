--------------------------- MODULE ProvidersProofs ---------------------------
(* Proofs about what a start finds stored. Of Providers: that the picker, the *)
(* discovery, providers.json and what is known of models agree, whatever      *)
(* lands when, and that saving and removing one provider leaves the others.   *)
(* After them, of Setup: that .suis/ and .gitignore are what the user agreed  *)
(* to, whatever fails. Then of Choosers: that what a list highlights is what  *)
(* its keys act on; and of Dialogs: that each returns what is shown in it.    *)
EXTENDS Providers, Setup, Choosers, Dialogs, CommonLemmas, TLAPS

-----------------------------------------------------------------------------
(* The entries of some ids.                                                  *)

Distinct(s) == \A i, j \in DOMAIN s : s[i].id = s[j].id => i = j

LEMMA EntriesOfEmpty == \A ids : EntriesOf(<<>>, ids) = <<>>
<1> SUFFICES ASSUME NEW ids PROVE EntriesOf(<<>>, ids) = <<>>
  OBVIOUS
<1> DEFINE pieces == [i \in DOMAIN <<>> |-> IF <<>>[i].id \in ids THEN << <<>>[i] >> ELSE <<>>]
<1>1. pieces = <<>>
  OBVIOUS
<1> QED
  BY <1>1, FlattenEmpty DEF EntriesOf

LEMMA EntriesOfAppend ==
    ASSUME NEW s \in Seq(Entries), NEW x \in Entries, NEW ids
    PROVE  /\ EntriesOf(s, ids) \in Seq(Entries)
           /\ EntriesOf(Append(s, x), ids) =
                 IF x.id \in ids THEN Append(EntriesOf(s, ids), x) ELSE EntriesOf(s, ids)
<1> DEFINE u == Append(s, x)
           piece(e) == IF e.id \in ids THEN <<e>> ELSE <<>>
           pieces(t) == [i \in DOMAIN t |-> piece(t[i])]
<1>1. \A e \in Entries : piece(e) \in Seq(Entries)
  OBVIOUS
<1>2. /\ u \in Seq(Entries) /\ Len(u) = Len(s) + 1 /\ Len(s) \in Nat
      /\ u[Len(s) + 1] = x /\ \A i \in 1 .. Len(s) : u[i] = s[i]
      /\ DOMAIN u = 1 .. Len(s) + 1 /\ DOMAIN s = 1 .. Len(s)
  BY AppendProperties, LenProperties
<1> HIDE DEF u, piece
<1>3. pieces(s) \in Seq(Seq(Entries)) /\ Len(pieces(s)) = Len(s)
  BY <1>1, <1>2
<1>4. pieces(u) \in Seq(Seq(Entries)) /\ Len(pieces(u)) = Len(s) + 1
  BY <1>1, <1>2
<1>5. Append(pieces(s), piece(x)) \in Seq(Seq(Entries)) /\ Len(Append(pieces(s), piece(x))) = Len(s) + 1
  BY <1>1, <1>3, <1>2
<1>6. \A i \in 1 .. Len(s) + 1 : pieces(u)[i] = Append(pieces(s), piece(x))[i]
  <2> SUFFICES ASSUME NEW i \in 1 .. Len(s) + 1
               PROVE  pieces(u)[i] = Append(pieces(s), piece(x))[i]
    OBVIOUS
  <2>1. CASE i = Len(s) + 1
    BY <1>1, <1>2, <1>3, <2>1
  <2>2. CASE i \in 1 .. Len(s)
    BY <1>1, <1>2, <1>3, <2>2
  <2> QED
    BY <1>2, <2>1, <2>2
<1>7. pieces(u) = Append(pieces(s), piece(x))
  BY <1>4, <1>5, <1>6, SeqEqual
<1>8. EntriesOf(s, ids) = FlattenSeq(pieces(s)) /\ EntriesOf(u, ids) = FlattenSeq(pieces(u))
  BY DEF EntriesOf, piece
<1> HIDE DEF pieces
<1>9. /\ EntriesOf(s, ids) \in Seq(Entries)
      /\ EntriesOf(u, ids) = EntriesOf(s, ids) \o piece(x)
  BY <1>1, <1>3, <1>7, <1>8, FlattenAppend
<1>10. EntriesOf(u, ids) = IF x.id \in ids THEN Append(EntriesOf(s, ids), x) ELSE EntriesOf(s, ids)
  <2>1. CASE x.id \in ids
    <3>1. EntriesOf(s, ids) \o <<x>> = Append(EntriesOf(s, ids), x)
      BY <1>9
    <3> QED
      BY <1>9, <2>1, <3>1 DEF piece
  <2>2. CASE x.id \notin ids
    <3>1. EntriesOf(s, ids) \o <<>> = EntriesOf(s, ids)
      BY <1>9
    <3> QED
      BY <1>9, <2>2, <3>1 DEF piece
  <2> QED
    BY <2>1, <2>2
<1> QED
  BY <1>9, <1>10 DEF u

\* What was picked out may be picked from.
LEMMA EntriesOfSome ==
    ASSUME NEW s \in Seq(Entries), NEW ids, NEW some
    PROVE  EntriesOf(EntriesOf(s, ids), some) = EntriesOf(s, ids \intersect some)
<1> DEFINE G == {t \in Seq(Entries) :
                    EntriesOf(EntriesOf(t, ids), some) = EntriesOf(t, ids \intersect some)}
<1>1. <<>> \in G
  BY EntriesOfEmpty
<1>2. ASSUME NEW t \in Seq(Entries), NEW x \in Entries, t \in G
      PROVE  Append(t, x) \in G
  <2>1. EntriesOf(t, ids) \in Seq(Entries) /\ Append(t, x) \in Seq(Entries)
    BY EntriesOfAppend
  <2>2. EntriesOf(EntriesOf(t, ids), some) = EntriesOf(t, ids \intersect some)
    BY <1>2
  <2>3. CASE x.id \in ids
    <3>1. EntriesOf(Append(t, x), ids) = Append(EntriesOf(t, ids), x)
      BY <2>3, EntriesOfAppend
    <3>2. EntriesOf(Append(EntriesOf(t, ids), x), some) =
             IF x.id \in some THEN Append(EntriesOf(EntriesOf(t, ids), some), x)
                              ELSE EntriesOf(EntriesOf(t, ids), some)
      BY <2>1, EntriesOfAppend
    <3>3. EntriesOf(Append(t, x), ids \intersect some) =
             IF x.id \in ids \intersect some THEN Append(EntriesOf(t, ids \intersect some), x)
                                             ELSE EntriesOf(t, ids \intersect some)
      BY EntriesOfAppend
    <3>4. EntriesOf(EntriesOf(Append(t, x), ids), some) = EntriesOf(Append(t, x), ids \intersect some)
      <4>1. CASE x.id \in some
        BY <2>2, <2>3, <3>1, <3>2, <3>3, <4>1
      <4>2. CASE x.id \notin some
        BY <2>2, <2>3, <3>1, <3>2, <3>3, <4>2
      <4> QED
        BY <4>1, <4>2
    <3> QED
      BY <2>1, <3>4
  <2>4. CASE x.id \notin ids
    <3>1. EntriesOf(Append(t, x), ids) = EntriesOf(t, ids)
      BY <2>4, EntriesOfAppend
    <3>2. EntriesOf(Append(t, x), ids \intersect some) = EntriesOf(t, ids \intersect some)
      BY <2>4, EntriesOfAppend
    <3> QED
      BY <2>1, <2>2, <3>1, <3>2
  <2> QED
    BY <2>3, <2>4
<1> HIDE DEF G
<1>3. Seq(Entries) \subseteq G
  BY <1>1, <1>2, ByAppending
<1> QED
  BY <1>3 DEF G

\* The ids picked out are the ones asked for that are there.
LEMMA EntriesOfIds ==
    ASSUME NEW s \in Seq(Entries), NEW ids
    PROVE  /\ EntriesOf(s, ids) \in Seq(Entries)
           /\ IdsOf(EntriesOf(s, ids)) = IdsOf(s) \intersect ids
<1> DEFINE G == {t \in Seq(Entries) : /\ EntriesOf(t, ids) \in Seq(Entries)
                                      /\ IdsOf(EntriesOf(t, ids)) = IdsOf(t) \intersect ids}
<1>1. <<>> \in G
  <2>1. IdsOf(<<>>) = {} /\ <<>> \in Seq(Entries) /\ EntriesOf(<<>>, ids) = <<>>
    BY EntriesOfEmpty DEF IdsOf
  <2> HIDE DEF IdsOf
  <2> QED
    BY <2>1
<1>2. \A t \in Seq(Entries), x \in Entries : IdsOf(Append(t, x)) = IdsOf(t) \union {x.id}
  <2> SUFFICES ASSUME NEW t \in Seq(Entries), NEW x \in Entries
               PROVE  IdsOf(Append(t, x)) = IdsOf(t) \union {x.id}
    OBVIOUS
  <2>1. /\ DOMAIN t = 1 .. Len(t) /\ DOMAIN Append(t, x) = 1 .. Len(t) + 1 /\ Len(t) \in Nat
        /\ Append(t, x)[Len(t) + 1] = x /\ \A i \in 1 .. Len(t) : Append(t, x)[i] = t[i]
    BY AppendProperties, LenProperties
  <2>2. 1 .. Len(t) + 1 = (1 .. Len(t)) \union {Len(t) + 1}
    BY <2>1
  <2> QED
    BY <2>1, <2>2 DEF IdsOf
<1>3. ASSUME NEW t \in Seq(Entries), NEW x \in Entries, t \in G
      PROVE  Append(t, x) \in G
  <2>1. EntriesOf(Append(t, x), ids) =
           IF x.id \in ids THEN Append(EntriesOf(t, ids), x) ELSE EntriesOf(t, ids)
    BY EntriesOfAppend
  <2>2. Append(t, x) \in Seq(Entries) /\ EntriesOf(Append(t, x), ids) \in Seq(Entries)
    BY <1>3, <2>1
  <2>3. CASE x.id \in ids
    <3>1. EntriesOf(Append(t, x), ids) = Append(EntriesOf(t, ids), x) /\ EntriesOf(t, ids) \in Seq(Entries)
      BY <1>3, <2>1, <2>3
    <3>2. /\ IdsOf(Append(EntriesOf(t, ids), x)) = IdsOf(EntriesOf(t, ids)) \union {x.id}
          /\ IdsOf(Append(t, x)) = IdsOf(t) \union {x.id}
          /\ IdsOf(EntriesOf(t, ids)) = IdsOf(t) \intersect ids
      BY <1>2, <1>3, <3>1
    <3>3. IdsOf(EntriesOf(Append(t, x), ids)) = IdsOf(Append(t, x)) \intersect ids
      BY <2>3, <3>1, <3>2
    <3> QED
      BY <2>2, <3>3
  <2>4. CASE x.id \notin ids
    BY <1>2, <1>3, <2>1, <2>2, <2>4
  <2> QED
    BY <2>3, <2>4
<1> HIDE DEF G
<1>4. Seq(Entries) \subseteq G
  BY <1>1, <1>3, ByAppending
<1> QED
  BY <1>4 DEF G

\* Where no id is there twice, an id picks out its entry.
LEMMA EntriesOfOne ==
    ASSUME NEW s \in Seq(Entries), Distinct(s)
    PROVE  /\ \A ids : Distinct(EntriesOf(s, ids))
           /\ \A i \in DOMAIN s : EntriesOf(s, {s[i].id}) = <<s[i]>>
           /\ \A id : id \notin IdsOf(s) => EntriesOf(s, {id}) = <<>>
<1> DEFINE P(t) == /\ \A ids : Distinct(EntriesOf(t, ids))
                   /\ \A i \in DOMAIN t : EntriesOf(t, {t[i].id}) = <<t[i]>>
                   /\ \A id : id \notin IdsOf(t) => EntriesOf(t, {id}) = <<>>
           G == {t \in Seq(Entries) : Distinct(t) => P(t)}
<1>1. <<>> \in G
  BY EntriesOfEmpty DEF Distinct
<1>2. ASSUME NEW t \in Seq(Entries), NEW x \in Entries, t \in G, Distinct(Append(t, x))
      PROVE  P(Append(t, x))
  <2> DEFINE u == Append(t, x)
  <2>1. /\ DOMAIN t = 1 .. Len(t) /\ DOMAIN u = 1 .. Len(t) + 1 /\ Len(t) \in Nat
        /\ u[Len(t) + 1] = x /\ \A i \in 1 .. Len(t) : u[i] = t[i]
    BY AppendProperties, LenProperties
  <2>2. Distinct(t) /\ x.id \notin IdsOf(t)
    BY <1>2, <2>1 DEF Distinct, IdsOf
  <2>3. P(t)
    BY <1>2, <2>2
  <2>4. \A ids : EntriesOf(u, ids) = IF x.id \in ids THEN Append(EntriesOf(t, ids), x) ELSE EntriesOf(t, ids)
    BY EntriesOfAppend
  <2> HIDE DEF u, P
  <2>5. ASSUME NEW ids PROVE Distinct(EntriesOf(u, ids))
    <3> DEFINE v == EntriesOf(t, ids)
    <3>1. v \in Seq(Entries) /\ x.id \notin IdsOf(v) /\ Distinct(v)
      BY <2>2, <2>3, EntriesOfIds DEF P
    <3>2. CASE x.id \notin ids
      BY <2>4, <3>1, <3>2
    <3>3. CASE x.id \in ids
      <4>1. EntriesOf(u, ids) = Append(v, x)
        BY <2>4, <3>3
      <4> HIDE DEF v
      <4>2. /\ DOMAIN v = 1 .. Len(v) /\ DOMAIN Append(v, x) = 1 .. Len(v) + 1 /\ Len(v) \in Nat
            /\ Append(v, x)[Len(v) + 1] = x /\ \A i \in 1 .. Len(v) : Append(v, x)[i] = v[i]
        BY <3>1, AppendProperties, LenProperties
      <4>3. \A i \in 1 .. Len(v) : v[i].id # x.id
        BY <3>1, <4>2 DEF IdsOf
      <4>4. \A i, j \in 1 .. Len(v) : v[i].id = v[j].id => i = j
        BY <3>1, <4>2 DEF Distinct
      <4> QED
        BY <4>1, <4>2, <4>3, <4>4 DEF Distinct
    <3> QED
      BY <3>2, <3>3
  <2>6. ASSUME NEW id, id \notin IdsOf(u) PROVE EntriesOf(u, {id}) = <<>>
    <3>1. id # x.id /\ id \notin IdsOf(t)
      BY <2>1, <2>6 DEF IdsOf
    <3> QED
      BY <2>3, <2>4, <3>1 DEF P
  <2>7. ASSUME NEW i \in DOMAIN u PROVE EntriesOf(u, {u[i].id}) = <<u[i]>>
    <3>1. CASE i = Len(t) + 1
      <4>1. EntriesOf(t, {x.id}) = <<>>
        BY <2>2, <2>3 DEF P
      <4>2. EntriesOf(u, {x.id}) = Append(<<>>, x)
        BY <2>4, <4>1
      <4>3. Append(<<>>, x) = <<x>>
        OBVIOUS
      <4>4. u[i] = x
        BY <2>1, <3>1
      <4> QED
        BY <4>2, <4>3, <4>4
    <3>2. CASE i \in DOMAIN t
      <4>1. u[i] = t[i] /\ t[i].id # x.id
        BY <2>1, <2>2, <3>2 DEF IdsOf
      <4> QED
        BY <2>3, <2>4, <3>2, <4>1 DEF P
    <3> QED
      BY <2>1, <3>1, <3>2
  <2> QED
    BY <2>5, <2>6, <2>7 DEF P, u
<1>3. ASSUME NEW t \in Seq(Entries), NEW x \in Entries, t \in G PROVE Append(t, x) \in G
  <2> HIDE DEF P
  <2>1. Append(t, x) \in Seq(Entries)
    OBVIOUS
  <2>2. Distinct(Append(t, x)) => P(Append(t, x))
    BY <1>2, <1>3
  <2> QED
    BY <2>1, <2>2
<1> HIDE DEF G
<1>4. Seq(Entries) \subseteq G
  BY <1>1, <1>3, ByAppending
<1> QED
  BY <1>4 DEF G

\* An entry that takes the place of another leaves the entries of other ids.
LEMMA EntriesOfExcept ==
    ASSUME NEW s \in Seq(Entries), NEW i \in DOMAIN s, NEW e \in Entries, NEW ids,
           s[i].id \notin ids, e.id \notin ids
    PROVE  EntriesOf([s EXCEPT ![i] = e], ids) = EntriesOf(s, ids)
<1> DEFINE u == [s EXCEPT ![i] = e]
           pieces(t) == [k \in DOMAIN t |-> IF t[k].id \in ids THEN <<t[k]>> ELSE <<>>]
<1>1. DOMAIN u = DOMAIN s /\ u[i] = e /\ \A k \in DOMAIN s \ {i} : u[k] = s[k]
  OBVIOUS
<1> HIDE DEF u
<1>2. \A k \in DOMAIN s : pieces(u)[k] = pieces(s)[k]
  BY <1>1
<1>3. pieces(u) = pieces(s)
  BY <1>1, <1>2
<1> QED
  BY <1>3 DEF EntriesOf, u

LEMMA DistinctAppend ==
    ASSUME NEW s \in Seq(Entries), NEW x \in Entries, Distinct(s), x.id \notin IdsOf(s)
    PROVE  Append(s, x) \in Seq(Entries) /\ Distinct(Append(s, x))
<1>1. /\ DOMAIN s = 1 .. Len(s) /\ DOMAIN Append(s, x) = 1 .. Len(s) + 1 /\ Len(s) \in Nat
      /\ Append(s, x)[Len(s) + 1] = x /\ \A i \in 1 .. Len(s) : Append(s, x)[i] = s[i]
  BY AppendProperties, LenProperties
<1>2. \A i \in 1 .. Len(s) : s[i].id # x.id
  BY <1>1 DEF IdsOf
<1>3. \A i, j \in 1 .. Len(s) : s[i].id = s[j].id => i = j
  BY <1>1 DEF Distinct
<1> QED
  BY <1>1, <1>2, <1>3 DEF Distinct

LEMMA FirstIs ==
    ASSUME NEW s \in Seq(Entries), Distinct(s), NEW id \in IdsOf(s)
    PROVE  First(s, id) \in DOMAIN s /\ s[First(s, id)].id = id
<1>1. PICK i \in DOMAIN s : s[i].id = id
  BY DEF IdsOf
<1>2. DOMAIN s = 1 .. Len(s) /\ Len(s) \in Nat
  BY LenProperties
<1>3. \A j \in 1 .. (i - 1) : s[j].id # id
  BY <1>1, <1>2 DEF Distinct
<1> QED
  BY <1>1, <1>3 DEF First

-----------------------------------------------------------------------------
(* The connection to probe.                                                  *)

LEMMA TargetSame ==
    ASSUME NEW s, NEW t, NEW id, EntriesOf(s, {id}) = EntriesOf(t, {id})
    PROVE  Target(s, id) = Target(t, id)
<1> DEFINE By(own) ==
             LET claims == {i \in DOMAIN own : own[i].enabled}
                 claim == CHOOSE i \in claims : \A j \in claims : i <= j
                 off(after) == \E i \in DOMAIN own \ claims : i > after
             IN IF claims # {} /\ ~off(claim) /\ own[claim].conn \in Usable THEN own[claim].conn
                ELSE IF id \in Defaults /\ ~off(0) THEN Home[id]
                ELSE None
<1>1. Target(s, id) = By(EntriesOf(s, {id})) /\ Target(t, id) = By(EntriesOf(t, {id}))
  BY DEF Target
<1> HIDE DEF By
<1> QED
  BY <1>1

\* Without an entry a default is at home; an entry has the say.
LEMMA TargetIs ==
    ASSUME NEW s \in Seq(Entries), Distinct(s), NEW id \in Ids
    PROVE  /\ id \notin IdsOf(s) => Target(s, id) = IF id \in Defaults THEN Home[id] ELSE None
           /\ \A i \in DOMAIN s : s[i].id = id =>
                 Target(s, id) = IF s[i].enabled /\ s[i].conn \in Usable THEN s[i].conn
                                 ELSE IF id \in Defaults /\ s[i].enabled THEN Home[id] ELSE None
<1>1. ASSUME id \notin IdsOf(s)
      PROVE  Target(s, id) = IF id \in Defaults THEN Home[id] ELSE None
  <2>1. EntriesOf(s, {id}) = <<>>
    BY <1>1, EntriesOfOne
  <2> DEFINE none == {i \in DOMAIN <<>> : <<>>[i].enabled}
  <2>2. none = {} /\ DOMAIN <<>> = {}
    OBVIOUS
  <2> QED
    BY <2>1, <2>2 DEF Target
<1>2. ASSUME NEW i \in DOMAIN s, s[i].id = id
      PROVE  Target(s, id) = IF s[i].enabled /\ s[i].conn \in Usable THEN s[i].conn
                             ELSE IF id \in Defaults /\ s[i].enabled THEN Home[id] ELSE None
  <2> DEFINE e == s[i]
             own == EntriesOf(s, {id})
             claims == {k \in DOMAIN own : own[k].enabled}
             claim == CHOOSE k \in claims : \A j \in claims : k <= j
             off(after) == \E k \in DOMAIN own \ claims : k > after
  <2>0. e \in Entries /\ e.enabled \in BOOLEAN
    <3>1. s[i] \in Entries
      OBVIOUS
    <3> QED
      BY <3>1 DEF Entries
  <2>1. own = <<e>>
    BY <1>2, EntriesOfOne
  <2>2. DOMAIN own = {1} /\ own[1] = e
    BY <2>1
  <2>3. Target(s, id) = IF claims # {} /\ ~off(claim) /\ own[claim].conn \in Usable THEN own[claim].conn
                        ELSE IF id \in Defaults /\ ~off(0) THEN Home[id] ELSE None
    BY DEF Target
  <2> HIDE DEF own, e
  <2>4. CASE e.enabled
    <3>1. claims = {1} /\ DOMAIN own \ claims = {}
      BY <2>2, <2>4
    <3>2. claim = 1 /\ ~off(claim) /\ ~off(0)
      BY <3>1
    <3> HIDE DEF claims, claim, off
    <3> QED
      BY <2>2, <2>3, <2>4, <3>1, <3>2 DEF e
  <2>5. CASE ~e.enabled
    <3>1. claims = {} /\ DOMAIN own \ claims = {1}
      BY <2>2, <2>5
    <3>2. off(0)
      BY <3>1
    <3> HIDE DEF claims, claim, off
    <3> QED
      BY <2>3, <2>5, <3>1, <3>2 DEF e
  <2> QED
    BY <2>0, <2>4, <2>5
<1> QED
  BY <1>1, <1>2

LEMMA TargetType ==
    ASSUME NEW s \in Seq(Entries), Distinct(s), NEW id \in Ids
    PROVE  Target(s, id) \in Usable \union {None} /\ Usable \subseteq Conns
<1>1. Usable \subseteq Conns /\ \A d \in Defaults : Home[d] \in Usable
  BY ProviderConstants
<1>2. CASE id \notin IdsOf(s)
  BY <1>1, <1>2, TargetIs
<1>3. CASE id \in IdsOf(s)
  <2>1. PICK i \in DOMAIN s : s[i].id = id
    BY <1>3 DEF IdsOf
  <2> QED
    BY <1>1, <2>1, TargetIs
<1> QED
  BY <1>2, <1>3

-----------------------------------------------------------------------------
(* What is written.                                                          *)

\* What removes a provider leaves no connection for it, and the other entries.
LEMMA RemovedIs ==
    ASSUME NEW s \in Seq(Entries), Distinct(s), NEW id \in Ids, NEW g \in Groups
    PROVE  /\ Removed(s, id, g) \in Seq(Entries) /\ Distinct(Removed(s, id, g))
           /\ Target(Removed(s, id, g), id) = None
           /\ \A ids : id \notin ids => EntriesOf(Removed(s, id, g), ids) = EntriesOf(s, ids)
<1> DEFINE r == Removed(s, id, g)
<1>1. CASE id \notin Defaults
  <2>1. r = EntriesOf(s, Ids \ {id})
    BY <1>1 DEF Removed, Without
  <2>2. r \in Seq(Entries) /\ Distinct(r) /\ id \notin IdsOf(r)
    BY <2>1, EntriesOfIds, EntriesOfOne
  <2>3. Target(r, id) = None
    BY <1>1, <2>2, TargetIs
  <2>4. ASSUME NEW ids, id \notin ids PROVE EntriesOf(r, ids) = EntriesOf(s, ids)
    <3> DEFINE G == {t \in Seq(Entries) : EntriesOf(t, (Ids \ {id}) \intersect ids) = EntriesOf(t, ids)}
    <3>1. <<>> \in G
      BY EntriesOfEmpty
    <3>2. ASSUME NEW t \in Seq(Entries), NEW x \in Entries, t \in G PROVE Append(t, x) \in G
      <4>1. x.id \in Ids /\ Append(t, x) \in Seq(Entries)
        BY DEF Entries
      <4>2. x.id \in (Ids \ {id}) \intersect ids <=> x.id \in ids
        BY <4>1, <2>4
      <4>3. EntriesOf(Append(t, x), (Ids \ {id}) \intersect ids) = EntriesOf(Append(t, x), ids)
        <5>1. EntriesOf(t, (Ids \ {id}) \intersect ids) = EntriesOf(t, ids)
          BY <3>2
        <5> DEFINE some == (Ids \ {id}) \intersect ids
        <5> HIDE DEF G, some
        <5>2. /\ EntriesOf(Append(t, x), some) = IF x.id \in some THEN Append(EntriesOf(t, some), x) ELSE EntriesOf(t, some)
              /\ EntriesOf(Append(t, x), ids) = IF x.id \in ids THEN Append(EntriesOf(t, ids), x) ELSE EntriesOf(t, ids)
          BY EntriesOfAppend
        <5>3. EntriesOf(t, some) = EntriesOf(t, ids) /\ (x.id \in some <=> x.id \in ids)
          BY <4>2, <5>1 DEF some
        <5>4. CASE x.id \in ids
          BY <5>2, <5>3, <5>4 DEF some
        <5>5. CASE x.id \notin ids
          BY <5>2, <5>3, <5>5 DEF some
        <5> QED
          BY <5>4, <5>5
      <4> QED
        BY <4>1, <4>3
    <3> HIDE DEF G
    <3>3. Seq(Entries) \subseteq G
      BY <3>1, <3>2, ByAppending
    <3> QED
      BY <2>1, <3>3, EntriesOfSome DEF G
  <2> QED
    BY <2>2, <2>3, <2>4
<1>2. CASE id \in Defaults /\ id \in IdsOf(s)
  <2> DEFINE i == First(s, id)
             e == [s[i] EXCEPT !.enabled = FALSE]
  <2>1. i \in DOMAIN s /\ s[i].id = id
    BY <1>2, FirstIs
  <2>2. s[i] \in Entries
    BY <2>1
  <2>3. e \in Entries /\ e.id = id /\ e.enabled = FALSE
    BY <2>1, <2>2 DEF Entries
  <2>4. r = [s EXCEPT ![i] = e]
    BY <1>2 DEF Removed
  <2> HIDE DEF i, e
  <2>5. r \in Seq(Entries) /\ DOMAIN r = DOMAIN s /\ r[i] = e /\ \A k \in DOMAIN s \ {i} : r[k] = s[k]
    BY <2>1, <2>3, <2>4, ExceptSeq
  <2> HIDE DEF r
  <2>6. \A k \in DOMAIN s : r[k].id = s[k].id
    BY <2>1, <2>3, <2>5
  <2>7. Distinct(r)
    BY <2>5, <2>6 DEF Distinct
  <2>8. Target(r, id) = None
    BY <2>1, <2>3, <2>5, <2>7, TargetIs
  <2>9. \A ids : id \notin ids => EntriesOf(r, ids) = EntriesOf(s, ids)
    BY <2>1, <2>3, <2>4, EntriesOfExcept, ZenonT(60)
  <2> QED
    BY <2>5, <2>7, <2>8, <2>9 DEF r
<1>3. CASE id \in Defaults /\ id \notin IdsOf(s)
  <2> DEFINE e == Entry(id, g.conn, FALSE)
  <2>1. e \in Entries /\ e.id = id /\ e.enabled = FALSE
    BY DEF Entries, Entry, Groups
  <2>2. r = Append(s, e)
    <3>1. g # None
      BY ProviderConstants
    <3> QED
      BY <1>3, <3>1 DEF Removed
  <2> HIDE DEF e
  <2>3. r \in Seq(Entries) /\ Distinct(r)
    BY <1>3, <2>1, <2>2, DistinctAppend
  <2>4. Len(s) + 1 \in DOMAIN r /\ r[Len(s) + 1] = e
    BY <2>1, <2>2, AppendProperties, LenProperties
  <2>5. Target(r, id) = None
    BY <2>1, <2>3, <2>4, TargetIs
  <2>6. \A ids : id \notin ids => EntriesOf(r, ids) = EntriesOf(s, ids)
    BY <2>1, <2>2, EntriesOfAppend
  <2> QED
    BY <2>3, <2>5, <2>6
<1> QED
  BY <1>1, <1>2, <1>3

\* What stores an entry leaves those that are neither its own nor the renamed one.
LEMMA UpsertIs ==
    ASSUME NEW s \in Seq(Entries), Distinct(s), NEW e \in Entries, NEW original \in Ids \union {None}
    PROVE  /\ Upsert(s, e, original) \in Seq(Entries) /\ Distinct(Upsert(s, e, original))
           /\ \A ids \in SUBSET Ids : e.id \notin ids /\ original \notin ids =>
                 EntriesOf(Upsert(s, e, original), ids) = EntriesOf(s, ids)
<1> DEFINE r == Upsert(s, e, original)
           kept == IF original \in {None, e.id} THEN s ELSE Without(s, original)
<1>1. /\ kept \in Seq(Entries) /\ Distinct(kept)
      /\ \A ids \in SUBSET Ids : original \notin ids => EntriesOf(kept, ids) = EntriesOf(s, ids)
  <2>1. CASE original \notin {None, e.id}
    <3>1. kept = EntriesOf(s, Ids \ {original})
      BY <2>1 DEF Without
    <3>2. \A ids \in SUBSET Ids : original \notin ids => (Ids \ {original}) \intersect ids = ids
      OBVIOUS
    <3> HIDE DEF kept
    <3>3. ASSUME NEW ids \in SUBSET Ids, original \notin ids PROVE EntriesOf(kept, ids) = EntriesOf(s, ids)
      BY <3>1, <3>2, <3>3, EntriesOfSome
    <3> QED
      BY <3>1, <3>3, EntriesOfIds, EntriesOfOne
  <2> QED
    BY <2>1
<1>2. r = IF e.id \in IdsOf(kept) THEN [kept EXCEPT ![First(kept, e.id)] = e] ELSE Append(kept, e)
  BY DEF Upsert
<1> HIDE DEF r, kept
<1>3. /\ r \in Seq(Entries) /\ Distinct(r)
      /\ \A ids : e.id \notin ids => EntriesOf(r, ids) = EntriesOf(kept, ids)
  <2>1. CASE e.id \in IdsOf(kept)
    <3> DEFINE i == First(kept, e.id)
    <3>1. i \in DOMAIN kept /\ kept[i].id = e.id
      BY <1>1, <2>1, FirstIs
    <3>2. r = [kept EXCEPT ![i] = e]
      BY <1>2, <2>1
    <3> HIDE DEF i
    <3>3. /\ r \in Seq(Entries) /\ DOMAIN r = DOMAIN kept /\ r[i] = e
          /\ \A k \in DOMAIN kept \ {i} : r[k] = kept[k]
      BY <1>1, <3>1, <3>2, ExceptSeq
    <3>4. \A k \in DOMAIN kept : r[k].id = kept[k].id
      BY <3>1, <3>3
    <3>5. Distinct(r)
      BY <1>1, <3>3, <3>4 DEF Distinct
    <3>6. \A ids : e.id \notin ids => EntriesOf(r, ids) = EntriesOf(kept, ids)
      BY <1>1, <3>1, <3>2, EntriesOfExcept
    <3> QED
      BY <3>3, <3>5, <3>6
  <2>2. CASE e.id \notin IdsOf(kept)
    BY <1>1, <1>2, <2>2, DistinctAppend, EntriesOfAppend
  <2> QED
    BY <2>1, <2>2
<1> QED
  BY <1>1, <1>3 DEF r

\* What was found on the first run, stored, plans what no file plans.
LEMMA FoundIs ==
    ASSUME NEW F \in SUBSET Defaults, NEW found, \A id \in F : found[id] = Home[id]
    PROVE  LET s == SetToSeq({Entry(id, found[id], TRUE) : id \in F})
           IN s \in Seq(Entries) /\ Distinct(s) /\ \A id \in Ids : Target(s, id) = Target(<<>>, id)
<1> DEFINE S == {Entry(id, found[id], TRUE) : id \in F}
           s == SetToSeq(S)
<1>1. /\ Defaults \subseteq Ids /\ Usable \subseteq Conns /\ IsFiniteSet(Ids)
      /\ \A id \in Defaults : Home[id] \in Usable
  BY ProviderConstants
<1>2. \A x \in S : /\ x \in Entries /\ x.id \in F /\ x.enabled = TRUE /\ x.conn = Home[x.id]
                   /\ x = Entry(x.id, found[x.id], TRUE)
  <2> SUFFICES ASSUME NEW x \in S
               PROVE  /\ x \in Entries /\ x.id \in F /\ x.enabled = TRUE /\ x.conn = Home[x.id]
                      /\ x = Entry(x.id, found[x.id], TRUE)
    OBVIOUS
  <2>1. PICK id \in F : x = Entry(id, found[id], TRUE)
    OBVIOUS
  <2>2. id \in Ids /\ found[id] \in Conns /\ found[id] = Home[id]
    BY <1>1
  <2>3. x.id = id /\ x.enabled = TRUE /\ x.conn = found[id]
    BY <2>1 DEF Entry
  <2>4. x \in Entries
    BY <2>1, <2>2 DEF Entry, Entries
  <2> QED
    BY <2>1, <2>2, <2>3, <2>4
<1>4. IsFiniteSet(S)
  <2> DEFINE f == [id \in F |-> Entry(id, found[id], TRUE)]
  <2>1. IsFiniteSet(F)
    BY <1>1, FS_Subset
  <2>2. f \in Surjection(F, S)
    BY DEF Surjection
  <2> HIDE DEF f, S
  <2> QED
    BY <2>1, <2>2, FS_Surjection
<1> HIDE DEF S
<1>5. /\ s \in Seq(S)
      /\ \A i, j \in DOMAIN s : s[i] = s[j] => i = j
      /\ \A x \in S : \E i \in DOMAIN s : s[i] = x
  BY <1>4, SetToSeqIs
<1> HIDE DEF s
<1>6. \A i \in DOMAIN s : s[i] \in S
  BY <1>5
<1>7. s \in Seq(Entries)
  <2>1. s \in [1 .. Len(s) -> S] /\ Len(s) \in Nat
    BY <1>5, LenProperties
  <2>2. s \in [1 .. Len(s) -> Entries]
    BY <1>2, <2>1
  <2> QED
    BY <2>1, <2>2, SeqDef
<1>8. Distinct(s)
  <2> SUFFICES ASSUME NEW i \in DOMAIN s, NEW j \in DOMAIN s, s[i].id = s[j].id PROVE i = j
    BY DEF Distinct
  <2>1. s[i] = s[j]
    BY <1>2, <1>6, ZenonT(60)
  <2> QED
    BY <1>5, <2>1
<1>9. <<>> \in Seq(Entries) /\ Distinct(<<>>) /\ IdsOf(<<>>) = {}
  BY DEF Distinct, IdsOf
<1>10. ASSUME NEW id \in Ids PROVE Target(s, id) = Target(<<>>, id)
  <2>1. Target(<<>>, id) = IF id \in Defaults THEN Home[id] ELSE None
    BY <1>9, TargetIs
  <2>2. CASE id \in IdsOf(s)
    <3>1. PICK i \in DOMAIN s : s[i].id = id
      BY <2>2 DEF IdsOf
    <3>2. s[i].enabled /\ s[i].conn = Home[id] /\ id \in Defaults /\ Home[id] \in Usable
      BY <1>1, <1>2, <1>6, <3>1
    <3> QED
      BY <1>7, <1>8, <2>1, <3>1, <3>2, TargetIs
  <2>3. CASE id \notin IdsOf(s)
    BY <1>7, <1>8, <2>1, <2>3, TargetIs
  <2> QED
    BY <2>2, <2>3
<1> QED
  BY <1>7, <1>8, <1>10 DEF s, S

-----------------------------------------------------------------------------
(* The invariant.                                                            *)

Stored == Seq(Entries) \union {Missing, Corrupt}
Rows == [Ids -> Groups \union {None}]
Discoveries == [planned : SUBSET Ids, found : [Ids -> Conns \union {None}],
                status : [Ids -> Statuses \union {None}]]
Probings == [id : Ids, conn : Conns, n : Nat]
Records == [Models -> Known]
Detections == [id : Ids, model : Models, loaded : Records, n : Nat]

\* The types, and that what is stored has no id twice.
Types ==
    /\ file \in Stored /\ Distinct(Load(file))
    /\ cache \in [Ids -> Records]
    /\ picker \in Rows /\ discovery \in Discoveries
    /\ probes \subseteq Probings /\ overtaken \subseteq Ids
    /\ staged \in Ids \union {None} /\ form \in Forms \union {None}
    /\ verify \in Popups \union {None} /\ session \in Selections \union {None}
    /\ detections \subseteq Detections
    /\ work \in Nat

\* A probe that no save has overtaken asks the connection that is stored.
ProbesTrue ==
    \A p \in probes : picker[p.id] # None /\ p.id \notin overtaken => p.conn = Target(Load(file), p.id)

\* Before there is a file, all that is probed and found are the defaults at home.
FirstRun ==
    file = Missing =>
        /\ overtaken = {}
        /\ \A p \in probes : p.id \in Defaults /\ p.conn = Home[p.id]
        /\ \A id \in Ids : discovery.found[id] # None => id \in Defaults /\ discovery.found[id] = Home[id]

RowsTrue == PickerAgrees /\ ProbesTrue /\ FirstRun

\* What is to be removed is a row, and the form takes no other row's id.
OverlaysTrue ==
    /\ staged # None => picker[staged] # None
    /\ screen = "form" => form # None /\ staged = None
    /\ form # None => \A id \in Ids \ {form.original} : picker[id] # None => id \in form.taken

\* A detection is the only one, of the popup's model, from what is on disk.
OneDetection ==
    \A d \in detections :
        /\ detections = {d}
        /\ verify # None /\ verify.probing
        /\ <<d.id, d.model>> = <<verify.entry.id, verify.entry.model>>
        /\ d.loaded = cache[d.id]

ModelsTrue == CapsTrue /\ OneDetection

PInv == Types /\ RowsTrue /\ OverlaysTrue /\ ModelsTrue

-----------------------------------------------------------------------------
(* What is stored, planned and seen.                                         *)

LEMMA LoadIs ==
    /\ Load(Missing) = <<>> /\ Load(Corrupt) = <<>>
    /\ \A f \in Seq(Entries) : Load(f) = f /\ f \notin {Missing, Corrupt}
    /\ \A f \in Stored : Load(f) \in Seq(Entries)
    /\ Distinct(<<>>)
<1>1. \A f \in Seq(Entries) : f \notin {Missing, Corrupt}
  BY ProviderConstants
<1>2. <<>> \in Seq(Entries)
  OBVIOUS
<1> QED
  BY <1>1, <1>2 DEF Load, Stored, Distinct

LEMMA CheckingIs ==
    ASSUME NEW c \in Conns
    PROVE  /\ Checking(c) \in Groups /\ Checking(c) # None
           /\ Checking(c).conn = c /\ Checking(c).status = "checking" /\ DOMAIN Checking(c).models = {}
<1>1. <<>> \in Tables
  <2>1. <<>> \in [{} -> Known]
    OBVIOUS
  <2> QED
    BY <2>1 DEF Tables
<1>2. Checking(c) \in Groups
  BY <1>1 DEF Checking, Groups, Statuses
<1>3. Checking(c) # None
  BY <1>2, ProviderConstants
<1> QED
  BY <1>2, <1>3 DEF Checking

\* A start, and a save, plan from the file.
LEMMA PlanIs ==
    ASSUME NEW s \in Seq(Entries), Distinct(s)
    PROVE  /\ Skeleton(s) \in Rows
           /\ \A id \in Ids : IF id \in Planned(s)
                 THEN /\ Skeleton(s)[id] = Checking(Target(s, id)) /\ Skeleton(s)[id] # None
                      /\ Target(s, id) \in Conns
                 ELSE Skeleton(s)[id] = None
           /\ Planned(s) \subseteq Ids
<1>1. \A id \in Planned(s) : id \in Ids /\ Target(s, id) \in Conns
  BY TargetType DEF Planned
<1>2. \A id \in Planned(s) : Checking(Target(s, id)) \in Groups /\ Checking(Target(s, id)) # None
  BY <1>1, CheckingIs
<1> QED
  BY <1>1, <1>2 DEF Skeleton, Rows

\* What may be known of a model.
Sound(table) ==
    \A id \in Ids : table[id] # None => \A m \in DOMAIN table[id].models :
        m \in Models /\ table[id].models[m] \in {"assumed", "chat", Able[m]}

LEMMA TablesAre ==
    \A t \in Tables : DOMAIN t \subseteq Models /\ \A m \in DOMAIN t : m \in Models /\ t[m] \in Known
  BY DEF Tables

LEMMA AbleIs == \A m \in Models : Able[m] \in {"tools", "chat"} /\ Able[m] \in Known /\ Able[m] # "assumed"
  BY ProviderConstants DEF Known

LEMMA SeenIs ==
    ASSUME Types, CapsTrue, NEW id \in Ids, NEW conn \in Conns
    PROVE  /\ Seen(id, conn) \in Tables
           /\ \A m \in DOMAIN Seen(id, conn) : m \in Models /\ Seen(id, conn)[m] \in {"assumed", "chat", Able[m]}
<1> DEFINE ms == Offers[conn] \intersect Scope
<1>1. ms \subseteq Models
  BY ProviderConstants
<1>2. \A m \in ms : cache[id][m] \in Known /\ cache[id][m] \in {"assumed", Able[m]}
  BY <1>1 DEF Types, Records, CapsTrue
<1> HIDE DEF ms
<1>3. Seen(id, conn) = [m \in ms |-> IF m \in Advertised THEN Able[m] ELSE cache[id][m]]
  BY DEF Seen, ms
<1>4. Seen(id, conn) \in [ms -> Known]
  BY <1>1, <1>2, <1>3, AbleIs
<1>5. Seen(id, conn) \in Tables
  BY <1>1, <1>4 DEF Tables
<1> QED
  BY <1>1, <1>2, <1>3, <1>5

\* An outcome settles its row, if it is there, and no other.
LEMMA ResolveIs ==
    ASSUME Types, CapsTrue, NEW table \in Rows, Sound(table), NEW id \in Ids, NEW conn \in Conns,
           NEW o \in Outcomes(id, conn)
    PROVE  /\ Resolve(table, o) \in Rows /\ Sound(Resolve(table, o))
           /\ \A i \in Ids \ {id} : Resolve(table, o)[i] = table[i]
           /\ (Resolve(table, o)[id] = None) = (table[id] = None)
           /\ table[id] # None =>
                 /\ Resolve(table, o)[id].status = o.status
                 /\ Resolve(table, o)[id].conn = IF o.status = "online" THEN conn ELSE table[id].conn
<1> DEFINE r == Resolve(table, o)
           online == [conn |-> conn, status |-> "online", models |-> Seen(id, conn)]
           other == [table[id] EXCEPT !.status = o.status, !.models = <<>>]
<1>1. o.id = id /\ o.conn = conn /\ o.status \in Failures \union {"online"}
  BY DEF Outcomes
<1>2. DOMAIN table = Ids
  BY DEF Rows
<1>3. r = [table EXCEPT ![id] = IF table[id] = None THEN None
                                 ELSE IF o.status = "online" THEN online ELSE other]
  BY <1>1 DEF Resolve
<1>4. online \in Groups
  BY SeenIs DEF Groups, Statuses
<1>5. ASSUME table[id] # None
      PROVE  other \in Groups /\ other.status = o.status /\ other.conn = table[id].conn /\ DOMAIN other.models = {}
  <2>1. table[id] \in Groups
    BY <1>5 DEF Rows
  <2>2. <<>> \in Tables
    <3>1. <<>> \in [{} -> Known]
      OBVIOUS
    <3> QED
      BY <3>1 DEF Tables
  <2>3. table[id].conn \in Conns /\ o.status \in Statuses
    BY <1>1, <2>1 DEF Groups, Statuses
  <2>4. other \in Groups
    BY <2>1, <2>2, <2>3 DEF Groups
  <2>5. other.status = o.status /\ other.conn = table[id].conn
    BY <2>1 DEF Groups
  <2>6. other.models = <<>>
    BY <2>1 DEF Groups
  <2> HIDE DEF other
  <2> QED
    BY <2>4, <2>5, <2>6
<1>6. /\ DOMAIN r = Ids /\ \A i \in Ids \ {id} : r[i] = table[i]
      /\ r[id] = IF table[id] = None THEN None ELSE IF o.status = "online" THEN online ELSE other
  BY <1>2, <1>3
<1>7. online # None /\ (table[id] # None => other # None)
  BY <1>4, <1>5, ProviderConstants
<1>8. \A m \in DOMAIN online.models : m \in Models /\ online.models[m] \in {"assumed", "chat", Able[m]}
  BY SeenIs
<1>9. online.conn = conn /\ online.status = "online"
  OBVIOUS
<1> HIDE DEF r, online, other
<1>10. r \in Rows
  <2>1. \A i \in Ids : r[i] \in Groups \union {None}
    BY <1>4, <1>5, <1>6 DEF Rows
  <2>2. r = [i \in Ids |-> r[i]]
    BY <1>3, <1>6
  <2> QED
    BY <2>1, <2>2 DEF Rows
<1>11. Sound(r)
  <2> SUFFICES ASSUME NEW i \in Ids, r[i] # None, NEW m \in DOMAIN r[i].models
               PROVE  m \in Models /\ r[i].models[m] \in {"assumed", "chat", Able[m]}
    BY DEF Sound
  <2>1. CASE i # id
    BY <1>6, <2>1 DEF Sound
  <2>2. CASE i = id
    BY <1>5, <1>6, <1>8, <2>2
  <2> QED
    BY <2>1, <2>2
<1> QED
  BY <1>5, <1>6, <1>7, <1>9, <1>10, <1>11 DEF r

-----------------------------------------------------------------------------
(* What a step leaves.                                                       *)

LEMMA RowsKept ==
    ASSUME RowsTrue, UNCHANGED <<file, rows>>
    PROVE  RowsTrue'
  BY DEF RowsTrue, PickerAgrees, ProbesTrue, FirstRun, rows

LEMMA OverlaysKept ==
    ASSUME OverlaysTrue, UNCHANGED overlays, \A id \in Ids : (picker'[id] = None) = (picker[id] = None),
           Types
    PROVE  OverlaysTrue'
  BY DEF OverlaysTrue, overlays, Types

LEMMA ModelsKept ==
    ASSUME ModelsTrue, UNCHANGED <<cache, verify, detections, session>>,
           \A id \in Ids : picker'[id] # None => \A m \in DOMAIN picker'[id].models :
                picker'[id].models[m] \in {"assumed", "chat", Able[m]}
    PROVE  ModelsTrue'
  BY DEF ModelsTrue, CapsTrue, OneDetection

LEMMA PickerSound ==
    ASSUME Types, CapsTrue
    PROVE  Sound(picker)
<1> SUFFICES ASSUME NEW id \in Ids, picker[id] # None, NEW m \in DOMAIN picker[id].models
             PROVE  m \in Models /\ picker[id].models[m] \in {"assumed", "chat", Able[m]}
  BY DEF Sound
<1>1. picker[id].models \in Tables
  BY DEF Types, Rows, Groups
<1> QED
  BY <1>1, TablesAre DEF CapsTrue

LEMMA StoredKept ==
    ASSUME UNCHANGED stored
    PROVE  OthersKept
  BY DEF OthersKept, stored

-----------------------------------------------------------------------------
(* A start.                                                                  *)

Started ==
    /\ file \in Stored /\ Distinct(Load(file)) /\ cache \in [Ids -> Records]
    /\ \A id \in Ids, m \in Models : cache[id][m] \in {"assumed", Able[m]}
    /\ picker = Skeleton(Load(file)) /\ discovery = Planning(Load(file))
    /\ probes = FirstProbes(Load(file)) /\ overtaken = {}
    /\ screen = "picker" /\ staged = None /\ form = None
    /\ verify = None /\ detections = {} /\ session = None
    /\ work \in Nat

LEMMA StartSound == Started => PInv
<1> SUFFICES ASSUME Started PROVE PInv
  OBVIOUS
<1> DEFINE s == Load(file)
           all == Planned(s)
<1>1. s \in Seq(Entries) /\ Distinct(s)
  BY LoadIs DEF Started
<1>2. /\ picker \in Rows /\ all \subseteq Ids
      /\ \A id \in Ids : IF id \in all THEN /\ picker[id] = Checking(Target(s, id)) /\ picker[id] # None
                                            /\ Target(s, id) \in Conns
                         ELSE picker[id] = None
  BY <1>1, PlanIs DEF Started
<1>3. /\ discovery = [planned |-> all, found |-> [id \in Ids |-> None],
                      status |-> [id \in Ids |-> IF id \in all THEN "checking" ELSE None]]
      /\ probes = {[id |-> id, conn |-> Target(s, id), n |-> 0] : id \in all}
  BY DEF Started, Planning, FirstProbes
<1>4. s = Load(file)
  OBVIOUS
<1> HIDE DEF s, all
<1>5. discovery \in Discoveries
  BY <1>2, <1>3 DEF Discoveries, Statuses
<1>6. /\ \A p \in probes : p.id \in all /\ p.conn = Target(s, p.id) /\ p \in Probings
      /\ \A id \in all : \E p \in probes : p.id = id
  <2>1. ASSUME NEW p \in probes PROVE p.id \in all /\ p.conn = Target(s, p.id) /\ p \in Probings
    <3>1. PICK id \in all : p = [id |-> id, conn |-> Target(s, id), n |-> 0]
      BY <1>3
    <3> QED
      BY <1>2, <3>1 DEF Probings
  <2>2. ASSUME NEW id \in all PROVE \E p \in probes : p.id = id
    <3>1. [id |-> id, conn |-> Target(s, id), n |-> 0] \in probes
      BY <1>3
    <3> QED
      BY <3>1
  <2> QED
    BY <2>1, <2>2
<1>7. Types
  BY <1>2, <1>5, <1>6 DEF Types, Started
<1>8. \A id \in all : picker[id].conn = Target(s, id) /\ picker[id].status = "checking"
                      /\ DOMAIN picker[id].models = {}
  BY <1>2, CheckingIs
<1>9. PickerAgrees
  <2> SUFFICES ASSUME NEW id \in Ids
               PROVE  /\ (picker[id] # None) = (id \in discovery.planned)
                      /\ (picker[id] # None) = (id \in Planned(Load(file)))
                      /\ picker[id] # None =>
                            /\ IF picker[id].status = "checking" THEN \E p \in probes : p.id = id
                               ELSE picker[id].status = discovery.status[id]
                            /\ id \notin overtaken => picker[id].conn = Target(Load(file), id)
    BY DEF PickerAgrees
  <2>1. discovery.planned = all /\ Planned(Load(file)) = all
    BY <1>3, <1>4 DEF all
  <2> QED
    BY <1>2, <1>4, <1>6, <1>8, <2>1
<1>10. ProbesTrue
  BY <1>4, <1>6 DEF ProbesTrue
<1>11. FirstRun
  <2> SUFFICES ASSUME file = Missing
               PROVE  /\ overtaken = {}
                      /\ \A p \in probes : p.id \in Defaults /\ p.conn = Home[p.id]
                      /\ \A id \in Ids : discovery.found[id] # None => id \in Defaults /\ discovery.found[id] = Home[id]
    BY DEF FirstRun
  <2>1. s = <<>> /\ IdsOf(s) = {}
    BY <1>4, LoadIs DEF IdsOf
  <2>2. \A id \in Ids : Target(s, id) = IF id \in Defaults THEN Home[id] ELSE None
    BY <1>1, <2>1, TargetIs
  <2>3. \A id \in all : Target(s, id) # None /\ id \in Ids
    BY DEF Planned, all
  <2>4. \A id \in Ids : discovery.found[id] = None
    BY <1>3
  <2> QED
    BY <1>6, <2>2, <2>3, <2>4 DEF Started
<1>12. OverlaysTrue
  BY DEF OverlaysTrue, Started
<1>13. CapsTrue /\ OneDetection
  <2>1. \A id \in Ids : picker[id] # None => DOMAIN picker[id].models = {}
    BY <1>2, <1>8
  <2> QED
    BY <2>1 DEF CapsTrue, OneDetection, Started
<1> QED
  BY <1>7, <1>9, <1>10, <1>11, <1>12, <1>13 DEF PInv, RowsTrue, ModelsTrue

LEMMA InitSound == ProvidersInit => PInv
<1> SUFFICES ASSUME ProvidersInit PROVE PInv
  OBVIOUS
<1>1. file \in Stored /\ Distinct(Load(file))
  <2>1. CASE file \in {Missing, Corrupt}
    BY <2>1, LoadIs DEF Stored
  <2>2. CASE file \notin {Missing, Corrupt}
    <3>1. file \in Seq(Entries) /\ IsInjective(IdsIn(file))
      BY <2>2, ProviderConstants DEF ProvidersInit
    <3>2. Distinct(file)
      BY <3>1 DEF IsInjective, IdsIn, Distinct
    <3> QED
      BY <3>1, <3>2, LoadIs DEF Stored
  <2> QED
    BY <2>1, <2>2
<1>2. cache \in [Ids -> Records] /\ \A id \in Ids, m \in Models : cache[id][m] = "assumed"
  BY DEF ProvidersInit, Records, Known
<1>3. Started
  BY <1>1, <1>2 DEF Started, ProvidersInit
<1> QED
  BY <1>3, StartSound

LEMMA RestartStep ==
    ASSUME PInv, Restart
    PROVE  PInv' /\ OthersKept
<1>1. Started'
  BY DEF PInv, Types, ModelsTrue, CapsTrue, Started, Restart, Starts, stored
<1>2. PInv'
  BY <1>1, StartSound, PTL
<1>3. OthersKept
  BY StoredKept DEF Restart
<1> QED
  BY <1>2, <1>3

-----------------------------------------------------------------------------
(* Probes land.                                                              *)

LEMMA ProbeStep ==
    ASSUME PInv, NEW p \in probes, ProbeLands(p)
    PROVE  PInv' /\ OthersKept
<1> USE DEF PInv
<1>1. p \in Probings /\ p.id \in Ids /\ p.conn \in Conns
  BY DEF Types, Probings
<1>2. PICK o \in Outcomes(p.id, p.conn) : picker' = Resolve(picker, o) /\ discovery' = Record(discovery, o)
  BY DEF ProbeLands
<1>3. o.id = p.id /\ o.conn = p.conn /\ o.status \in Failures \union {"online"}
  BY DEF Outcomes
<1>4. /\ probes' = probes \ {p}
      /\ UNCHANGED <<file, cache, announced, overtaken, screen, staged, form, verify, detections, declined,
                     session, work>>
  BY DEF ProbeLands, stored, overlays, caps
<1>5. /\ picker' \in Rows /\ Sound(picker')
      /\ \A i \in Ids \ {p.id} : picker'[i] = picker[i]
      /\ (picker'[p.id] = None) = (picker[p.id] = None)
      /\ picker[p.id] # None =>
            /\ picker'[p.id].status = o.status
            /\ picker'[p.id].conn = IF o.status = "online" THEN p.conn ELSE picker[p.id].conn
  BY <1>1, <1>2, PickerSound, ResolveIs DEF Types, ModelsTrue
<1>6. /\ discovery' \in Discoveries /\ discovery'.planned = discovery.planned
      /\ discovery'.status = [discovery.status EXCEPT ![p.id] = o.status]
      /\ discovery'.found = [discovery.found EXCEPT ![p.id] = IF o.status = "online" THEN p.conn ELSE None]
  <2> DEFINE found == IF o.status = "online" THEN p.conn ELSE None
  <2>1. discovery \in Discoveries
    BY DEF Types
  <2>2. o.status \in Statuses /\ found \in Conns \union {None}
    BY <1>1, <1>3 DEF Statuses
  <2>3. discovery' = [discovery EXCEPT !.status[p.id] = o.status, !.found[p.id] = found]
    BY <1>2, <1>3 DEF Record
  <2> HIDE DEF found
  <2>4. discovery' \in Discoveries
    BY <1>1, <2>1, <2>2, <2>3 DEF Discoveries
  <2>5. discovery'.planned = discovery.planned
    BY <2>1, <2>3 DEF Discoveries
  <2>6. discovery'.status = [discovery.status EXCEPT ![p.id] = o.status]
    BY <2>1, <2>3 DEF Discoveries
  <2>7. discovery'.found = [discovery.found EXCEPT ![p.id] = found]
    BY <2>1, <2>3 DEF Discoveries
  <2> QED
    BY <2>4, <2>5, <2>6, <2>7 DEF found
<1>7. Types'
  BY <1>4, <1>5, <1>6 DEF Types
<1>8. \A i \in Ids : (picker'[i] = None) = (picker[i] = None)
  BY <1>5
<1>9. discovery.status \in [Ids -> Statuses \union {None}] /\ discovery.found \in [Ids -> Conns \union {None}]
  BY DEF Types, Discoveries
<1>10. PickerAgrees'
  <2> SUFFICES ASSUME NEW id \in Ids
               PROVE  /\ (picker'[id] # None) = (id \in discovery'.planned)
                      /\ (picker'[id] # None) = (id \in Planned(Load(file)))
                      /\ picker'[id] # None =>
                            /\ IF picker'[id].status = "checking" THEN \E q \in probes' : q.id = id
                               ELSE picker'[id].status = discovery'.status[id]
                            /\ id \notin overtaken => picker'[id].conn = Target(Load(file), id)
    BY <1>4 DEF PickerAgrees
  <2>1. /\ (picker[id] # None) = (id \in discovery.planned)
        /\ (picker[id] # None) = (id \in Planned(Load(file)))
        /\ picker[id] # None =>
              /\ IF picker[id].status = "checking" THEN \E q \in probes : q.id = id
                 ELSE picker[id].status = discovery.status[id]
              /\ id \notin overtaken => picker[id].conn = Target(Load(file), id)
    BY DEF RowsTrue, PickerAgrees
  <2>2. CASE id # p.id
    BY <1>4, <1>5, <1>6, <1>9, <2>1, <2>2
  <2>3. CASE id = p.id
    <3>1. picker'[id] # None => picker'[id].status = discovery'.status[id]
      BY <1>1, <1>5, <1>6, <1>9, <2>3
    <3>2. picker'[id] # None => picker'[id].status # "checking"
      BY <1>3, <1>5, <2>3, ProviderConstants
    <3>3. picker'[id] # None /\ id \notin overtaken => picker'[id].conn = Target(Load(file), id)
      BY <1>5, <2>1, <2>3 DEF RowsTrue, ProbesTrue
    <3> QED
      BY <1>6, <1>8, <2>1, <3>1, <3>2, <3>3
  <2> QED
    BY <2>2, <2>3
<1>11. ProbesTrue'
  BY <1>4, <1>8 DEF RowsTrue, ProbesTrue, Types, Probings
<1>12. FirstRun'
  BY <1>1, <1>4, <1>6, <1>9 DEF RowsTrue, FirstRun
<1>13. OverlaysTrue'
  BY <1>4, <1>8, OverlaysKept DEF overlays
<1>14. ModelsTrue'
  BY <1>4, <1>5, ModelsKept DEF Sound
<1>15. OthersKept
  BY <1>4, StoredKept DEF stored
<1> QED
  BY <1>7, <1>10, <1>11, <1>12, <1>13, <1>14, <1>15 DEF RowsTrue

LEMMA DiscoveryStep ==
    ASSUME PInv, DiscoveryDone
    PROVE  PInv' /\ OthersKept
<1> USE DEF PInv
<1> DEFINE found == {id \in Ids : discovery.found[id] # None}
           stores == SetToSeq({Entry(id, discovery.found[id], TRUE) : id \in found})
<1>1. /\ file' = IF file = Missing /\ found # {} THEN stores ELSE file
      /\ UNCHANGED <<cache, picker, discovery, probes, overtaken, screen, staged, form, verify, detections,
                     declined, session, work>>
  BY DEF DiscoveryDone, overlays, caps
<1>2. CASE file' = file
  <2>1. PInv'
    BY <1>1, <1>2, ZenonT(60) DEF Types, RowsTrue, PickerAgrees, ProbesTrue, FirstRun, OverlaysTrue, ModelsTrue, CapsTrue,
                      OneDetection
  <2> QED
    BY <1>1, <1>2, <2>1, StoredKept DEF stored
<1>3. CASE file = Missing /\ file' = stores
  <2>1. found \subseteq Defaults /\ \A id \in found : discovery.found[id] = Home[id]
    BY <1>3 DEF RowsTrue, FirstRun
  <2>2. stores \in Seq(Entries) /\ Distinct(stores) /\ \A id \in Ids : Target(stores, id) = Target(<<>>, id)
    <3> DEFINE of == discovery.found
    <3>1. found \in SUBSET Defaults /\ \A id \in found : of[id] = Home[id]
      BY <2>1
    <3>2. stores = SetToSeq({Entry(id, of[id], TRUE) : id \in found})
      OBVIOUS
    <3> HIDE DEF stores, of, found
    <3> QED
      BY <3>1, <3>2, FoundIs
  <2> HIDE DEF found, stores
  <2>3. /\ Load(file) = <<>> /\ Load(file') = file' /\ file' \in Stored /\ file' # Missing
        /\ Distinct(Load(file')) /\ \A id \in Ids : Target(Load(file'), id) = Target(Load(file), id)
    BY <1>3, <2>2, LoadIs DEF Stored
  <2>4. Planned(Load(file')) = Planned(Load(file))
    BY <2>3 DEF Planned
  <2>5. Types'
    BY <1>1, <2>3 DEF Types
  <2>6. PickerAgrees'
    BY <1>1, <2>3, <2>4 DEF RowsTrue, PickerAgrees
  <2>7. ProbesTrue'
    BY <1>1, <2>3 DEF RowsTrue, ProbesTrue, Types, Probings
  <2>8. FirstRun'
    BY <2>3 DEF FirstRun
  <2>9. OverlaysTrue' /\ ModelsTrue'
    BY <1>1 DEF OverlaysTrue, ModelsTrue, CapsTrue, OneDetection
  <2>10. OthersKept
    BY <1>1, <1>3 DEF OthersKept
  <2> QED
    BY <2>5, <2>6, <2>7, <2>8, <2>9, <2>10 DEF RowsTrue
<1> QED
  BY <1>1, <1>2, <1>3

-----------------------------------------------------------------------------
(* The picker's keys and the form.                                           *)

LEMMA RetryStep ==
    ASSUME PInv, NEW id \in Ids, Retry(id)
    PROVE  PInv' /\ OthersKept
<1> USE DEF PInv
<1> DEFINE asking == [id |-> id, conn |-> picker[id].conn, n |-> work']
           g == [picker[id] EXCEPT !.status = "checking"]
<1>1. /\ picker' = [picker EXCEPT ![id] = g]
      /\ probes' = probes \union {asking} /\ work' = work + 1 /\ picker[id] # None
      /\ UNCHANGED <<file, cache, discovery, announced, overtaken, screen, staged, form, verify, detections,
                     declined, session>>
  BY DEF Retry, Starts, stored, overlays, caps
<1>2. picker \in Rows /\ work \in Nat
  BY DEF Types
<1>3. picker[id] \in Groups /\ picker[id].conn \in Conns
  BY <1>1, <1>2 DEF Rows, Groups
<1>4. g \in Groups /\ g.status = "checking" /\ g.conn = picker[id].conn /\ g.models = picker[id].models /\ g # None
  <2>1. g \in Groups /\ g.status = "checking" /\ g.conn = picker[id].conn /\ g.models = picker[id].models
    BY <1>3 DEF Groups, Statuses
  <2> QED
    BY <2>1, ProviderConstants
<1> HIDE DEF g
<1>5. /\ picker' \in Rows /\ picker'[id] = g /\ \A i \in Ids \ {id} : picker'[i] = picker[i]
  BY <1>1, <1>2, <1>4 DEF Rows
<1>6. asking \in Probings /\ asking.id = id /\ asking.conn = picker[id].conn
  BY <1>1, <1>2, <1>3 DEF Probings
<1> HIDE DEF asking
<1>7. Types'
  BY <1>1, <1>2, <1>5, <1>6 DEF Types
<1>8. \A i \in Ids : (picker'[i] = None) = (picker[i] = None)
  BY <1>1, <1>4, <1>5
<1>9. PickerAgrees'
  <2> SUFFICES ASSUME NEW i \in Ids
               PROVE  /\ (picker'[i] # None) = (i \in discovery.planned)
                      /\ (picker'[i] # None) = (i \in Planned(Load(file)))
                      /\ picker'[i] # None =>
                            /\ IF picker'[i].status = "checking" THEN \E q \in probes' : q.id = i
                               ELSE picker'[i].status = discovery.status[i]
                            /\ i \notin overtaken => picker'[i].conn = Target(Load(file), i)
    BY <1>1 DEF PickerAgrees
  <2>1. /\ (picker[i] # None) = (i \in discovery.planned)
        /\ (picker[i] # None) = (i \in Planned(Load(file)))
        /\ picker[i] # None =>
              /\ IF picker[i].status = "checking" THEN \E q \in probes : q.id = i
                 ELSE picker[i].status = discovery.status[i]
              /\ i \notin overtaken => picker[i].conn = Target(Load(file), i)
    BY DEF RowsTrue, PickerAgrees
  <2>2. CASE i # id
    BY <1>1, <1>5, <2>1, <2>2
  <2>3. CASE i = id
    BY <1>1, <1>4, <1>5, <1>6, <2>1, <2>3
  <2> QED
    BY <2>2, <2>3
<1>10. ProbesTrue'
  <2> SUFFICES ASSUME NEW p \in probes', picker'[p.id] # None, p.id \notin overtaken
               PROVE  p.conn = Target(Load(file), p.id)
    BY <1>1 DEF ProbesTrue
  <2>1. CASE p \in probes
    <3>1. p.id \in Ids
      BY <2>1 DEF Types, Probings
    <3> QED
      BY <1>8, <2>1, <3>1 DEF RowsTrue, ProbesTrue
  <2>2. CASE p = asking
    BY <1>1, <1>6, <2>2 DEF RowsTrue, PickerAgrees
  <2> QED
    BY <1>1, <2>1, <2>2
<1>11. FirstRun'
  <2> SUFFICES ASSUME file = Missing PROVE id \in Defaults /\ picker[id].conn = Home[id]
    BY <1>1, <1>6 DEF RowsTrue, FirstRun
  <2>1. overtaken = {} /\ Load(file) = <<>>
    BY LoadIs DEF RowsTrue, FirstRun
  <2>2. picker[id].conn = Target(<<>>, id) /\ Target(<<>>, id) # None
    BY <1>1, <2>1 DEF RowsTrue, PickerAgrees, Planned
  <2>3. <<>> \in Seq(Entries) /\ IdsOf(<<>>) = {}
    BY DEF IdsOf
  <2> QED
    BY <2>2, <2>3, LoadIs, TargetIs
<1>12. OverlaysTrue'
  BY <1>1, <1>8, OverlaysKept DEF overlays
<1>13. ModelsTrue'
  <2>1. \A i \in Ids : picker'[i] # None => \A m \in DOMAIN picker'[i].models :
            picker'[i].models[m] \in {"assumed", "chat", Able[m]}
    BY <1>1, <1>4, <1>5 DEF ModelsTrue, CapsTrue
  <2> QED
    BY <1>1, <2>1, ModelsKept
<1>14. OthersKept
  BY <1>1, StoredKept DEF stored
<1> QED
  BY <1>7, <1>9, <1>10, <1>11, <1>12, <1>13, <1>14 DEF RowsTrue

\* Keys that touch neither what is stored nor a row.
LEMMA KeyStep ==
    ASSUME PInv, UNCHANGED <<stored, rows, caps, work>>, OverlaysTrue',
           staged' \in Ids \union {None}, form' \in Forms \union {None}
    PROVE  PInv' /\ OthersKept
<1>1. UNCHANGED <<file, cache, picker, discovery, probes, announced, overtaken, verify, detections, declined,
                  session, work>>
  BY DEF stored, rows, caps
<1>2. Types'
  BY <1>1 DEF PInv, Types
<1>3. RowsTrue'
  BY <1>1, RowsKept DEF PInv, rows
<1>4. ModelsTrue'
  BY <1>1 DEF PInv, ModelsTrue, CapsTrue, OneDetection
<1> QED
  BY <1>2, <1>3, <1>4, StoredKept DEF PInv

LEMMA StageStep ==
    ASSUME PInv, \/ \E id \in Ids : Stage(id) \/ OpenEdit(id)
                 \/ Unstage \/ OpenAdd \/ LeaveForm \/ Switch
    PROVE  PInv' /\ OthersKept
<1> USE DEF PInv
<1>1. UNCHANGED <<stored, rows, caps, work>>
  BY DEF Stage, OpenEdit, Unstage, OpenAdd, LeaveForm, Switch, Shows
<1>2. picker' = picker /\ discovery' = discovery
  BY <1>1 DEF rows
<1>3. ASSUME NEW id \in Ids, Stage(id)
      PROVE  OverlaysTrue' /\ staged' \in Ids \union {None} /\ form' \in Forms \union {None}
  BY <1>2, <1>3 DEF Stage, OnPicker, OverlaysTrue, Types
<1>4. ASSUME NEW id \in Ids, OpenEdit(id)
      PROVE  OverlaysTrue' /\ staged' \in Ids \union {None} /\ form' \in Forms \union {None}
  <2> DEFINE taken == {i \in Ids \ {id} : picker[i] # None}
  <2>1. form' = [original |-> id, taken |-> taken] /\ staged' = staged /\ staged = None
    BY <1>4 DEF OpenEdit, Shows, OnPicker
  <2>2. form' \in Forms
    BY <2>1 DEF Forms
  <2>3. form' # None
    BY <2>2, ProviderConstants
  <2> QED
    BY <1>2, <2>1, <2>2, <2>3 DEF OverlaysTrue, Types
<1>5. ASSUME OpenAdd
      PROVE  OverlaysTrue' /\ staged' \in Ids \union {None} /\ form' \in Forms \union {None}
  <2> DEFINE taken == discovery.planned \union IdsOf(Load(file))
  <2>1. form' = [original |-> None, taken |-> taken] /\ staged' = staged /\ staged = None
    BY <1>5 DEF OpenAdd, Shows, OnPicker
  <2>2. taken \subseteq Ids
    <3>1. Load(file) \in Seq(Entries)
      BY LoadIs DEF Types
    <3>2. \A i \in DOMAIN Load(file) : Load(file)[i] \in Entries
      BY <3>1
    <3> QED
      BY <3>2 DEF IdsOf, Entries, Types, Discoveries
  <2>3. form' \in Forms
    BY <2>1, <2>2 DEF Forms
  <2>5. form' # None
    BY <2>3, ProviderConstants
  <2>4. \A i \in Ids : picker[i] # None => i \in taken
    BY DEF RowsTrue, PickerAgrees
  <2> QED
    BY <1>2, <2>1, <2>3, <2>4, <2>5 DEF OverlaysTrue, Types
<1>6. ASSUME Unstage \/ LeaveForm
      PROVE  OverlaysTrue' /\ staged' \in Ids \union {None} /\ form' \in Forms \union {None}
  BY <1>2, <1>6 DEF Unstage, LeaveForm, OverlaysTrue, Types
<1>7. ASSUME Switch
      PROVE  OverlaysTrue' /\ staged' \in Ids \union {None} /\ form' \in Forms \union {None}
  BY <1>2, <1>7 DEF Switch, OverlaysTrue, Types
<1> QED
  BY <1>1, <1>3, <1>4, <1>5, <1>6, <1>7, KeyStep

LEMMA RemoveStep ==
    ASSUME PInv, RemoveProvider
    PROVE  PInv' /\ OthersKept
<1> USE DEF PInv
<1> DEFINE s == Load(file)
           r == Removed(s, staged, picker[staged])
<1>1. /\ staged # None /\ staged' = None /\ file' = r /\ work' = work + 1 /\ screen = "picker"
      /\ picker' = [picker EXCEPT ![staged] = None]
      /\ discovery' = [discovery EXCEPT !.planned = @ \ {staged},
                        !.status[staged] = None, !.found[staged] = None]
      /\ UNCHANGED <<cache, probes, announced, overtaken, screen, form, verify, detections, declined, session>>
  BY DEF RemoveProvider, Starts, caps
<1>2. staged \in Ids /\ picker[staged] # None /\ picker[staged] \in Groups
  BY <1>1 DEF Types, OverlaysTrue, Rows
<1>3. s \in Seq(Entries) /\ Distinct(s)
  BY LoadIs DEF Types
<1>4. s = Load(file)
  OBVIOUS
<1> HIDE DEF s
<1>5. /\ r \in Seq(Entries) /\ Distinct(r) /\ Target(r, staged) = None
      /\ \A ids : staged \notin ids => EntriesOf(r, ids) = EntriesOf(s, ids)
  BY <1>2, <1>3, RemovedIs
<1> HIDE DEF r
<1>6. \A i \in Ids \ {staged} : Target(r, i) = Target(s, i)
  BY <1>5, TargetSame
<1>7. Load(file') = r /\ file' \in Stored /\ file' \notin {Missing, Corrupt}
  BY <1>1, <1>5, LoadIs DEF Stored
<1>8. /\ picker' \in Rows /\ picker'[staged] = None /\ \A i \in Ids \ {staged} : picker'[i] = picker[i]
  BY <1>1, <1>2 DEF Types, Rows
<1>9. /\ discovery' \in Discoveries /\ discovery'.planned = discovery.planned \ {staged}
      /\ \A i \in Ids \ {staged} : discovery'.status[i] = discovery.status[i]
  <2>1. discovery \in Discoveries
    BY DEF Types
  <2>2. discovery' \in Discoveries
    BY <1>1, <1>2, <2>1 DEF Discoveries
  <2>3. discovery'.planned = discovery.planned \ {staged}
    BY <1>1, <2>1 DEF Discoveries
  <2>4. discovery'.status = [discovery.status EXCEPT ![staged] = None]
    BY <1>1, <2>1 DEF Discoveries
  <2>5. discovery.status \in [Ids -> Statuses \union {None}]
    BY <2>1 DEF Discoveries
  <2> QED
    BY <2>2, <2>3, <2>4, <2>5
<1>10. Types'
  BY <1>1, <1>5, <1>7, <1>8, <1>9 DEF Types
<1>11. PickerAgrees'
  <2> SUFFICES ASSUME NEW i \in Ids
               PROVE  /\ (picker'[i] # None) = (i \in discovery'.planned)
                      /\ (picker'[i] # None) = (i \in Planned(r))
                      /\ picker'[i] # None =>
                            /\ IF picker'[i].status = "checking" THEN \E q \in probes : q.id = i
                               ELSE picker'[i].status = discovery'.status[i]
                            /\ i \notin overtaken => picker'[i].conn = Target(r, i)
    BY <1>1, <1>7 DEF PickerAgrees
  <2>1. CASE i = staged
    BY <1>5, <1>8, <1>9, <2>1 DEF Planned
  <2>2. CASE i # staged
    <3>1. (i \in Planned(r)) = (i \in Planned(s)) /\ Target(r, i) = Target(s, i)
      BY <1>6, <2>2 DEF Planned
    <3> QED
      BY <1>4, <1>8, <1>9, <2>2, <3>1 DEF RowsTrue, PickerAgrees
  <2> QED
    BY <2>1, <2>2
<1>12. ProbesTrue'
  <2> SUFFICES ASSUME NEW p \in probes, picker'[p.id] # None, p.id \notin overtaken
               PROVE  p.conn = Target(r, p.id)
    BY <1>1, <1>7 DEF ProbesTrue
  <2>1. p.id \in Ids \ {staged}
    BY <1>8 DEF Types, Probings
  <2> QED
    BY <1>4, <1>6, <1>8, <2>1 DEF RowsTrue, ProbesTrue
<1>13. FirstRun'
  BY <1>7 DEF FirstRun
<1>14. OverlaysTrue'
  BY <1>1, <1>8 DEF OverlaysTrue
<1>15. ModelsTrue'
  <2>1. \A i \in Ids : picker'[i] # None => \A m \in DOMAIN picker'[i].models :
            picker'[i].models[m] \in {"assumed", "chat", Able[m]}
    BY <1>8 DEF ModelsTrue, CapsTrue
  <2> QED
    BY <1>1, <2>1, ModelsKept
<1>16. OthersKept
  <2>1. file \in {Missing, Corrupt} \/ s = file
    BY <1>4 DEF Load
  <2> QED
    BY <1>1, <1>5, <2>1 DEF OthersKept
<1> QED
  BY <1>10, <1>11, <1>12, <1>13, <1>14, <1>15, <1>16 DEF RowsTrue

LEMMA SaveStep ==
    ASSUME PInv, NEW id \in Ids, NEW c \in Conns, SaveProvider(id, Formed[c])
    PROVE  PInv' /\ OthersKept
<1> USE DEF PInv
<1> DEFINE conn == Formed[c]
           s == Load(file)
           e == Entry(id, conn, TRUE)
           r == file'
           skeleton == Skeleton(r)
           all == Planned(r)
<1>1. /\ screen = "form" /\ verify = None /\ id \notin form.taken /\ file' = Upsert(s, e, form.original)
      /\ work' = work + 1 /\ form' = None /\ screen' = "picker"
      /\ UNCHANGED <<cache, probes, announced, staged, verify, detections, declined, session>>
      /\ overtaken' = overtaken \union {p.id : p \in {q \in probes : q.conn # Target(r, q.id)}}
  BY DEF SaveProvider, InForm, ValidDraft, Starts, caps
<1>2. PICK ends \in [all -> Failures \union {"online"}] :
         LET o == [i \in all |-> [id |-> i, conn |-> skeleton[i].conn, status |-> ends[i]]]
         IN /\ picker' = [i \in Ids |-> IF i \in all THEN Resolve(skeleton, o[i])[i] ELSE None]
            /\ discovery' =
                  [planned |-> all,
                   status |-> [i \in Ids |-> IF i \in all THEN ends[i] ELSE None],
                   found |-> [i \in Ids |-> IF i \in all /\ ends[i] = "online"
                                            THEN o[i].conn ELSE None]]
  BY DEF SaveProvider
<1>3. s \in Seq(Entries) /\ Distinct(s) /\ s = Load(file)
  BY LoadIs DEF Types
<1>4. form \in Forms /\ form.original \in Ids \union {None} /\ form # None /\ staged = None
  BY <1>1 DEF OverlaysTrue, Types, Forms
<1>5. e \in Entries /\ e.id = id
  BY ProviderConstants DEF Entry, Entries
<1> HIDE DEF s, e, conn
<1>6. /\ r \in Seq(Entries) /\ Distinct(r)
      /\ \A ids \in SUBSET Ids : id \notin ids /\ form.original \notin ids => EntriesOf(r, ids) = EntriesOf(s, ids)
  BY <1>1, <1>3, <1>4, <1>5, UpsertIs
<1> HIDE DEF r
<1>7. /\ skeleton \in Rows /\ all \subseteq Ids
      /\ \A i \in Ids : IF i \in all THEN /\ skeleton[i] = Checking(Target(r, i)) /\ skeleton[i] # None
                                          /\ Target(r, i) \in Conns
                        ELSE skeleton[i] = None
  BY <1>6, PlanIs
<1>8. \A i \in Ids : (i \in all) = (Target(r, i) # None)
  BY DEF Planned
<1> HIDE DEF skeleton, all
<1>9. \A i \in all : skeleton[i].conn = Target(r, i) /\ DOMAIN skeleton[i].models = {}
  BY <1>7, CheckingIs
<1>10. Sound(skeleton)
  BY <1>7, <1>9 DEF Sound
<1> DEFINE o(i) == [id |-> i, conn |-> Target(r, i), status |-> ends[i]]
<1>11. \A i \in all : o(i) \in Outcomes(i, Target(r, i)) /\ ends[i] \in Failures \union {"online"} /\ o(i).status = ends[i]
  BY DEF Outcomes
<1>12. /\ picker' = [i \in Ids |-> IF i \in all THEN Resolve(skeleton, o(i))[i] ELSE None]
       /\ discovery' = [planned |-> all, status |-> [i \in Ids |-> IF i \in all THEN ends[i] ELSE None],
                        found |-> [i \in Ids |-> IF i \in all /\ ends[i] = "online" THEN Target(r, i) ELSE None]]
  <2> DEFINE os == [i \in all |-> [id |-> i, conn |-> skeleton[i].conn, status |-> ends[i]]]
  <2>1. \A i \in all : os[i] = o(i) /\ os[i].conn = Target(r, i)
    BY <1>9
  <2>2. /\ picker' = [i \in Ids |-> IF i \in all THEN Resolve(skeleton, os[i])[i] ELSE None]
        /\ discovery' = [planned |-> all, status |-> [i \in Ids |-> IF i \in all THEN ends[i] ELSE None],
                         found |-> [i \in Ids |-> IF i \in all /\ ends[i] = "online" THEN os[i].conn ELSE None]]
    BY <1>2
  <2> HIDE DEF os, o
  <2> QED
    BY <2>1, <2>2
<1>13. \A i \in all : /\ Resolve(skeleton, o(i)) \in Rows /\ Sound(Resolve(skeleton, o(i)))
                      /\ Resolve(skeleton, o(i))[i] # None
                      /\ Resolve(skeleton, o(i))[i].status = ends[i]
                      /\ Resolve(skeleton, o(i))[i].conn = Target(r, i)
  <2> SUFFICES ASSUME NEW i \in all
               PROVE  /\ Resolve(skeleton, o(i)) \in Rows /\ Sound(Resolve(skeleton, o(i)))
                      /\ Resolve(skeleton, o(i))[i] # None
                      /\ Resolve(skeleton, o(i))[i].status = ends[i]
                      /\ Resolve(skeleton, o(i))[i].conn = Target(r, i)
    OBVIOUS
  <2>1. i \in Ids /\ Target(r, i) \in Conns /\ skeleton[i] # None /\ skeleton[i].conn = Target(r, i)
    BY <1>7, <1>9
  <2>2. o(i) \in Outcomes(i, Target(r, i)) /\ o(i).status = ends[i]
    BY <1>11
  <2> HIDE DEF o
  <2> QED
    BY <1>7, <1>10, <2>1, <2>2, ResolveIs DEF ModelsTrue
<1> HIDE DEF o
<1>14. \A i \in Ids : /\ picker'[i] = IF i \in all THEN Resolve(skeleton, o(i))[i] ELSE None
                      /\ (picker'[i] # None) = (i \in all)
  BY <1>12, <1>13
<1>15. picker' \in Rows
  <2>1. \A i \in Ids : picker'[i] \in Groups \union {None}
    BY <1>13, <1>14 DEF Rows
  <2>2. picker' = [i \in Ids |-> picker'[i]]
    BY <1>12
  <2> QED
    BY <2>1, <2>2 DEF Rows
<1>16. discovery' \in Discoveries
  <2>1. \A i \in all : ends[i] \in Statuses /\ Target(r, i) \in Conns
    BY <1>7, <1>11 DEF Statuses
  <2> QED
    BY <1>7, <1>12, <2>1 DEF Discoveries
<1>17. file' = r /\ Load(file') = r /\ file' \in Stored /\ file' \notin {Missing, Corrupt}
  BY <1>6, LoadIs DEF Stored, r
<1>18. Types'
  <2>1. overtaken' \subseteq Ids
    BY <1>1 DEF Types, Probings
  <2> QED
    BY <1>1, <1>6, <1>15, <1>16, <1>17, <2>1 DEF Types
<1>19. PickerAgrees'
  <2> SUFFICES ASSUME NEW i \in Ids
               PROVE  /\ (picker'[i] # None) = (i \in discovery'.planned)
                      /\ (picker'[i] # None) = (i \in Planned(r))
                      /\ picker'[i] # None =>
                            /\ IF picker'[i].status = "checking" THEN \E q \in probes' : q.id = i
                               ELSE picker'[i].status = discovery'.status[i]
                            /\ i \notin overtaken' => picker'[i].conn = Target(r, i)
    BY <1>17 DEF PickerAgrees
  <2>1. Planned(r) = all /\ discovery'.planned = all
    BY <1>12 DEF all
  <2>2. CASE i \in all
    <3>1. picker'[i].status = ends[i] /\ picker'[i].conn = Target(r, i)
      BY <1>13, <1>14, <2>2
    <3>2. ends[i] # "checking" /\ discovery'.status[i] = ends[i]
      BY <1>11, <1>12, <2>2, ProviderConstants
    <3> QED
      BY <1>14, <2>1, <2>2, <3>1, <3>2
  <2>3. CASE i \notin all
    BY <1>14, <2>1, <2>3
  <2> QED
    BY <2>2, <2>3
<1>20. ProbesTrue'
  <2> SUFFICES ASSUME NEW p \in probes, p.id \notin overtaken' PROVE p.conn = Target(r, p.id)
    BY <1>1, <1>17 DEF ProbesTrue
  <2> QED
    BY <1>1
<1>21. FirstRun'
  BY <1>17 DEF FirstRun
<1>22. OverlaysTrue'
  BY <1>1, <1>4 DEF OverlaysTrue
<1>23. ModelsTrue'
  <2>1. \A i \in Ids : picker'[i] # None => \A m \in DOMAIN picker'[i].models :
            picker'[i].models[m] \in {"assumed", "chat", Able[m]}
    BY <1>7, <1>13, <1>14 DEF Sound
  <2> QED
    BY <1>1, <2>1, ModelsKept
<1>24. OthersKept
  <2> DEFINE others == {i \in Ids \ {form.original} : picker[i] # None}
  <2>1. others \in SUBSET Ids /\ form.original \notin others /\ id \notin others
    BY <1>1, <1>4 DEF OverlaysTrue
  <2>2. EntriesOf(r, others) = EntriesOf(s, others)
    BY <1>6, <2>1
  <2>3. file \in {Missing, Corrupt} \/ s = file
    BY <1>3 DEF Load
  <2> QED
    BY <1>1, <1>4, <1>17, <2>2, <2>3 DEF OthersKept
<1> QED
  BY <1>18, <1>19, <1>20, <1>21, <1>22, <1>23, <1>24 DEF RowsTrue

-----------------------------------------------------------------------------
(* The choice of a model and its verification.                               *)

LEMMA PopupIs ==
    ASSUME NEW entry \in Selections, NEW probing \in BOOLEAN
    PROVE  LET popup == [entry |-> entry, probing |-> probing]
           IN popup \in Popups /\ popup # None /\ entry # None
<1>1. [entry |-> entry, probing |-> probing] \in Popups
  BY DEF Popups
<1> QED
  BY <1>1, ProviderConstants

LEMMA SelectStep ==
    ASSUME PInv, NEW id \in Ids, NEW m \in Models, SelectModel(id, m)
    PROVE  PInv' /\ OthersKept
<1> USE DEF PInv
<1> DEFINE entry == [id |-> id, conn |-> picker[id].conn, model |-> m, caps |-> picker[id].models[m]]
           popup == [entry |-> entry, probing |-> FALSE]
<1>1. /\ verify = None /\ staged = None /\ picker[id] # None /\ m \in DOMAIN picker[id].models
      /\ session' = entry /\ screen' = "chat" /\ verify' \in {popup, None}
      /\ UNCHANGED <<file, cache, picker, discovery, probes, announced, overtaken, staged, form, detections,
                     declined, work>>
  BY DEF SelectModel, OnPicker, Enter, stored, rows
<1>2. /\ picker[id].conn \in Conns /\ picker[id].models[m] \in Known
      /\ picker[id].models[m] \in {"assumed", "chat", Able[m]}
  <2>1. picker[id] \in Groups
    BY <1>1 DEF Types, Rows
  <2>2. picker[id].models \in Tables /\ picker[id].conn \in Conns
    BY <2>1 DEF Groups
  <2> QED
    BY <1>1, <2>2, TablesAre DEF ModelsTrue, CapsTrue
<1>3. /\ entry \in Selections /\ entry.model = m /\ entry.caps = picker[id].models[m]
      /\ popup.entry = entry /\ popup.probing = FALSE
  BY <1>2 DEF Selections
<1> HIDE DEF entry
<1>4. popup \in Popups /\ popup # None
  BY <1>3, PopupIs
<1> HIDE DEF popup
<1>5. detections = {}
  BY <1>1 DEF ModelsTrue, OneDetection
<1>6. Types'
  BY <1>1, <1>3, <1>4 DEF Types
<1>7. RowsTrue'
  BY <1>1, RowsKept DEF rows
<1>8. OverlaysTrue'
  BY <1>1 DEF OverlaysTrue
<1>9. ModelsTrue'
  BY <1>1, <1>2, <1>3, <1>5 DEF ModelsTrue, CapsTrue, OneDetection
<1> QED
  BY <1>1, <1>6, <1>7, <1>8, <1>9, StoredKept DEF stored

LEMMA ProbeCapsStep ==
    ASSUME PInv, ProbeCaps
    PROVE  PInv' /\ OthersKept
<1> USE DEF PInv
<1> DEFINE entry == verify.entry
           d == [id |-> entry.id, model |-> entry.model, loaded |-> cache[entry.id], n |-> work']
<1>1. /\ verify # None /\ verify.probing # TRUE /\ work' = work + 1
      /\ verify' = [verify EXCEPT !.probing = TRUE] /\ detections' = detections \union {d}
      /\ UNCHANGED <<file, cache, picker, discovery, probes, announced, overtaken, screen, staged, form,
                     declined, session>>
  BY DEF ProbeCaps, CanAnswer, Starts, stored, rows, overlays
<1>2. verify \in Popups /\ entry \in Selections /\ entry.id \in Ids /\ entry.model \in Models
  BY <1>1 DEF Types, Popups, Selections
<1>3. verify'.entry = entry /\ verify'.probing = TRUE /\ verify' \in Popups /\ verify' # None
  <2>1. verify'.entry = entry /\ verify'.probing = TRUE /\ verify' \in Popups
    BY <1>1, <1>2 DEF Popups
  <2> QED
    BY <2>1, ProviderConstants
<1>4. d \in Detections /\ d.id = entry.id /\ d.model = entry.model /\ d.loaded = cache[entry.id]
  BY <1>1, <1>2 DEF Types, Detections
<1>5. detections = {}
  <2> SUFFICES ASSUME NEW x \in detections PROVE FALSE
    OBVIOUS
  <2> QED
    BY <1>1 DEF ModelsTrue, CapsTrue, OneDetection
<1> HIDE DEF entry, d
<1>6. Types'
  BY <1>1, <1>3, <1>4 DEF Types
<1>7. RowsTrue'
  BY <1>1, RowsKept DEF rows
<1>8. OverlaysTrue'
  BY <1>1 DEF OverlaysTrue
<1>9. ModelsTrue'
  <2>1. session = entry
    BY <1>1 DEF ModelsTrue, CapsTrue, entry
  <2> QED
    BY <1>1, <1>3, <1>4, <1>5, <2>1 DEF ModelsTrue, CapsTrue, OneDetection
<1> QED
  BY <1>1, <1>6, <1>7, <1>8, <1>9, StoredKept DEF stored

LEMMA DeclineStep ==
    ASSUME PInv, Decline
    PROVE  PInv' /\ OthersKept
<1> USE DEF PInv
<1>1. /\ verify # None /\ ~verify.probing /\ verify' = None
      /\ UNCHANGED <<file, cache, picker, discovery, probes, announced, overtaken, screen, staged, form,
                     detections, session, work>>
  BY DEF Decline, CanAnswer, stored, rows, overlays
<1>2. detections = {}
  BY <1>1 DEF ModelsTrue, CapsTrue, OneDetection
<1>3. Types'
  BY <1>1 DEF Types
<1>4. RowsTrue'
  BY <1>1, RowsKept DEF rows
<1>5. OverlaysTrue'
  BY <1>1 DEF OverlaysTrue
<1>6. ModelsTrue'
  BY <1>1, <1>2 DEF ModelsTrue, CapsTrue, OneDetection
<1> QED
  BY <1>1, <1>3, <1>4, <1>5, <1>6, StoredKept DEF stored

LEMMA DetectionStep ==
    ASSUME PInv, NEW d \in detections, DetectionLands(d)
    PROVE  PInv' /\ OthersKept
<1> USE DEF PInv
<1> DEFINE known == d.loaded[d.model] # "assumed"
           found(ok) == IF known THEN d.loaded[d.model] ELSE IF ok THEN Able[d.model] ELSE "chat"
           records(ok) == [d.loaded EXCEPT ![d.model] = found(ok)]
           g(ok) == [picker[d.id] EXCEPT !.models[d.model] = found(ok)]
           entry(ok) == [verify.entry EXCEPT !.caps = found(ok)]
           popup(ok) == [entry |-> entry(ok), probing |-> FALSE]
<1>1. /\ detections' = detections \ {d}
      /\ UNCHANGED <<file, discovery, probes, announced, overtaken, staged, form, declined, work>>
  BY DEF DetectionLands
<1>2. /\ d \in Detections /\ d.id \in Ids /\ d.model \in Models /\ d.loaded \in Records
      /\ detections = {d} /\ verify # None /\ d.id = verify.entry.id /\ d.model = verify.entry.model
      /\ d.loaded = cache[d.id]
  BY DEF Types, Detections, ModelsTrue, OneDetection
<1>3. PICK ok \in BOOLEAN :
        /\ cache' = IF ok /\ ~known THEN [cache EXCEPT ![d.id] = records(ok)] ELSE cache
        /\ picker' = IF picker[d.id] # None /\ d.model \in DOMAIN picker[d.id].models
                     THEN [picker EXCEPT ![d.id] = g(ok)] ELSE picker
        /\ session' = entry(ok) /\ screen' = "chat" /\ verify' \in {popup(ok), None}
  BY <1>2 DEF DetectionLands, Enter
<1> DEFINE what == found(ok)
<1>4. what \in {"chat", Able[d.model]} /\ what \in Known /\ (ok /\ ~known => what = Able[d.model])
  <2>1. cache[d.id][d.model] \in {"assumed", Able[d.model]}
    BY <1>2 DEF ModelsTrue, CapsTrue
  <2> QED
    BY <1>2, <2>1, AbleIs DEF Known
<1>5. what # "assumed"
  BY <1>2, <1>4, AbleIs
<1> DEFINE row == g(ok)
           e == entry(ok)
           p == popup(ok)
           rec == records(ok)
<1>6. e \in Selections /\ e.caps = what /\ e.model = d.model
  <2>1. verify.entry \in Selections
    BY <1>2 DEF Types, Popups
  <2>2. e = [verify.entry EXCEPT !.caps = what]
    OBVIOUS
  <2> HIDE DEF what, e
  <2> QED
    BY <1>2, <1>4, <2>1, <2>2 DEF Selections
<1>7. p \in Popups /\ p # None /\ p.entry = e /\ p.probing = FALSE
  <2>1. p = [entry |-> e, probing |-> FALSE]
    OBVIOUS
  <2> HIDE DEF e, p
  <2> QED
    BY <1>6, <2>1, PopupIs
<1>8. /\ rec \in Records /\ rec[d.model] = what /\ \A m \in Models \ {d.model} : rec[m] = d.loaded[m]
  <2>1. rec = [d.loaded EXCEPT ![d.model] = what]
    OBVIOUS
  <2> HIDE DEF what, rec
  <2> QED
    BY <1>2, <1>4, <2>1 DEF Records
<1>9. ASSUME picker[d.id] # None, d.model \in DOMAIN picker[d.id].models
      PROVE  /\ row \in Groups /\ row # None /\ row.conn = picker[d.id].conn /\ row.status = picker[d.id].status
             /\ DOMAIN row.models = DOMAIN picker[d.id].models /\ row.models[d.model] = what
             /\ \A m \in DOMAIN row.models \ {d.model} : row.models[m] = picker[d.id].models[m]
  <2> DEFINE was == picker[d.id]
             models == [was.models EXCEPT ![d.model] = what]
  <2>1. was \in Groups /\ was.models \in Tables
    BY <1>2, <1>9 DEF Types, Rows, Groups
  <2>2. row = [was EXCEPT !.models = models]
    BY <2>1 DEF Groups
  <2> HIDE DEF row, what
  <2>3. models \in Tables
    <3>1. PICK ms \in SUBSET Models : was.models \in [ms -> Known]
      BY <2>1 DEF Tables
    <3>2. models \in [ms -> Known]
      BY <1>4, <3>1
    <3> QED
      BY <3>2 DEF Tables
  <2>4. /\ DOMAIN models = DOMAIN was.models /\ models[d.model] = what
        /\ \A m \in DOMAIN models \ {d.model} : models[m] = was.models[m]
    <3>1. PICK ms \in SUBSET Models : was.models \in [ms -> Known]
      BY <2>1 DEF Tables
    <3> QED
      BY <1>9, <3>1
  <2> HIDE DEF models
  <2>5. row \in Groups /\ row.conn = was.conn /\ row.status = was.status /\ row.models = models
    BY <2>1, <2>2, <2>3 DEF Groups
  <2> QED
    BY <2>4, <2>5, ProviderConstants
<1> HIDE DEF what, row, e, p, rec, known, found, records, g, entry, popup
<1>10. /\ cache' = IF ok /\ ~known THEN [cache EXCEPT ![d.id] = rec] ELSE cache
       /\ picker' = IF picker[d.id] # None /\ d.model \in DOMAIN picker[d.id].models
                    THEN [picker EXCEPT ![d.id] = row] ELSE picker
       /\ session' = e /\ screen' = "chat" /\ verify' \in {p, None}
  BY <1>3 DEF rec, row, e, p
<1>11. /\ cache' \in [Ids -> Records]
       /\ \A i \in Ids, m \in Models :
             /\ cache'[i][m] \in {"assumed", Able[m]}
             /\ cache[i][m] # "assumed" => cache'[i][m] = cache[i][m]
  <2>1. cache \in [Ids -> Records] /\ \A i \in Ids, m \in Models : cache[i][m] \in {"assumed", Able[m]}
    BY DEF Types, ModelsTrue, CapsTrue
  <2>2. CASE ok /\ ~known
    <3>1. cache' \in [Ids -> Records] /\ cache'[d.id] = rec /\ \A i \in Ids \ {d.id} : cache'[i] = cache[i]
      BY <1>2, <1>8, <1>10, <2>1, <2>2
    <3>2. what = Able[d.model] /\ cache[d.id][d.model] = "assumed"
      BY <1>2, <1>4, <2>2 DEF known
    <3> QED
      BY <1>2, <1>8, <2>1, <3>1, <3>2
  <2>3. CASE ~(ok /\ ~known)
    BY <1>10, <2>1, <2>3
  <2> QED
    BY <2>2, <2>3
<1>12. /\ picker' \in Rows
       /\ \A i \in Ids : /\ (picker'[i] = None) = (picker[i] = None)
                         /\ picker[i] # None =>
                              /\ picker'[i].conn = picker[i].conn /\ picker'[i].status = picker[i].status
                              /\ \A m \in DOMAIN picker'[i].models :
                                    picker'[i].models[m] \in {"assumed", "chat", Able[m]}
  <2>1. picker \in Rows /\ \A i \in Ids : picker[i] # None => \A m \in DOMAIN picker[i].models :
                              picker[i].models[m] \in {"assumed", "chat", Able[m]}
    BY DEF Types, ModelsTrue, CapsTrue
  <2>2. CASE picker[d.id] # None /\ d.model \in DOMAIN picker[d.id].models
    <3>1. picker' \in Rows /\ picker'[d.id] = row /\ \A i \in Ids \ {d.id} : picker'[i] = picker[i]
      BY <1>2, <1>9, <1>10, <2>1, <2>2 DEF Rows
    <3>2. \A m \in DOMAIN row.models : row.models[m] \in {"assumed", "chat", Able[m]}
      BY <1>2, <1>4, <1>9, <2>1, <2>2
    <3> QED
      BY <1>2, <1>9, <2>1, <2>2, <3>1, <3>2
  <2>3. CASE ~(picker[d.id] # None /\ d.model \in DOMAIN picker[d.id].models)
    BY <1>10, <2>1, <2>3
  <2> QED
    BY <2>2, <2>3
<1>13. detections' = {}
  BY <1>1, <1>2
<1>14. Types'
  BY <1>1, <1>6, <1>7, <1>10, <1>11, <1>12, <1>13 DEF Types
<1>15. RowsTrue'
  <2>1. PickerAgrees'
    BY <1>1, <1>12 DEF RowsTrue, PickerAgrees
  <2>2. ProbesTrue'
    BY <1>1, <1>12 DEF RowsTrue, ProbesTrue, Types, Probings
  <2>3. FirstRun'
    BY <1>1 DEF RowsTrue, FirstRun
  <2> QED
    BY <2>1, <2>2, <2>3 DEF RowsTrue
<1>16. OverlaysTrue'
  BY <1>1, <1>10, <1>12 DEF OverlaysTrue, Types
<1>17. ModelsTrue'
  <2>1. CapsTrue'
    BY <1>2, <1>4, <1>6, <1>7, <1>10, <1>11, <1>12 DEF CapsTrue
  <2>2. OneDetection'
    BY <1>13 DEF OneDetection
  <2> QED
    BY <2>1, <2>2 DEF ModelsTrue
<1>18. OthersKept
  BY <1>1, <1>11 DEF OthersKept
<1> QED
  BY <1>14, <1>15, <1>16, <1>17, <1>18

-----------------------------------------------------------------------------
(* Every step.                                                               *)

LEMMA StepSound == PInv /\ [ProvidersNext]_providerVars => PInv' /\ (OthersKept \/ UNCHANGED providerVars)
<1> SUFFICES ASSUME PInv, [ProvidersNext]_providerVars
             PROVE  PInv' /\ (OthersKept \/ UNCHANGED providerVars)
  OBVIOUS
<1>1. CASE UNCHANGED providerVars
  <2>1. UNCHANGED <<file, cache, picker, discovery, probes, announced, overtaken, screen, staged, form, verify,
                    detections, declined, session, work>>
    BY <1>1 DEF providerVars, stored, rows, overlays, caps
  <2>2. Types' /\ RowsTrue' /\ OverlaysTrue' /\ ModelsTrue'
    BY <2>1 DEF PInv, Types, RowsTrue, PickerAgrees, ProbesTrue, FirstRun, OverlaysTrue, ModelsTrue, CapsTrue,
                OneDetection
  <2> QED
    BY <1>1, <2>2 DEF PInv
<1>2. CASE ProbesLand \/ DetectionsLand \/ DiscoveryDone
  BY <1>2, ProbeStep, DetectionStep, DiscoveryStep DEF ProbesLand, DetectionsLand
<1>3. CASE \E id \in Ids : Retry(id)
  BY <1>3, RetryStep
<1>4. CASE \/ \E id \in Ids : Stage(id) \/ OpenEdit(id)
           \/ Unstage \/ OpenAdd \/ LeaveForm \/ Switch
  BY <1>4, StageStep
<1>5. CASE \E id \in Ids, m \in Models : SelectModel(id, m)
  BY <1>5, SelectStep
<1>6. CASE RemoveProvider \/ ProbeCaps \/ Decline \/ Restart
  BY <1>6, RemoveStep, ProbeCapsStep, DeclineStep, RestartStep
<1>7. CASE \E id \in Ids, conn \in {Formed[c] : c \in Conns} : SaveProvider(id, conn)
  <2>1. PICK id \in Ids, c \in Conns : SaveProvider(id, Formed[c])
    BY <1>7
  <2> QED
    BY <2>1, SaveStep
<1> QED
  BY <1>1, <1>2, <1>3, <1>4, <1>5, <1>6, <1>7 DEF ProvidersNext

\* The picker, the discovery state, providers.json and what is known of models agree
\* in every state, however probes, detections, keys and restarts interleave.
THEOREM ProvidersSound == ProvidersSpec => []PInv
<1>1. ProvidersInit => PInv
  BY InitSound
<1>2. PInv /\ [ProvidersNext]_providerVars => PInv'
  BY StepSound
<1> QED
  BY <1>1, <1>2, PTL DEF ProvidersSpec

\* For any providers, models and connections: a row is there exactly if the stored file
\* plans it, its status and connection are the recorded ones, capabilities are found
\* out of that very model, and what is written leaves the other entries.
THEOREM ProvidersAreTrue == ProvidersSpec => ProvidersTrue
<1>1. PInv => PickerAgrees /\ CapsTrue
  BY DEF PInv, RowsTrue, ModelsTrue
<1>2. PInv /\ [ProvidersNext]_providerVars => [OthersKept]_providerVars
  BY StepSound
<1> QED
  BY <1>1, <1>2, ProvidersSound, PTL DEF ProvidersSpec, ProvidersTrue

-----------------------------------------------------------------------------
(* Setup: the invariant.                                                     *)

Writings ==
    {<<>>, <<"directory", "config">>, <<"config">>,
     <<"directory", "config", "permissions">>, <<"config", "permissions">>, <<"permissions">>,
     <<"directory", "config", "permissions", "empty", "fill">>,
     <<"config", "permissions", "empty", "fill">>,
     <<"permissions", "empty", "fill">>, <<"empty", "fill">>, <<"fill">>}

\* Those in which .gitignore is still to be written.
Ignoring ==
    {<<"directory", "config", "permissions", "empty", "fill">>,
     <<"config", "permissions", "empty", "fill">>,
     <<"permissions", "empty", "fill">>, <<"empty", "fill">>, <<"fill">>}

\* Those in which project.json is.
Configuring == {w \in Writings : w # <<>> /\ Head(w) \in {"directory", "config"}}

Classes == {"hidden", "hardened", "skip"}

\* The wizard: its list holds offered lines, its cursor is in the list.
WizardTrue ==
    phase = "init" =>
        /\ init \in [step : {"confirm", "import", "git"}, at : Nat,
                     entries : Seq([line : GitLines \ Comments, class : Classes])]
        /\ init.entries # <<>> => init.at < Len(init.entries)
        /\ init.step = "import" => init.entries # <<>>
        /\ \A i \in DOMAIN init.entries : init.entries[i].line \in Offered

SetupTypes ==
    /\ phase \in {"off", "init", "writing", "session"}
    /\ suis \in BOOLEAN /\ orphaned \in BOOLEAN /\ torn \in BOOLEAN
    /\ writing \in Writings
    /\ held \in Seq(GitLines) /\ ignore \in Seq(GitLines)
    /\ onDisk \in Configs \union {NoValue}
    /\ phase \in {"session", "writing"} => project \in Configs
    /\ phase = "writing" => writing # <<>>
    /\ phase \in {"off", "init"} => writing = <<>>

\* .suis/ without project.json is one a crash or a grant left, and nothing else
\* takes the tools away; what is there was agreed to, and stays as the user has it.
StoreTrue ==
    /\ ~suis => onDisk = NoValue
    /\ ~suis /\ writing # <<>> => Head(writing) = "directory"
    /\ suis /\ onDisk = NoValue /\ ~orphaned => writing # <<>> /\ Head(writing) = "config"
    /\ onDisk # NoValue /\ ~orphaned => onDisk.tools
    /\ writing \notin Configuring /\ suis /\ ~orphaned => onDisk \in ToSet(agreed)
    /\ phase = "init" => ~suis

SessionTrue ==
    phase \in {"session", "writing"} =>
        /\ ~orphaned => project.tools
        /\ ~orphaned \/ writing # <<>> => project \in ToSet(agreed)
        /\ onDisk # NoValue /\ onDisk.verify # NoValue => project.verify = onDisk.verify

\* Nothing is protected that no line asks for.
ImportsTrue ==
    /\ phase \in {"session", "writing"} => ToSet(project.hidden) \union ToSet(project.hardened) \subseteq Offered
    /\ onDisk # NoValue => ToSet(onDisk.hidden) \union ToSet(onDisk.hardened) \subseteq Offered

\* .gitignore, now and when it will have been written.
IgnoreTrue ==
    /\ ToSet(ignore) \subseteq ToSet(held) \union {SuisLine}
    /\ torn \/ writing = <<"fill">> \/ IsPrefix(held, ignore)
    /\ writing \in Ignoring =>
          /\ rewritten \in Seq(GitLines)
          /\ ToSet(rewritten) \subseteq ToSet(held) \union {SuisLine}
          /\ torn \/ IsPrefix(held, rewritten)

SInv == SetupTypes /\ WizardTrue /\ StoreTrue /\ SessionTrue /\ ImportsTrue /\ IgnoreTrue

-----------------------------------------------------------------------------
(* The writes one after the other, and the lists an import makes.            *)

LEMMA WritesInOrder ==
    ASSUME NEW w \in Writings, w # <<>>
    PROVE  /\ Head(w) \in {"directory", "config", "permissions", "empty", "fill"}
           /\ Tail(w) \in Writings
           /\ Len(w) = 1 <=> Tail(w) = <<>>
           /\ w = <<"fill">> <=> Head(w) = "fill"
           /\ Head(w) = "fill" => Tail(w) = <<>>
           /\ Head(w) = "empty" => Tail(w) = <<"fill">> /\ w \in Ignoring
           /\ Tail(w) = <<"fill">> => Head(w) = "empty"
           /\ Head(w) = "directory" => Tail(w) # <<>> /\ Head(Tail(w)) = "config"
           /\ w \in Configuring <=> Head(w) \in {"directory", "config"}
           /\ Tail(w) \in Configuring => Head(w) = "directory"
           /\ Tail(w) \in Ignoring => w \in Ignoring
<1> DEFINE Ok(v) ==
             /\ Head(v) \in {"directory", "config", "permissions", "empty", "fill"}
             /\ Tail(v) \in Writings
             /\ Len(v) = 1 <=> Tail(v) = <<>>
             /\ v = <<"fill">> <=> Head(v) = "fill"
             /\ Head(v) = "fill" => Tail(v) = <<>>
             /\ Head(v) = "empty" => Tail(v) = <<"fill">> /\ v \in Ignoring
             /\ Tail(v) = <<"fill">> => Head(v) = "empty"
             /\ Head(v) = "directory" => Tail(v) # <<>> /\ Head(Tail(v)) = "config"
             /\ v # <<>> /\ Tail(v) # <<>> => (Head(Tail(v)) \in {"directory", "config"} => Head(v) = "directory")
             /\ Tail(v) \in Ignoring => v \in Ignoring
<1>1. Ok(<<"directory", "config">>)
  BY DEF Writings, Ignoring
<1>2. Ok(<<"config">>)
  BY DEF Writings, Ignoring
<1>3. Ok(<<"directory", "config", "permissions">>)
  BY DEF Writings, Ignoring
<1>4. Ok(<<"config", "permissions">>)
  BY DEF Writings, Ignoring
<1>5. Ok(<<"permissions">>)
  BY DEF Writings, Ignoring
<1>6. Ok(<<"directory", "config", "permissions", "empty", "fill">>)
  BY DEF Writings, Ignoring
<1>7. Ok(<<"config", "permissions", "empty", "fill">>)
  BY DEF Writings, Ignoring
<1>8. Ok(<<"permissions", "empty", "fill">>)
  BY DEF Writings, Ignoring
<1>9. Ok(<<"empty", "fill">>)
  BY DEF Writings, Ignoring
<1>10. Ok(<<"fill">>)
  BY DEF Writings, Ignoring
<1>11. Ok(w)
  <2> HIDE DEF Ok
  <2> QED
    BY <1>1, <1>2, <1>3, <1>4, <1>5, <1>6, <1>7, <1>8, <1>9, <1>10 DEF Writings
<1> QED
  BY <1>11 DEF Configuring

LEMMA ImportedLines ==
    ASSUME NEW lines \in Seq(GitLines), NEW X, ToSet(lines) \subseteq X
    PROVE  Imported(lines) \in Seq(X \ Comments)
<1> DEFINE S == X \ Comments
           pieces == [i \in DOMAIN lines |-> IF lines[i] \in Comments THEN <<>> ELSE <<lines[i]>>]
<1>1. \A i \in DOMAIN lines : lines[i] \in X
  BY DEF ToSet
<1>2. \A x \in S : <<x>> \in Seq(S)
  OBVIOUS
<1>3. <<>> \in Seq(S)
  OBVIOUS
<1>4. DOMAIN lines = 1 .. Len(lines) /\ Len(lines) \in Nat
  BY LenProperties
<1>5. \A i \in DOMAIN lines : pieces[i] \in Seq(S)
  BY <1>1, <1>2, <1>3
<1>6. pieces \in Seq(Seq(S))
  BY <1>4, <1>5
<1>7. FlattenSeq(pieces) \in Seq(S)
  BY <1>3, <1>6, FlattenAppend
<1> QED
  BY <1>7 DEF Imported

LEMMA LinesOfType ==
    ASSUME NEW L, NEW class, NEW X, init.entries \in Seq(L),
           \A i \in DOMAIN init.entries : init.entries[i].line \in X
    PROVE  LinesOf(class) \in Seq(X)
<1> DEFINE entries == init.entries
           pieces == [i \in DOMAIN entries |-> IF entries[i].class = class THEN <<entries[i].line>> ELSE <<>>]
<1>1. \A x \in X : <<x>> \in Seq(X)
  OBVIOUS
<1>2. <<>> \in Seq(X)
  OBVIOUS
<1>3. DOMAIN entries = 1 .. Len(entries) /\ Len(entries) \in Nat
  BY LenProperties
<1>4. \A i \in DOMAIN entries : pieces[i] \in Seq(X)
  BY <1>1, <1>2
<1>5. pieces \in Seq(Seq(X))
  BY <1>3, <1>4
<1>6. FlattenSeq(pieces) \in Seq(X)
  BY <1>2, <1>5, FlattenAppend
<1> QED
  BY <1>6 DEF LinesOf

LEMMA ProfileType == \A files : Profile(files) \in [chain : TestCommands, test : TestCommands]
<1> SUFFICES ASSUME NEW files PROVE Profile(files) \in [chain : TestCommands, test : TestCommands]
  OBVIOUS
<1> DEFINE found == {i \in DOMAIN Chains : Chains[i] \in files}
<1>1. DOMAIN Chains = 1 .. 5 /\ \A i \in 1 .. 5 : Chains[i] \in TestCommands
  BY DEF Chains, TestCommands
<1>2. CASE found = {}
  <2>1. Profile(files) = [chain |-> NoValue, test |-> NoValue]
    BY <1>2 DEF Profile
  <2> QED
    BY <2>1 DEF TestCommands
<1>3. CASE found # {}
  <2>1. found \in SUBSET Nat
    BY <1>1
  <2>2. \E i \in found : \A k \in found : i <= k
    BY <1>3, <2>1, Least
  <2>3. Min(found) \in found
    <3> HIDE DEF found
    <3> QED
      BY <2>2 DEF Min
  <2>4. Chains[Min(found)] \in TestCommands
    BY <1>1, <2>3
  <2>5. TestOf(Chains[Min(found)], files) \in TestCommands
    BY <2>4 DEF TestOf, NodeOf, TestCommands
  <2>6. Profile(files) = [chain |-> Chains[Min(found)], test |-> TestOf(Chains[Min(found)], files)]
    BY <1>3 DEF Profile
  <2> QED
    BY <2>4, <2>5, <2>6
<1> QED
  BY <1>2, <1>3

LEMMA OfferedLines ==
    ASSUME held \in Seq(GitLines)
    PROVE  ToSet(held) \union {SuisLine} \subseteq GitLines /\ Offered \subseteq GitLines
<1>1. \A i \in DOMAIN held : held[i] \in GitLines
  OBVIOUS
<1> QED
  BY <1>1 DEF ToSet, Offered, GitLines

LEMMA ListedLines ==
    ASSUME NEW X, NEW s \in Seq(X)
    PROVE  ToSet(s) \subseteq X
  BY DEF ToSet

LEMMA PrefixGrows ==
    ASSUME NEW S, NEW s \in Seq(S), NEW t \in Seq(S), NEW x \in S, IsPrefix(s, t)
    PROVE  IsPrefix(s, Append(t, x))
<1>1. /\ Append(t, x) \in Seq(S) /\ Len(Append(t, x)) = Len(t) + 1
      /\ \A i \in 1 .. Len(t) : Append(t, x)[i] = t[i]
      /\ Len(s) \in Nat /\ Len(t) \in Nat /\ Len(s) <= Len(t)
  BY AppendProperties, LenProperties DEF IsPrefix
<1>2. SubSeq(Append(t, x), 1, Len(s)) = SubSeq(t, 1, Len(s))
  BY <1>1
<1> QED
  BY <1>1, <1>2 DEF IsPrefix

-----------------------------------------------------------------------------
(* The first state and the starts.                                           *)

LEMMA SetupInitSound == SetupInit => SInv
<1> SUFFICES ASSUME SetupInit PROVE SInv
  OBVIOUS
<1>1. held \in Seq(GitLines) /\ ignore = held
  BY SetupConstants DEF SetupInit
<1>2. SetupTypes
  BY <1>1 DEF SetupInit, SetupTypes, Writings
<1>3. WizardTrue /\ StoreTrue /\ SessionTrue /\ ImportsTrue
  BY DEF SetupInit, WizardTrue, StoreTrue, SessionTrue, ImportsTrue
<1>4. IsPrefix(held, ignore)
  BY <1>1 DEF IsPrefix
<1>5. writing \notin Ignoring
  BY DEF SetupInit, Ignoring
<1> QED
  BY <1>1, <1>2, <1>3, <1>4, <1>5 DEF SInv, IgnoreTrue

LEMMA StartStep == SInv /\ Start => SInv' /\ VerifyKept
<1> SUFFICES ASSUME SInv, Start PROVE SInv' /\ VerifyKept
  OBVIOUS
<1>0. writing = <<>> /\ writing \notin Configuring /\ writing \notin Ignoring
  <2>1. writing = <<>>
    BY DEF Start, SInv, SetupTypes
  <2> QED
    BY <2>1 DEF Configuring, Ignoring
<1>1. UNCHANGED <<writing, rewritten, suis, onDisk, ignore, manifests, always, held, agreed, orphaned, torn>>
  BY DEF Start
<1>2. Offered' = Offered
  BY <1>1 DEF Offered, ToSet
<1>3. IgnoreTrue'
  BY <1>1 DEF SInv, IgnoreTrue, ToSet
<1>4. Empty \in Configs /\ Empty.hidden = <<>> /\ Empty.hardened = <<>>
  BY DEF Empty, Configs, TestCommands
<1>5. CASE suis
  <2>1. phase' = "session" /\ project' = IF onDisk = NoValue THEN Empty ELSE onDisk
    BY <1>5 DEF Start
  <2>2. SetupTypes'
    BY <1>0, <1>1, <1>4, <2>1 DEF SInv, SetupTypes
  <2>3. WizardTrue' /\ StoreTrue'
    BY <1>0, <1>1, <1>5, <2>1 DEF SInv, SetupTypes, WizardTrue, StoreTrue, ToSet
  <2>4. SessionTrue'
    BY <1>0, <1>1, <1>5, <2>1 DEF SInv, SetupTypes, StoreTrue, SessionTrue, ToSet, Empty
  <2>5. ImportsTrue'
    BY <1>1, <1>2, <1>4, <2>1 DEF SInv, SetupTypes, ImportsTrue, ToSet
  <2> QED
    BY <1>1, <1>3, <2>2, <2>3, <2>4, <2>5 DEF SInv, VerifyKept
<1>6. CASE ~suis
  <2> DEFINE lines == Imported(ignore)
             listed == [i \in DOMAIN lines |->
                          [line |-> lines[i], class |-> IF lines[i] \in Locks THEN "hardened" ELSE "hidden"]]
  <2>1. phase' = "init" /\ project' = NoValue /\ init' = [step |-> "confirm", at |-> 0, entries |-> listed]
    BY <1>6 DEF Start
  <2>2. SetupTypes' /\ SessionTrue'
    BY <1>0, <1>1, <2>1 DEF SInv, SetupTypes, SessionTrue
  <2>3. StoreTrue'
    BY <1>0, <1>1, <1>6, <2>1 DEF SInv, SetupTypes, StoreTrue, ToSet
  <2>4. ImportsTrue'
    BY <1>1, <1>2, <2>1 DEF SInv, SetupTypes, ImportsTrue, ToSet
  <2>5. lines \in Seq(Offered)
    BY ImportedLines DEF SInv, SetupTypes, IgnoreTrue, Offered
  <2>6. Offered \subseteq GitLines \ Comments
    BY OfferedLines DEF SInv, SetupTypes, Offered
  <2>7. DOMAIN lines = 1 .. Len(lines) /\ Len(lines) \in Nat /\ \A i \in DOMAIN lines : lines[i] \in Offered
    BY <2>5, LenProperties
  <2> HIDE DEF lines
  <2>8. listed \in Seq([line : GitLines \ Comments, class : Classes]) /\ Len(listed) = Len(lines)
    BY <2>6, <2>7 DEF Classes
  <2>9. \A i \in DOMAIN listed : listed[i].line \in Offered
    BY <2>7
  <2>10. listed # <<>> => 0 < Len(listed)
    BY <2>8, EmptySeq
  <2> HIDE DEF listed
  <2>11. WizardTrue'
    BY <1>2, <2>1, <2>8, <2>9, <2>10 DEF WizardTrue
  <2> QED
    BY <1>1, <1>3, <2>2, <2>3, <2>4, <2>11 DEF SInv, VerifyKept
<1> QED
  BY <1>5, <1>6

-----------------------------------------------------------------------------
(* The questions.                                                            *)

\* What an answer that writes nothing leaves alone.
LEMMA AnswerKeeps ==
    ASSUME SInv, Kept, phase = "init", phase' = "init", UNCHANGED <<project, writing, rewritten, agreed>>,
           WizardTrue'
    PROVE  SInv' /\ VerifyKept
<1> USE DEF Kept
<1>1. SetupTypes' /\ SessionTrue'
  BY DEF SInv, SetupTypes, SessionTrue
<1>2. StoreTrue'
  BY DEF SInv, StoreTrue, Configuring, ToSet
<1>3. ImportsTrue' /\ IgnoreTrue'
  BY ZenonT(60) DEF SInv, ImportsTrue, IgnoreTrue, Offered, ToSet
<1> QED
  BY <1>1, <1>2, <1>3 DEF SInv, VerifyKept

LEMMA AnswerStep == SInv /\ (Confirm \/ MoveEntry \/ CycleEntry \/ ImportDone) => SInv' /\ VerifyKept
<1> SUFFICES ASSUME SInv, Confirm \/ MoveEntry \/ CycleEntry \/ ImportDone PROVE SInv' /\ VerifyKept
  OBVIOUS
<1> DEFINE L == [line : GitLines \ Comments, class : Classes]
<1>1. phase = "init" /\ phase' = "init" /\ Kept /\ UNCHANGED <<project, writing, rewritten, agreed>>
  BY DEF Confirm, MoveEntry, CycleEntry, ImportDone, Asking
<1>2. /\ init \in [step : {"confirm", "import", "git"}, at : Nat, entries : Seq(L)]
      /\ init.entries # <<>> => init.at < Len(init.entries)
      /\ init.step = "import" => init.entries # <<>>
      /\ \A i \in DOMAIN init.entries : init.entries[i].line \in Offered
  BY <1>1 DEF SInv, WizardTrue
<1>3. Offered' = Offered
  BY <1>1 DEF Kept, Offered, ToSet
<1>8. \A x \in L, c \in Classes : [x EXCEPT !.class = c] \in L /\ [x EXCEPT !.class = c].line = x.line
  OBVIOUS
<1>9. WizardTrue' <=> (phase' = "init" =>
        /\ init' \in [step : {"confirm", "import", "git"}, at : Nat, entries : Seq(L)]
        /\ init'.entries # <<>> => init'.at < Len(init'.entries)
        /\ init'.step = "import" => init'.entries # <<>>
        /\ \A i \in DOMAIN init'.entries : init'.entries[i].line \in Offered')
  BY DEF WizardTrue
<1> HIDE DEF L
<1>4. CASE Confirm
  <2>1. /\ init'.entries = init.entries /\ init'.at = init.at
        /\ init' \in [step : {"confirm", "import", "git"}, at : Nat, entries : Seq(L)]
        /\ init'.step = "import" => init.entries # <<>>
    BY <1>2, <1>4 DEF Confirm
  <2>2. WizardTrue'
    BY <1>1, <1>2, <1>3, <2>1, <1>9
  <2> QED
    BY <1>1, <2>2, AnswerKeeps
<1>5. CASE MoveEntry
  <2>1. PICK step \in {-1, 1} :
           init' = [init EXCEPT !.at = IF @ + step < 0 THEN 0
                                       ELSE IF @ + step >= Len(init.entries) THEN Len(init.entries) - 1
                                       ELSE @ + step]
    BY <1>5 DEF MoveEntry
  <2>2. init.entries # <<>> /\ init.entries \in Seq(L) /\ Len(init.entries) \in Nat \ {0} /\ init.at \in Nat
    BY <1>2, <1>5, EmptySeq, LenProperties DEF MoveEntry, Asking
  <2>3. init'.entries = init.entries /\ init'.step = init.step
    BY <1>2, <2>1
  <2>4. init'.at \in Nat /\ init'.at < Len(init.entries)
    BY <1>2, <2>1, <2>2
  <2>5. init' \in [step : {"confirm", "import", "git"}, at : Nat, entries : Seq(L)]
    BY <1>2, <2>1, <2>4
  <2>6. WizardTrue'
    BY <1>1, <1>2, <1>3, <2>3, <2>4, <2>5, <1>9
  <2> QED
    BY <1>1, <2>6, AnswerKeeps
<1>6. CASE CycleEntry
  <2> DEFINE s == init.entries
             k == init.at + 1
             t == [s EXCEPT ![k] = [s[k] EXCEPT !.class = NextClass(@)]]
  <2>1. init' = [init EXCEPT !.entries = t]
    BY <1>6 DEF CycleEntry
  <2>2. s \in Seq(L) /\ Len(s) \in Nat /\ DOMAIN s = 1 .. Len(s) /\ k \in DOMAIN s
    BY <1>2, <1>6, LenProperties DEF CycleEntry, Asking
  <2>3. s[k] \in L /\ NextClass(s[k].class) \in Classes
    <3>1. s[k] \in L
      BY <2>2
    <3>2. NextClass(s[k].class) \in Classes
      BY DEF NextClass, Classes
    <3> QED
      BY <3>1, <3>2
  <2>4. [s[k] EXCEPT !.class = NextClass(@)] \in L /\ [s[k] EXCEPT !.class = NextClass(@)].line = s[k].line
    BY <2>3, <1>8
  <2>5. t \in Seq(L) /\ Len(t) = Len(s) /\ DOMAIN t = DOMAIN s
    BY <2>2, <2>4
  <2>6. \A i \in DOMAIN s : t[i].line = s[i].line
    BY <2>2, <2>4
  <2> HIDE DEF t
  <2>7. /\ init'.entries = t /\ init'.step = init.step /\ init'.at = init.at
        /\ init' \in [step : {"confirm", "import", "git"}, at : Nat, entries : Seq(L)]
    BY <1>2, <2>1, <2>5
  <2>8. t # <<>> => s # <<>>
    BY <2>2, <2>5, EmptySeq
  <2>9. s # <<>> /\ t # <<>>
    BY <2>2, <2>5, EmptySeq
  <2>10. \A i \in DOMAIN t : t[i].line \in Offered
    BY <1>2, <2>5, <2>6
  <2>11. WizardTrue'
    BY <1>1, <1>2, <1>3, <2>5, <2>7, <2>9, <2>10, <1>9
  <2> QED
    BY <1>1, <2>11, AnswerKeeps
<1>7. CASE ImportDone
  <2> DEFINE s == init.entries
             skipped(x) == [x EXCEPT !.class = "skip"]
             t == [i \in DOMAIN s |-> skipped(s[i])]
  <2>1. init' = [init EXCEPT !.step = "git"] \/ init' = [init EXCEPT !.step = "git", !.entries = t]
    BY <1>7 DEF ImportDone
  <2>2. s \in Seq(L) /\ Len(s) \in Nat /\ DOMAIN s = 1 .. Len(s)
    BY <1>2, LenProperties
  <2>3. t \in Seq(L) /\ Len(t) = Len(s) /\ DOMAIN t = DOMAIN s /\ \A i \in DOMAIN s : t[i].line = s[i].line
    <3>1. \A x \in L : skipped(x) \in L /\ skipped(x).line = x.line
      BY <1>8 DEF Classes
    <3> HIDE DEF skipped
    <3> QED
      BY <2>2, <3>1
  <2>4. t # <<>> => s # <<>>
    BY <2>2, <2>3, EmptySeq
  <2> HIDE DEF t
  <2>5. /\ init'.entries \in {s, t} /\ init'.step = "git" /\ init'.at = init.at
        /\ init' \in [step : {"confirm", "import", "git"}, at : Nat, entries : Seq(L)]
    BY <1>2, <2>1, <2>3
  <2>6. \A i \in DOMAIN t : t[i].line \in Offered
    BY <1>2, <2>3
  <2>7. WizardTrue'
    BY <1>1, <1>2, <1>3, <2>3, <2>4, <2>5, <2>6, <1>9
  <2> QED
    BY <1>1, <2>7, AnswerKeeps
<1> QED
  BY <1>4, <1>5, <1>6, <1>7

\* The two answers that end the questions.
LEMMA DeclineSetupStep == SInv /\ DeclineSetup => SInv' /\ VerifyKept
<1> SUFFICES ASSUME SInv, DeclineSetup PROVE SInv' /\ VerifyKept
  OBVIOUS
<1>1. /\ phase = "init" /\ phase' = "session" /\ project' = Unwritten /\ agreed' = <<Unwritten>>
      /\ UNCHANGED <<writing, rewritten, suis, onDisk, ignore, held, orphaned, torn>>
  BY DEF DeclineSetup, Asking, Kept
<1>2. writing = <<>> /\ ~suis /\ onDisk = NoValue
  BY <1>1 DEF SInv, SetupTypes, StoreTrue
<1>3. /\ Unwritten \in Configs /\ Unwritten.hidden = <<>> /\ Unwritten.hardened = <<>> /\ Unwritten.tools
      /\ Unwritten.verify = NoValue
  <2>1. Empty \in Configs /\ Empty.hidden = <<>> /\ Empty.hardened = <<>> /\ Empty.verify = NoValue
    BY DEF Empty, Configs, TestCommands
  <2> QED
    BY <2>1 DEF Unwritten, Configs
<1>4. ToSet(<<>>) = {} /\ Unwritten \in ToSet(<<Unwritten>>)
  BY DEF ToSet
<1>5. SetupTypes'
  BY <1>1, <1>2, <1>3 DEF SInv, SetupTypes
<1>6. WizardTrue' /\ StoreTrue'
  BY <1>1, <1>2 DEF SInv, SetupTypes, WizardTrue, StoreTrue
<1>7. SessionTrue' /\ ImportsTrue'
  BY <1>1, <1>2, <1>3, <1>4 DEF SInv, SetupTypes, SessionTrue, ImportsTrue
<1>8. IgnoreTrue'
  BY <1>1 DEF SInv, IgnoreTrue, ToSet
<1> QED
  BY <1>1, <1>2, <1>5, <1>6, <1>7, <1>8 DEF SInv, VerifyKept

LEMMA AnswerGitStep == SInv /\ AnswerGit => SInv' /\ VerifyKept
<1> SUFFICES ASSUME SInv, AnswerGit PROVE SInv' /\ VerifyKept
  OBVIOUS
<1> DEFINE L == [line : GitLines \ Comments, class : Classes]
           all == <<"directory", "config", "permissions", "empty", "fill">>
           three == <<"directory", "config", "permissions">>
<1>1. PICK git \in BOOLEAN : project' = Chosen(git)
  BY DEF AnswerGit
<1>2. /\ phase = "init" /\ phase' = "writing" /\ agreed' = <<project'>>
      /\ rewritten' = Append(ignore, SuisLine)
      /\ writing' = IF ignore = <<SuisLine>> THEN three ELSE all
      /\ UNCHANGED <<suis, onDisk, ignore, held, orphaned, torn>>
  BY DEF AnswerGit, Asking, Kept
<1>3. writing' \in {three, all} /\ writing = <<>>
  BY <1>2 DEF SInv, SetupTypes
<1>4. ~suis /\ onDisk = NoValue
  BY <1>2 DEF SInv, StoreTrue
<1>5. init.entries \in Seq(L) /\ \A i \in DOMAIN init.entries : init.entries[i].line \in Offered
  BY <1>2 DEF SInv, WizardTrue
<1> HIDE DEF L
<1>6. LinesOf("hidden") \in Seq(Offered) /\ LinesOf("hardened") \in Seq(Offered)
  BY <1>5, LinesOfType
<1>7. /\ ToSet(held) \union {SuisLine} \subseteq GitLines /\ Offered \subseteq GitLines
      /\ held \in Seq(GitLines) /\ ignore \in Seq(GitLines) /\ SuisLine \in GitLines
  <2>1. held \in Seq(GitLines) /\ ignore \in Seq(GitLines)
    BY DEF SInv, SetupTypes
  <2> QED
    BY <2>1, OfferedLines
<1>8. LinesOf("hidden") \in Seq(GitLines) /\ LinesOf("hardened") \in Seq(GitLines)
  BY <1>6, <1>7
<1>9. Profile(manifests) \in [chain : TestCommands, test : TestCommands]
  BY ProfileType
<1>10. /\ project' \in Configs /\ project'.tools
       /\ project'.hidden = LinesOf("hidden") /\ project'.hardened = LinesOf("hardened")
  BY <1>1, <1>8, <1>9 DEF Chosen, Configs
<1>11. SetupTypes'
  BY <1>2, <1>3, <1>10 DEF SInv, SetupTypes, Writings
<1>12. WizardTrue' /\ StoreTrue'
  BY <1>2, <1>4 DEF WizardTrue, StoreTrue
<1>13. project' \in ToSet(agreed')
  BY <1>2 DEF ToSet
<1>14. SessionTrue'
  BY <1>2, <1>4, <1>10, <1>13 DEF SessionTrue
<1>15. Offered' = Offered
  BY <1>2 DEF Offered, ToSet
<1>16. ImportsTrue'
  <2>1. ToSet(project'.hidden) \subseteq Offered /\ ToSet(project'.hardened) \subseteq Offered
    BY <1>6, <1>10, ListedLines
  <2> QED
    BY <1>2, <1>4, <1>15, <2>1 DEF ImportsTrue
<1>17. /\ ToSet(ignore) \subseteq ToSet(held) \union {SuisLine}
       /\ torn \/ IsPrefix(held, ignore)
  <2>1. writing # <<"fill">>
    BY <1>3
  <2> QED
    BY <2>1 DEF SInv, IgnoreTrue
<1>18. /\ rewritten' \in Seq(GitLines)
       /\ ToSet(rewritten') \subseteq ToSet(held) \union {SuisLine}
       /\ torn \/ IsPrefix(held, rewritten')
  <2>1. Append(ignore, SuisLine) \in Seq(GitLines)
    BY <1>7
  <2>2. \A i \in DOMAIN Append(ignore, SuisLine) :
           Append(ignore, SuisLine)[i] = SuisLine \/ Append(ignore, SuisLine)[i] \in ToSet(ignore)
    BY <1>7 DEF ToSet
  <2>3. ToSet(Append(ignore, SuisLine)) \subseteq ToSet(ignore) \union {SuisLine}
    BY <2>2 DEF ToSet
  <2>4. torn \/ IsPrefix(held, Append(ignore, SuisLine))
    BY <1>7, <1>17, PrefixGrows
  <2> QED
    BY <1>2, <1>17, <2>1, <2>3, <2>4
<1>19. IgnoreTrue'
  BY <1>2, <1>17, <1>18 DEF IgnoreTrue, ToSet
<1> QED
  BY <1>2, <1>4, <1>11, <1>12, <1>14, <1>16, <1>19 DEF SInv, VerifyKept

-----------------------------------------------------------------------------
(* The writes.                                                               *)

LEMMA WriteStep == SInv /\ Write => SInv' /\ VerifyKept
<1> SUFFICES ASSUME SInv, Write PROVE SInv' /\ VerifyKept
  OBVIOUS
<1> DEFINE step == Head(writing)
<1>1. /\ writing # <<>> /\ Written(step) /\ writing' = Tail(writing)
      /\ phase' = IF Len(writing) = 1 THEN "session" ELSE phase
      /\ orphaned' = (orphaned /\ ~(step = "config" /\ project.tools))
      /\ rewritten' = IF Len(writing) = 1 THEN <<>> ELSE rewritten
      /\ UNCHANGED <<init, project, held, agreed, torn>>
  BY DEF Write
<1>2. writing \in Writings /\ phase \in {"session", "writing"}
  BY <1>1 DEF SInv, SetupTypes
<1>3. /\ step \in {"directory", "config", "permissions", "empty", "fill"}
      /\ Tail(writing) \in Writings
      /\ Len(writing) = 1 <=> Tail(writing) = <<>>
      /\ writing = <<"fill">> <=> step = "fill"
      /\ step = "fill" => Tail(writing) = <<>>
      /\ step = "empty" => Tail(writing) = <<"fill">> /\ writing \in Ignoring
      /\ Tail(writing) = <<"fill">> => step = "empty"
      /\ step = "directory" => Tail(writing) # <<>> /\ Head(Tail(writing)) = "config"
      /\ writing \in Configuring <=> step \in {"directory", "config"}
      /\ Tail(writing) \in Configuring => step = "directory"
      /\ Tail(writing) \in Ignoring => writing \in Ignoring
  BY <1>1, <1>2, WritesInOrder
<1>4. /\ step = "directory" => suis' = TRUE /\ UNCHANGED <<onDisk, ignore>>
      /\ step = "config" => onDisk' = project /\ UNCHANGED <<suis, ignore>>
      /\ step = "permissions" => UNCHANGED <<suis, onDisk, ignore>>
      /\ step = "empty" => ignore' = <<>> /\ UNCHANGED <<suis, onDisk>>
      /\ step = "fill" => ignore' = rewritten /\ UNCHANGED <<suis, onDisk>>
  BY <1>1, <1>3 DEF Written
<1> HIDE DEF step
<1>5. project \in Configs /\ project # NoValue
  BY <1>2, SetupConstants DEF SInv, SetupTypes
<1>6. phase' \in {"session", "writing"} /\ phase' # "init"
  BY <1>1, <1>2
<1>7. writing \in Ignoring => rewritten \in Seq(GitLines)
  BY DEF SInv, IgnoreTrue
<1>8. <<"fill">> \in Ignoring
  BY DEF Ignoring
<1>9. ignore' \in Seq(GitLines)
  <2>1. <<>> \in Seq(GitLines) /\ ignore \in Seq(GitLines)
    BY DEF SInv, SetupTypes
  <2> QED
    BY <1>3, <1>4, <1>7, <1>8, <2>1
<1>10. SetupTypes'
  BY <1>1, <1>2, <1>3, <1>4, <1>5, <1>6, <1>9 DEF SInv, SetupTypes
<1>11. WizardTrue'
  BY <1>6 DEF WizardTrue
<1>12. project \in ToSet(agreed) /\ (~orphaned => project.tools)
  BY <1>1, <1>2 DEF SInv, SessionTrue
<1>13. StoreTrue'
  <2>1. /\ ~suis => onDisk = NoValue /\ step = "directory"
        /\ suis /\ onDisk = NoValue /\ ~orphaned => step = "config"
        /\ onDisk # NoValue /\ ~orphaned => onDisk.tools
        /\ writing \notin Configuring /\ suis /\ ~orphaned => onDisk \in ToSet(agreed)
    BY <1>1 DEF SInv, StoreTrue, step
  <2>2. agreed' = agreed /\ ToSet(agreed') = ToSet(agreed)
    BY <1>1
  <2>3. (~suis' => onDisk' = NoValue) /\ (~suis' /\ writing' # <<>> => Head(writing') = "directory")
    BY <1>1, <1>3, <1>4, <2>1
  <2>4. suis' /\ onDisk' = NoValue /\ ~orphaned' => writing' # <<>> /\ Head(writing') = "config"
    BY <1>1, <1>3, <1>4, <1>5, <2>1
  <2>5. onDisk' # NoValue /\ ~orphaned' => onDisk'.tools
    BY <1>1, <1>3, <1>4, <1>12, <2>1
  <2>6. writing' \notin Configuring /\ suis' /\ ~orphaned' => onDisk' \in ToSet(agreed')
    <3>1. CASE step = "config"
      BY <1>4, <1>12, <2>2, <3>1
    <3>2. CASE step = "directory"
      BY <1>1, <1>2, <1>3, <3>2 DEF Configuring
    <3>3. CASE step \notin {"config", "directory"}
      BY <1>1, <1>3, <1>4, <2>1, <2>2, <3>3
    <3> QED
      BY <3>1, <3>2, <3>3
  <2> QED
    BY <1>6, <2>3, <2>4, <2>5, <2>6 DEF StoreTrue
<1>14. SessionTrue'
  <2>1. onDisk # NoValue /\ onDisk.verify # NoValue => project.verify = onDisk.verify
    BY <1>2 DEF SInv, SessionTrue
  <2>2. onDisk' # NoValue /\ onDisk'.verify # NoValue => project.verify = onDisk'.verify
    BY <1>3, <1>4, <2>1
  <2>3. ToSet(agreed') = ToSet(agreed) /\ project' = project
    BY <1>1
  <2>4. ~orphaned' => project.tools
    BY <1>1, <1>12
  <2> QED
    BY <1>12, <2>2, <2>3, <2>4 DEF SessionTrue
<1>15. Offered' = Offered
  BY <1>1 DEF Offered, ToSet
<1>16. ImportsTrue'
  <2>1. /\ ToSet(project.hidden) \union ToSet(project.hardened) \subseteq Offered
        /\ onDisk # NoValue => ToSet(onDisk.hidden) \union ToSet(onDisk.hardened) \subseteq Offered
    BY <1>2 DEF SInv, ImportsTrue
  <2>2. project' = project /\ onDisk' \in {onDisk, project}
    BY <1>1, <1>3, <1>4
  <2> QED
    BY <1>15, <2>1, <2>2 DEF ImportsTrue
<1>17. IgnoreTrue'
  <2> DEFINE Held(lines) == ToSet(lines) \subseteq ToSet(held) \union {SuisLine}
  <2>1. /\ Held(ignore) /\ (torn \/ writing = <<"fill">> \/ IsPrefix(held, ignore))
        /\ writing \in Ignoring =>
              rewritten \in Seq(GitLines) /\ Held(rewritten) /\ (torn \/ IsPrefix(held, rewritten))
    BY DEF SInv, IgnoreTrue
  <2>2. Held(<<>>)
    BY DEF ToSet
  <2>3. held' = held /\ torn' = torn /\ ToSet(held') = ToSet(held)
    BY <1>1
  <2>4. CASE step = "fill"
    <3>1. ignore' = rewritten /\ writing \in Ignoring /\ writing' = <<>>
      BY <1>1, <1>3, <1>4, <1>8, <2>4
    <3>2. writing' \notin Ignoring
      BY <3>1 DEF Ignoring
    <3> QED
      BY <2>1, <2>3, <3>1, <3>2 DEF IgnoreTrue
  <2>5. CASE step = "empty"
    <3>1. /\ ignore' = <<>> /\ writing' = <<"fill">> /\ writing \in Ignoring /\ writing' # <<>>
          /\ rewritten' = rewritten
      BY <1>1, <1>3, <1>4, <2>5
    <3> QED
      BY <2>1, <2>2, <2>3, <3>1 DEF IgnoreTrue
  <2>6. CASE step \notin {"fill", "empty"}
    <3>1. ignore' = ignore /\ writing # <<"fill">>
      BY <1>3, <1>4, <2>6
    <3>2. writing' \in Ignoring => writing \in Ignoring /\ rewritten' = rewritten
      <4>1. writing' \in Ignoring => writing' # <<>>
        BY DEF Ignoring
      <4> QED
        BY <1>1, <1>3, <4>1
    <3> QED
      BY <2>1, <2>3, <3>1, <3>2 DEF IgnoreTrue
  <2> QED
    BY <2>4, <2>5, <2>6
<1>18. VerifyKept
  <2>1. onDisk # NoValue /\ onDisk.verify # NoValue => project.verify = onDisk.verify
    BY <1>2 DEF SInv, SessionTrue
  <2>2. onDisk' \in {onDisk, project}
    BY <1>3, <1>4
  <2> QED
    BY <2>1, <2>2 DEF VerifyKept
<1> QED
  BY <1>10, <1>11, <1>13, <1>14, <1>16, <1>17, <1>18 DEF SInv

LEMMA BreakStep == SInv /\ (WriteFails \/ Crash) => SInv' /\ VerifyKept
<1> SUFFICES ASSUME SInv, WriteFails \/ Crash PROVE SInv' /\ VerifyKept
  OBVIOUS
<1>1. /\ writing # <<>> /\ writing' = <<>> /\ agreed' = <<project, onDisk>>
      /\ orphaned' = (orphaned \/ (suis /\ onDisk = NoValue))
      /\ torn' = (torn \/ Head(writing) = "fill")
      /\ \/ phase' = "session" /\ project' = project
         \/ phase' = "off" /\ project' = NoValue
      /\ UNCHANGED <<init, suis, onDisk, ignore, held>>
  BY DEF WriteFails, Crash, BreakOff
<1>2. writing \in Writings /\ phase \in {"session", "writing"}
  BY <1>1 DEF SInv, SetupTypes
<1>3. ToSet(agreed') = {project, onDisk}
  BY <1>1 DEF ToSet
<1>4. writing' \in Writings /\ writing' \notin Ignoring /\ writing' \notin Configuring /\ writing' # <<"fill">>
  BY <1>1 DEF Writings, Ignoring, Configuring
<1>5. SetupTypes'
  <2>1. orphaned' \in BOOLEAN /\ torn' \in BOOLEAN
    BY <1>1 DEF SInv, SetupTypes
  <2> QED
    BY <1>1, <1>2, <1>4, <2>1 DEF SInv, SetupTypes
<1>6. WizardTrue' /\ StoreTrue'
  BY <1>1, <1>3 DEF SInv, WizardTrue, StoreTrue
<1>7. SessionTrue'
  BY <1>1, <1>2, <1>3 DEF SInv, SessionTrue
<1>8. ImportsTrue'
  BY <1>1, <1>2 DEF SInv, ImportsTrue, Offered, ToSet
<1>9. IgnoreTrue'
  <2>1. /\ ToSet(ignore) \subseteq ToSet(held) \union {SuisLine}
        /\ torn \/ writing = <<"fill">> \/ IsPrefix(held, ignore)
    BY DEF SInv, IgnoreTrue
  <2>2. writing = <<"fill">> => torn'
    <3>1. writing = <<"fill">> => Head(writing) = "fill"
      OBVIOUS
    <3>2. torn' \in BOOLEAN
      BY <1>5 DEF SetupTypes
    <3> QED
      BY <1>1, <3>1, <3>2
  <2>3. ToSet(ignore') = ToSet(ignore) /\ ToSet(held') = ToSet(held)
    BY <1>1
  <2> QED
    BY <1>1, <1>4, <2>1, <2>2, <2>3 DEF IgnoreTrue
<1> QED
  BY <1>1, <1>5, <1>6, <1>7, <1>8, <1>9 DEF SInv, VerifyKept

-----------------------------------------------------------------------------
(* The session and the user.                                                 *)

LEMMA ExitStep == SInv /\ Exit => SInv' /\ VerifyKept
<1> SUFFICES ASSUME SInv, Exit PROVE SInv' /\ VerifyKept
  OBVIOUS
<1>1. /\ writing = <<>> /\ phase' = "off" /\ project' = NoValue
      /\ UNCHANGED <<writing, rewritten, agreed, suis, onDisk, ignore, held, orphaned, torn>>
  BY DEF Exit, Kept
<1>2. ToSet(agreed') = ToSet(agreed) /\ Offered' = Offered /\ ToSet(ignore') = ToSet(ignore)
      /\ ToSet(held') = ToSet(held)
  BY <1>1 DEF Offered, ToSet
<1>3. SetupTypes' /\ WizardTrue' /\ StoreTrue' /\ SessionTrue' /\ ImportsTrue'
  BY <1>1, <1>2 DEF SInv, SetupTypes, WizardTrue, StoreTrue, SessionTrue, ImportsTrue
<1>4. writing \notin Ignoring
  BY <1>1 DEF Ignoring
<1>5. IgnoreTrue'
  BY <1>1, <1>2, <1>4 DEF SInv, IgnoreTrue
<1> QED
  BY <1>1, <1>3, <1>5 DEF SInv, VerifyKept

LEMMA RefreshStep == SInv /\ RefreshProfile => SInv' /\ VerifyKept
<1> SUFFICES ASSUME SInv, RefreshProfile PROVE SInv' /\ VerifyKept
  OBVIOUS
<1>1. /\ phase = "session" /\ writing = <<>> /\ phase' = "session"
      /\ project' = Refreshed(project) /\ agreed' = <<project'>>
      /\ writing' = <<"directory", "config">>
      /\ UNCHANGED <<rewritten, suis, onDisk, ignore, held, orphaned, torn>>
  BY DEF RefreshProfile, InSession, Kept
<1>2. project \in Configs
  BY <1>1 DEF SInv, SetupTypes
<1>3. Profile(manifests) \in [chain : TestCommands, test : TestCommands]
  BY ProfileType
<1>4. /\ project' \in Configs /\ project'.tools = project.tools
      /\ project'.hidden = project.hidden /\ project'.hardened = project.hardened
      /\ project.verify # NoValue => project'.verify = project.verify
  <2> DEFINE found == Profile(manifests)
  <2>1. project' = [project EXCEPT !.verify = IF @ = NoValue THEN found.test ELSE @, !.profile = found]
    BY <1>1 DEF Refreshed
  <2>2. found \in [chain : TestCommands, test : TestCommands] /\ found.test \in TestCommands
    BY <1>3
  <2> HIDE DEF found
  <2> QED
    BY <1>2, <2>1, <2>2 DEF Configs
<1>5. /\ writing' \in Writings /\ writing' \notin Ignoring /\ writing' # <<"fill">> /\ writing' # <<>>
      /\ Head(writing') = "directory" /\ writing' \in Configuring
  BY <1>1 DEF Writings, Ignoring, Configuring
<1>6. SetupTypes' /\ WizardTrue'
  BY <1>1, <1>4, <1>5 DEF SInv, SetupTypes, WizardTrue
<1>7. StoreTrue'
  <2>1. writing \notin Configuring
    BY <1>1 DEF Configuring
  <2>2. suis /\ onDisk = NoValue => orphaned
    BY <1>1 DEF SInv, StoreTrue
  <2> QED
    BY <1>1, <1>5, <2>2 DEF SInv, StoreTrue
<1>8. SessionTrue'
  <2>1. project' \in ToSet(agreed')
    BY <1>1 DEF ToSet
  <2>2. /\ ~orphaned => project.tools
        /\ onDisk # NoValue /\ onDisk.verify # NoValue => project.verify = onDisk.verify
    BY <1>1 DEF SInv, SessionTrue
  <2>3. onDisk # NoValue /\ onDisk.verify # NoValue => project'.verify = onDisk.verify
    BY <1>4, <2>2
  <2> QED
    BY <1>1, <1>4, <2>1, <2>2, <2>3 DEF SessionTrue
<1>9. Offered' = Offered /\ ToSet(ignore') = ToSet(ignore) /\ ToSet(held') = ToSet(held)
  BY <1>1 DEF Offered, ToSet
<1>10. ImportsTrue'
  BY <1>1, <1>4, <1>9 DEF SInv, ImportsTrue
<1>11. IgnoreTrue'
  <2>1. writing # <<"fill">>
    BY <1>1
  <2> QED
    BY <1>1, <1>5, <1>9, <2>1 DEF SInv, IgnoreTrue
<1> QED
  BY <1>1, <1>6, <1>7, <1>8, <1>10, <1>11 DEF SInv, VerifyKept

LEMMA StoreOtherStep == SInv /\ StoreOther => SInv' /\ VerifyKept
<1> SUFFICES ASSUME SInv, StoreOther PROVE SInv' /\ VerifyKept
  OBVIOUS
<1>1. /\ phase = "session" /\ writing = <<>> /\ suis' = TRUE /\ orphaned' = (orphaned \/ onDisk = NoValue)
      /\ UNCHANGED <<phase, project, writing, rewritten, onDisk, ignore, held, agreed, torn>>
  BY DEF StoreOther, InSession
<1>2. ToSet(agreed') = ToSet(agreed) /\ Offered' = Offered /\ ToSet(ignore') = ToSet(ignore)
      /\ ToSet(held') = ToSet(held)
  BY <1>1 DEF Offered, ToSet
<1>3. SetupTypes'
  <2>1. orphaned' \in BOOLEAN
    BY <1>1 DEF SInv, SetupTypes
  <2> QED
    BY <1>1, <2>1 DEF SInv, SetupTypes
<1>4. StoreTrue'
  <2>1. writing \notin Configuring
    BY <1>1 DEF Configuring
  <2> QED
    BY <1>1, <1>2, <2>1 DEF SInv, StoreTrue
<1>5. WizardTrue' /\ SessionTrue' /\ ImportsTrue'
  BY <1>1, <1>2 DEF SInv, WizardTrue, SessionTrue, ImportsTrue
<1>6. IgnoreTrue'
  BY <1>1, <1>2 DEF SInv, IgnoreTrue
<1> QED
  BY <1>1, <1>3, <1>4, <1>5, <1>6 DEF SInv, VerifyKept

LEMMA EditWorkspaceStep == SInv /\ EditWorkspace => SInv' /\ VerifyKept
<1> SUFFICES ASSUME SInv, EditWorkspace PROVE SInv' /\ VerifyKept
  OBVIOUS
<1>1. /\ phase = "off"
      /\ UNCHANGED <<phase, init, project, writing, rewritten, ignore, held, torn>>
      /\ \/ UNCHANGED <<suis, onDisk, agreed, orphaned>>
         \/ suis' = FALSE /\ onDisk' = NoValue /\ agreed' = <<>> /\ orphaned' = FALSE
  BY DEF EditWorkspace
<1>2. writing = <<>>
  BY <1>1 DEF SInv, SetupTypes
<1>3. Offered' = Offered /\ ToSet(ignore') = ToSet(ignore) /\ ToSet(held') = ToSet(held)
  BY <1>1 DEF Offered, ToSet
<1>4. SetupTypes' /\ WizardTrue' /\ SessionTrue'
  BY <1>1, <1>2 DEF SInv, SetupTypes, WizardTrue, SessionTrue
<1>5. StoreTrue'
  BY <1>1, <1>2 DEF SInv, StoreTrue, ToSet
<1>6. ImportsTrue' /\ IgnoreTrue'
  BY <1>1, <1>3 DEF SInv, ImportsTrue, IgnoreTrue
<1>7. VerifyKept
  BY <1>1 DEF VerifyKept
<1> QED
  BY <1>4, <1>5, <1>6, <1>7 DEF SInv

-----------------------------------------------------------------------------
(* Every step.                                                               *)

LEMMA SetupStep == SInv /\ [SetupNext]_setupVars => SInv' /\ VerifyKept
<1> SUFFICES ASSUME SInv, [SetupNext]_setupVars PROVE SInv' /\ VerifyKept
  OBVIOUS
<1>1. CASE UNCHANGED setupVars
  <2>1. UNCHANGED <<phase, init, project, writing, rewritten, suis, onDisk, ignore, held, agreed, orphaned, torn>>
    BY <1>1 DEF setupVars
  <2>2. Offered' = Offered /\ ToSet(ignore') = ToSet(ignore) /\ ToSet(held') = ToSet(held)
        /\ ToSet(agreed') = ToSet(agreed) /\ ToSet(rewritten') = ToSet(rewritten)
    BY <2>1 DEF Offered, ToSet
  <2>3. SetupTypes' /\ WizardTrue' /\ StoreTrue' /\ SessionTrue'
    BY <2>1, <2>2 DEF SInv, SetupTypes, WizardTrue, StoreTrue, SessionTrue
  <2>4. ImportsTrue' /\ IgnoreTrue'
    BY <2>1, <2>2 DEF SInv, ImportsTrue, IgnoreTrue
  <2> QED
    BY <2>1, <2>3, <2>4 DEF SInv, VerifyKept
<1>2. CASE SetupNext
  BY <1>2, StartStep, AnswerStep, DeclineSetupStep, AnswerGitStep, WriteStep, BreakStep, ExitStep,
     RefreshStep, StoreOtherStep, EditWorkspaceStep DEF SetupNext
<1> QED
  BY <1>1, <1>2

\* The window is where the cursor is, as long as the list allows.
LEMMA WindowShows == SInv => WindowHolds
<1> SUFFICES ASSUME SInv, phase = "init", init.step = "import"
             PROVE  /\ init.at \in Window.start .. Window.end - 1
                    /\ Window.end - Window.start =
                          IF Len(init.entries) < IMPORT_WINDOW THEN Len(init.entries) ELSE IMPORT_WINDOW
  BY DEF WindowHolds
<1> DEFINE L == [line : GitLines \ Comments, class : Classes]
           count == Len(init.entries)
           cursor == init.at
           half == IMPORT_WINDOW \div 2
           least(a, b) == IF a < b THEN a ELSE b
           before == cursor - least(cursor, half)
           start == least(before, count - least(count, IMPORT_WINDOW))
           end == least(start + IMPORT_WINDOW, count)
<1>1. init.entries \in Seq(L) /\ cursor \in Nat /\ cursor < count
  BY DEF SInv, WizardTrue
<1>2. count \in Nat /\ IMPORT_WINDOW \in Nat \ {0}
  BY <1>1, SetupConstants, LenProperties
<1>3. half \in Nat /\ half < IMPORT_WINDOW
  BY <1>2
<1>4. Window.start = start /\ Window.end = end
  BY DEF Window
<1> HIDE DEF half, count, cursor
<1>5. /\ start \in Nat /\ end \in Nat /\ start <= cursor /\ cursor < end
      /\ end - start = IF count < IMPORT_WINDOW THEN count ELSE IMPORT_WINDOW
  <2>1. before \in Nat /\ before <= cursor /\ cursor - before <= half
    BY <1>1, <1>3
  <2> HIDE DEF before
  <2>2. CASE count < IMPORT_WINDOW
    BY <1>1, <1>2, <2>1, <2>2
  <2>3. CASE ~(count < IMPORT_WINDOW)
    BY <1>1, <1>2, <1>3, <2>1, <2>3
  <2> QED
    BY <2>2, <2>3
<1> HIDE DEF start, end
<1>6. cursor \in start .. end - 1
  BY <1>1, <1>5
<1> QED
  BY <1>4, <1>5, <1>6 DEF count, cursor

\* What is asked, written and read stays together in every state, whichever writes
\* fail, whenever the program ends.
THEOREM SetupSound == SetupSpec => []SInv
<1> QED
  BY SetupInitSound, SetupStep, PTL DEF SetupSpec

\* For any .gitignore, manifests and faults: every session has what the user last agreed
\* to, nothing is protected unasked, .gitignore keeps its lines, the verify command
\* stays, and the import's window shows the highlighted entry.
THEOREM SetupIsTrue == SetupSpec => SetupTrue
<1>1. SInv => ConfigKept
  <2>1. writing = <<"fill">> => writing # <<>> /\ Head(writing) = "fill"
    OBVIOUS
  <2> QED
    BY <2>1 DEF SInv, ConfigKept, SessionTrue, ImportsTrue, IgnoreTrue
<1>2. SInv /\ [SetupNext]_setupVars => [VerifyKept]_setupVars
  BY SetupStep
<1> QED
  BY <1>1, <1>2, WindowShows, SetupSound, PTL DEF SetupSpec, SetupTrue

-----------------------------------------------------------------------------
(* Choosers: the invariant.                                                  *)

PickGroups == [id : ListedIds, status : {"checking", "online", "offline"}, models : Seq(Served), expanded : BOOLEAN]
BodyRows(listed) == [kind : {"header", "model"}, group : DOMAIN listed, model : Nat]
AddRow == [kind |-> "add", group |-> 0, model |-> 0]

PickerTypes ==
    /\ groups \in Seq(PickGroups)
    /\ at \in Nat /\ shrunk \in BOOLEAN /\ overlapped \in BOOLEAN
    /\ target \in ListedIds \union {Nobody}
    /\ removing \in ListedIds \union {Nobody}

\* The test shown is the target's, unless two ran at once.
TestsTrue ==
    ~overlapped =>
        /\ \A id, other \in tests : id = other
        /\ target # Nobody => tests \subseteq {target}
        /\ target # Nobody /\ test \notin {"idle", "testing"} => test = target

CursorTrue == at < Len(PickRows) \/ shrunk

PlansTrue ==
    /\ plans \in PlanStores
    /\ planAt \in 0 .. Len(plans) - 1
    /\ drilled = Nobody => stepAt = 0 /\ ~told
    /\ drilled # Nobody => drilled \in DOMAIN plans /\ stepAt \in 0 .. Len(plans[drilled])

\* One overlay is open at a time, and revoking asks about a row there is.
RightsTrue ==
    /\ rights \in [Sources -> [commands : Seq(Rights), tools : Seq(Rights)]]
    /\ adding \in Patterns \union {"blank", Nobody}
    /\ rightAt \in Nat
    /\ IF RightRows = <<>> THEN rightAt = 0 ELSE rightAt < Len(RightRows)
    /\ revoking # Nobody => RightRows # <<>> /\ adding = Nobody
    /\ revoking # Nobody /\ ~wheeled => RightRows[rightAt + 1] = revoking

ChInv ==
    /\ PickerTypes /\ TestsTrue /\ CursorTrue
    /\ PlansTrue /\ PlanRowsTrue
    /\ RightsTrue

-----------------------------------------------------------------------------
(* The rows of the picker.                                                   *)

LEMMA FoundType == ASSUME NEW group \in PickGroups, NEW filtered PROVE Found(group, filtered) \in Seq(Nat)
<1> DEFINE ms == group.models
           pieces == [i \in DOMAIN ms |-> IF filtered = <<>> \/ Has(ms[i], filtered) THEN <<i>> ELSE <<>>]
<1>1. ms \in Seq(Served) /\ DOMAIN ms = 1 .. Len(ms) /\ Len(ms) \in Nat
  BY LenProperties DEF PickGroups
<1>2. \A i \in Nat : <<i>> \in Seq(Nat)
  OBVIOUS
<1>3. <<>> \in Seq(Nat)
  OBVIOUS
<1>4. \A i \in 1 .. Len(ms) : pieces[i] \in Seq(Nat)
  BY <1>1, <1>2, <1>3
<1>5. pieces \in Seq(Seq(Nat))
  BY <1>1, <1>4
<1> QED
  BY <1>3, <1>5, FlattenAppend DEF Found

\* The rows of one group.
Piece(listed, filtered, g) ==
    LET found == Found(listed[g], filtered)
    IN  IF filtered # <<>> /\ found = <<>> THEN <<>>
        ELSE <<[kind |-> "header", group |-> g, model |-> 0]>> \o
             (IF filtered # <<>> \/ listed[g].expanded
              THEN [k \in DOMAIN found |-> [kind |-> "model", group |-> g, model |-> found[k]]]
              ELSE <<>>)
Pieces(listed, filtered) == [g \in DOMAIN listed |-> Piece(listed, filtered, g)]

LEMMA RowsByPiece ==
    \A listed, filtered : RowsOver(listed, filtered) = FlattenSeq(Pieces(listed, filtered)) \o <<AddRow>>
  BY DEF RowsOver, Pieces, Piece, AddRow

LEMMA PieceType ==
    ASSUME NEW listed \in Seq(PickGroups), NEW filtered, NEW g \in DOMAIN listed
    PROVE  Piece(listed, filtered, g) \in Seq(BodyRows(listed))
<1> DEFINE found == Found(listed[g], filtered)
           header == [kind |-> "header", group |-> g, model |-> 0]
           models == [k \in DOMAIN found |-> [kind |-> "model", group |-> g, model |-> found[k]]]
<1>1. found \in Seq(Nat)
  BY FoundType
<1>2. header \in BodyRows(listed)
  BY DEF BodyRows
<1>3. \A n \in Nat : [kind |-> "model", group |-> g, model |-> n] \in BodyRows(listed)
  BY DEF BodyRows
<1>4. models \in Seq(BodyRows(listed))
  <2> HIDE DEF found
  <2>1. DOMAIN found = 1 .. Len(found) /\ Len(found) \in Nat /\ \A k \in DOMAIN found : found[k] \in Nat
    BY <1>1, LenProperties
  <2> QED
    BY <1>3, <2>1
<1> HIDE DEF header, models
<1>5. <<header>> \o models \in Seq(BodyRows(listed)) /\ <<header>> \o <<>> \in Seq(BodyRows(listed))
  BY <1>2, <1>4
<1>6. Piece(listed, filtered, g) \in {<<>>, <<header>> \o models, <<header>> \o <<>>}
  BY DEF Piece, header, models
<1>7. <<>> \in Seq(BodyRows(listed))
  OBVIOUS
<1> QED
  BY <1>5, <1>6, <1>7

LEMMA RowsType ==
    ASSUME NEW listed \in Seq(PickGroups), NEW filtered
    PROVE  LET drawn == RowsOver(listed, filtered)
           IN  /\ Len(drawn) \in Nat \ {0} /\ DOMAIN drawn = 1 .. Len(drawn)
               /\ \A i \in 1 .. Len(drawn) - 1 : drawn[i] \in BodyRows(listed)
               /\ drawn[Len(drawn)] = AddRow
<1> DEFINE body == FlattenSeq(Pieces(listed, filtered))
           drawn == RowsOver(listed, filtered)
<1>1. Pieces(listed, filtered) \in Seq(Seq(BodyRows(listed)))
  <2>1. DOMAIN listed = 1 .. Len(listed) /\ Len(listed) \in Nat
    BY LenProperties
  <2>2. \A g \in DOMAIN listed : Piece(listed, filtered, g) \in Seq(BodyRows(listed))
    BY PieceType
  <2> QED
    BY <2>1, <2>2 DEF Pieces
<1>2. body \in Seq(BodyRows(listed))
  <2>1. <<>> \in Seq(BodyRows(listed))
    OBVIOUS
  <2> QED
    BY <1>1, <2>1, FlattenAppend
<1>3. drawn = body \o <<AddRow>>
  BY RowsByPiece
<1> HIDE DEF body, drawn
<1> DEFINE AnyRow == BodyRows(listed) \union {AddRow}
<1>4. body \in Seq(AnyRow) /\ <<AddRow>> \in Seq(AnyRow) /\ Len(<<AddRow>>) = 1 /\ <<AddRow>>[1] = AddRow
  BY <1>2
<1> HIDE DEF AnyRow
<1>5. /\ drawn \in Seq(AnyRow) /\ Len(drawn) = Len(body) + 1 /\ Len(body) \in Nat
      /\ \A i \in 1 .. Len(body) : drawn[i] = body[i]
      /\ drawn[Len(body) + 1] = AddRow
  BY <1>3, <1>4, ConcatProperties, LenProperties
<1>6. \A i \in 1 .. Len(body) : body[i] \in BodyRows(listed)
  BY <1>2
<1>7. DOMAIN drawn = 1 .. Len(drawn)
  BY <1>5, LenProperties
<1> QED
  BY <1>5, <1>6, <1>7 DEF drawn

\* A probe's status and an answer to a key that opens nothing leave the rows.
LEMMA RowsUnmoved ==
    ASSUME NEW listed, NEW later, NEW filtered, DOMAIN later = DOMAIN listed,
           \A g \in DOMAIN listed : later[g].models = listed[g].models /\ later[g].expanded = listed[g].expanded
    PROVE  RowsOver(later, filtered) = RowsOver(listed, filtered)
<1>1. \A g \in DOMAIN listed : Found(later[g], filtered) = Found(listed[g], filtered)
  BY DEF Found
<1>2. \A g \in DOMAIN listed : Piece(later, filtered, g) = Piece(listed, filtered, g)
  BY <1>1 DEF Piece
<1>3. Pieces(later, filtered) = Pieces(listed, filtered)
  BY <1>2 DEF Pieces
<1> QED
  BY <1>3, RowsByPiece

\* The first row of some kind, counted from 0.
LEMMA FirstOf ==
    ASSUME NEW n \in Nat \ {0}, NEW T, T \subseteq 1 .. n, T # {}
    PROVE  (CHOOSE i \in T : \A j \in T : i <= j) - 1 \in 0 .. n - 1
<1> DEFINE first == CHOOSE i \in T : \A j \in T : i <= j
<1>1. \E i \in T : \A j \in T : i <= j
  BY Least
<1>2. first \in T
  BY <1>1
<1> HIDE DEF first
<1>3. first - 1 \in 0 .. n - 1
  BY <1>2
<1> QED
  BY <1>3 DEF first

LEMMA FirstModelIsRow ==
    ASSUME NEW listed \in Seq(PickGroups), NEW filtered
    PROVE  FirstModel(RowsOver(listed, filtered)) \in 0 .. Len(RowsOver(listed, filtered)) - 1
<1> DEFINE drawn == RowsOver(listed, filtered)
           T == {i \in DOMAIN drawn : drawn[i].kind = "model"}
<1>1. Len(drawn) \in Nat \ {0} /\ DOMAIN drawn = 1 .. Len(drawn)
  BY RowsType
<1> HIDE DEF drawn
<1>2. T # {} => (CHOOSE i \in T : \A j \in T : i <= j) - 1 \in 0 .. Len(drawn) - 1
  BY <1>1, FirstOf
<1>3. FirstModel(drawn) = IF T = {} THEN 0 ELSE (CHOOSE i \in T : \A j \in T : i <= j) - 1
  BY DEF FirstModel
<1> QED
  BY <1>1, <1>2, <1>3 DEF drawn

LEMMA CursorMoves ==
    ASSUME NEW cursor \in Nat, NEW count \in Nat \ {0}
    PROVE  /\ Moved(cursor, count) \subseteq 0 .. count - 1
           /\ Clamped(cursor, count) \in 0 .. count - 1
<1>1. \A n \in Int : n % count \in 0 .. count - 1
  OBVIOUS
<1> QED
  BY <1>1 DEF Moved, Clamped

-----------------------------------------------------------------------------
(* The picker, step by step.                                                 *)

PickInv == PickerTypes /\ TestsTrue /\ CursorTrue

LEMMA PickRowsType ==
    ASSUME PickerTypes
    PROVE  /\ Len(PickRows) \in Nat \ {0} /\ DOMAIN PickRows = 1 .. Len(PickRows)
           /\ \A i \in 1 .. Len(PickRows) - 1 : PickRows[i] \in BodyRows(groups)
           /\ PickRows[Len(PickRows)] = AddRow
  BY RowsType DEF PickerTypes, PickRows

\* A header is the header of a group.
LEMMA HeaderIs ==
    ASSUME PickerTypes, OnHeader
    PROVE  at < Len(PickRows) /\ HeaderGroup \in DOMAIN groups /\ HeaderId \in ListedIds
<1>1. at < Len(PickRows) /\ PickRows[at + 1].kind = "header"
  BY DEF OnHeader
<1>2. at + 1 \in 1 .. Len(PickRows) - 1
  <2>1. at + 1 # Len(PickRows)
    BY <1>1, PickRowsType DEF AddRow
  <2> QED
    BY <1>1, <2>1, PickRowsType DEF PickerTypes
<1>3. PickRows[at + 1] \in BodyRows(groups)
  BY <1>2, PickRowsType
<1>4. HeaderGroup \in DOMAIN groups
  BY <1>3 DEF HeaderGroup, BodyRows
<1>5. groups[HeaderGroup] \in PickGroups
  BY <1>4 DEF PickerTypes
<1>6. groups[HeaderGroup].id \in ListedIds
  BY <1>5 DEF PickGroups
<1> QED
  BY <1>1, <1>4, <1>6 DEF HeaderId

LEMMA ResolvedType ==
    ASSUME NEW group \in PickGroups, NEW status \in {"online", "offline"}
    PROVE  Resolved(group, status) \in PickGroups
<1>1. Serves[group.id] \in Seq(Served) /\ <<>> \in Seq(Served)
  BY ListedAssumption DEF PickGroups
<1> HIDE DEF Served
<1>2. status \in {"checking", "online", "offline"}
  OBVIOUS
<1> QED
  BY <1>1, <1>2 DEF Resolved, PickGroups

LEMMA ListedType ==
    /\ DOMAIN Listed = 1 .. Len(Listed) /\ Len(Listed) \in Nat
    /\ \A i \in DOMAIN Listed : Listed[i] \in ListedIds /\ Checked(Listed[i]) \in PickGroups
<1>1. \A id \in ListedIds : Checked(id) \in PickGroups
  BY DEF Checked, PickGroups
<1>2. \A i \in DOMAIN Listed : Listed[i] \in ListedIds
  BY DEF ListedIds, ToSet
<1>3. DOMAIN Listed = 1 .. Len(Listed) /\ Len(Listed) \in Nat
  BY ListedAssumption, LenProperties
<1> QED
  BY <1>1, <1>2, <1>3

LEMMA PickerInitSound == PickerInit => PickInv
<1> SUFFICES ASSUME PickerInit PROVE PickInv
  OBVIOUS
<1>1. groups \in Seq(PickGroups)
  <2>1. \A i \in DOMAIN Listed :
           [Checked(Listed[i]) EXCEPT !.expanded = (Listed[i] = preferred)] \in PickGroups
    <3>1. \A i \in DOMAIN Listed, b \in BOOLEAN : [Checked(Listed[i]) EXCEPT !.expanded = b] \in PickGroups
      BY ListedType DEF PickGroups
    <3>2. \A i \in DOMAIN Listed : (Listed[i] = preferred) \in BOOLEAN
      OBVIOUS
    <3> QED
      BY <3>1, <3>2
  <2>2. groups = [i \in DOMAIN Listed |-> [Checked(Listed[i]) EXCEPT !.expanded = (Listed[i] = preferred)]]
    BY DEF PickerInit
  <2> QED
    BY <2>1, <2>2, ListedType
<1>2. PickerTypes /\ TestsTrue
  BY <1>1 DEF PickerInit, PickerTypes, TestsTrue
<1>3. CursorTrue
  BY <1>2, PickRowsType DEF PickerInit, CursorTrue
<1> QED
  BY <1>2, <1>3 DEF PickInv

\* The cursor of a step that may leave other rows.
LEMMA CursorHolds ==
    ASSUME groups' \in Seq(PickGroups),
           at' \in 0 .. Len(RowsOver(groups', needle')) - 1
    PROVE  at' \in Nat /\ CursorTrue'
  BY RowsType DEF CursorTrue, PickRows

\* focus_provider leaves the cursor where it was or on a row.
LEMMA FocusedRow ==
    ASSUME groups' \in Seq(PickGroups), NEW cursor \in Nat
    PROVE  /\ Len(RowsOver(groups', <<>>)) \in Nat \ {0}
           /\ Focused(cursor) = cursor \/ Focused(cursor) \in 0 .. Len(RowsOver(groups', <<>>)) - 1
<1> DEFINE drawn == RowsOver(groups', <<>>)
           T == {i \in DOMAIN drawn : drawn[i].kind = "model" /\ groups'[drawn[i].group].id = preferred}
<1>1. Len(drawn) \in Nat \ {0} /\ DOMAIN drawn = 1 .. Len(drawn)
  BY RowsType
<1>2. Focused(cursor) = IF T = {} THEN cursor ELSE (CHOOSE i \in T : \A j \in T : i <= j) - 1
  BY DEF Focused
<1> HIDE DEF drawn
<1>3. T # {} => (CHOOSE i \in T : \A j \in T : i <= j) - 1 \in 0 .. Len(drawn) - 1
  BY <1>1, FirstOf
<1> QED
  BY <1>1, <1>2, <1>3 DEF drawn

LEMMA OutcomeStep == PickInv /\ Outcome => PickInv'
<1> SUFFICES ASSUME PickInv, Outcome PROVE PickInv'
  OBVIOUS
<1>1. PICK g \in DOMAIN groups, status \in {"online", "offline"} :
         LET resolved == Resolved(groups[g], status)
         IN  IF status = "online" /\ resolved.id = preferred /\ needle = <<>>
             THEN groups' = [groups EXCEPT ![g] = [resolved EXCEPT !.expanded = TRUE]] /\ at' = Focused(at)
             ELSE groups' = [groups EXCEPT ![g] = resolved] /\ at' = at
  BY DEF Outcome
<1> DEFINE resolved == Resolved(groups[g], status)
<1>2. groups \in Seq(PickGroups) /\ groups[g] \in PickGroups /\ at \in Nat
  BY DEF PickInv, PickerTypes
<1>3. resolved \in PickGroups
  BY <1>2, ResolvedType
<1> HIDE DEF resolved
<1>4. [resolved EXCEPT !.expanded = TRUE] \in PickGroups
  BY <1>3 DEF PickGroups
<1>5. groups' \in Seq(PickGroups)
  <2> DEFINE unfolded == [resolved EXCEPT !.expanded = TRUE]
  <2>1. groups' = [groups EXCEPT ![g] = unfolded] \/ groups' = [groups EXCEPT ![g] = resolved]
    BY <1>1 DEF resolved
  <2>2. unfolded \in PickGroups
    BY <1>4
  <2> HIDE DEF unfolded
  <2>3. CASE groups' = [groups EXCEPT ![g] = unfolded]
    BY <1>2, <2>2, <2>3
  <2>4. CASE groups' = [groups EXCEPT ![g] = resolved]
    BY <1>2, <1>3, <2>4
  <2> QED
    BY <2>1, <2>3, <2>4
<1>6. at' \in Nat
  <2>1. at' = at \/ at' = Focused(at)
    BY <1>1
  <2> QED
    BY <1>2, <1>5, <2>1, FocusedRow
<1>7. /\ shrunk' = (at' >= Len(PickRows'))
      /\ UNCHANGED <<needle, removing, test, target, tests, overlapped>>
  BY DEF Outcome, TestKept, PickRows
<1>8. PickerTypes'
  <2>1. shrunk' \in BOOLEAN
    BY <1>7
  <2> QED
    BY <1>5, <1>6, <1>7, <2>1 DEF PickInv, PickerTypes
<1>9. Len(PickRows') \in Nat
  BY <1>5, RowsType DEF PickRows
<1>10. CursorTrue'
  <2>1. CASE at' >= Len(PickRows')
    BY <1>7, <2>1 DEF CursorTrue
  <2>2. CASE ~(at' >= Len(PickRows'))
    BY <1>6, <1>7, <1>9, <2>2 DEF CursorTrue, PickInv, PickerTypes
  <2> QED
    BY <2>1, <2>2
<1>11. TestsTrue'
  BY <1>7 DEF PickInv, TestsTrue
<1> QED
  BY <1>8, <1>10, <1>11 DEF PickInv

LEMMA RebuiltStep == PickInv /\ Rebuilt => PickInv'
<1> SUFFICES ASSUME PickInv, Rebuilt PROVE PickInv'
  OBVIOUS
<1>1. PICK status \in [DOMAIN Listed -> {"online", "offline"}] :
         /\ groups' = [i \in DOMAIN Listed |->
                LET group == Resolved(Checked(Listed[i]), status[i])
                IN  [group EXCEPT !.expanded = group.id = preferred]]
         /\ at' = Focused(0)
  BY DEF Rebuilt
<1>2. /\ needle' = <<>> /\ test' = "idle" /\ target' = Nobody /\ shrunk' = FALSE
      /\ UNCHANGED <<removing, tests, overlapped>>
  BY DEF Rebuilt
<1>3. \A i \in DOMAIN Listed :
         LET group == Resolved(Checked(Listed[i]), status[i])
         IN  [group EXCEPT !.expanded = group.id = preferred] \in PickGroups
  <2> SUFFICES ASSUME NEW i \in DOMAIN Listed
               PROVE  LET group == Resolved(Checked(Listed[i]), status[i])
                      IN  [group EXCEPT !.expanded = group.id = preferred] \in PickGroups
    OBVIOUS
  <2> DEFINE group == Resolved(Checked(Listed[i]), status[i])
  <2>1. group \in PickGroups
    BY ListedType, ResolvedType
  <2>2. (group.id = preferred) \in BOOLEAN
    OBVIOUS
  <2> HIDE DEF group
  <2>3. \A b \in BOOLEAN : [group EXCEPT !.expanded = b] \in PickGroups
    BY <2>1 DEF PickGroups
  <2> QED
    BY <2>2, <2>3 DEF group
<1>4. groups' \in Seq(PickGroups)
  BY <1>1, <1>3, ListedType
<1>5. at' \in 0 .. Len(RowsOver(groups', <<>>)) - 1
  BY <1>1, <1>4, FocusedRow
<1>6. at' \in Nat /\ CursorTrue'
  BY <1>2, <1>4, <1>5, CursorHolds
<1>7. PickerTypes'
  BY <1>2, <1>4, <1>6 DEF PickInv, PickerTypes
<1>8. TestsTrue'
  BY <1>2 DEF PickInv, TestsTrue
<1> QED
  BY <1>6, <1>7, <1>8 DEF PickInv

LEMMA MoveStep == PickInv /\ (MoveRow \/ FilterEdit \/ ClearFilter) => PickInv'
<1> SUFFICES ASSUME PickInv, MoveRow \/ FilterEdit \/ ClearFilter PROVE PickInv'
  OBVIOUS
<1>1. shrunk' = FALSE /\ UNCHANGED <<groups, removing, test, target, tests, overlapped>>
  BY DEF MoveRow, FilterEdit, ClearFilter, TestKept
<1>2. groups \in Seq(PickGroups) /\ at \in Nat
  BY DEF PickInv, PickerTypes
<1>3. at' \in 0 .. Len(RowsOver(groups', needle')) - 1
  <2>1. CASE MoveRow
    <3>1. at' \in Moved(at, Len(PickRows)) /\ needle' = needle
      BY <2>1 DEF MoveRow
    <3>2. Len(PickRows) \in Nat \ {0}
      BY PickRowsType DEF PickInv
    <3>3. at' \in 0 .. Len(PickRows) - 1
      BY <1>2, <3>1, <3>2, CursorMoves
    <3> QED
      BY <1>1, <3>1, <3>3 DEF PickRows
  <2>2. CASE FilterEdit
    <3>1. at' = FirstModel(RowsOver(groups, needle'))
      BY <2>2 DEF FilterEdit
    <3> QED
      BY <1>1, <1>2, <3>1, FirstModelIsRow
  <2>3. CASE ClearFilter
    <3>1. at' = 0
      BY <2>3 DEF ClearFilter
    <3>2. Len(RowsOver(groups, needle')) \in Nat \ {0}
      BY <1>2, RowsType
    <3> QED
      BY <1>1, <3>1, <3>2
  <2> QED
    BY <2>1, <2>2, <2>3
<1>4. at' \in Nat /\ CursorTrue'
  BY <1>1, <1>2, <1>3, CursorHolds
<1>5. PickerTypes' /\ TestsTrue'
  BY <1>1, <1>4 DEF PickInv, PickerTypes, TestsTrue
<1> QED
  BY <1>4, <1>5 DEF PickInv

LEMMA GroupStep == PickInv /\ (ToggleGroup \/ RetryGroup) => PickInv'
<1> SUFFICES ASSUME PickInv, ToggleGroup \/ RetryGroup PROVE PickInv'
  OBVIOUS
<1>1. OnHeader /\ UNCHANGED <<needle, removing, shrunk, test, target, tests, overlapped>>
  BY DEF ToggleGroup, RetryGroup, TestKept
<1>2. /\ groups \in Seq(PickGroups) /\ at \in Nat /\ at < Len(PickRows)
      /\ HeaderGroup \in DOMAIN groups /\ groups[HeaderGroup] \in PickGroups
  BY <1>1, HeaderIs DEF PickInv, PickerTypes
<1>3. groups' \in Seq(PickGroups) /\ at' \in 0 .. Len(RowsOver(groups', needle')) - 1
  <2>1. CASE ToggleGroup
    <3>1. /\ groups' = [groups EXCEPT ![HeaderGroup].expanded = ~@]
          /\ at' = Clamped(at, Len(RowsOver(groups', needle)))
      BY <2>1 DEF ToggleGroup
    <3>2. [groups[HeaderGroup] EXCEPT !.expanded = ~@] \in PickGroups
      BY <1>2 DEF PickGroups
    <3>3. groups' = [groups EXCEPT ![HeaderGroup] = [groups[HeaderGroup] EXCEPT !.expanded = ~@]]
      BY <3>1
    <3>4. groups' \in Seq(PickGroups)
      BY <1>2, <3>2, <3>3
    <3>5. Len(RowsOver(groups', needle)) \in Nat \ {0}
      BY <3>4, RowsType
    <3> QED
      BY <1>1, <1>2, <3>1, <3>4, <3>5, CursorMoves
  <2>2. CASE RetryGroup
    <3> DEFINE asked == [groups[HeaderGroup] EXCEPT !.status = "checking"]
    <3>1. groups' = [groups EXCEPT ![HeaderGroup] = asked] /\ at' = at
      BY <2>2 DEF RetryGroup
    <3>2. /\ asked \in PickGroups
          /\ asked.models = groups[HeaderGroup].models /\ asked.expanded = groups[HeaderGroup].expanded
      BY <1>2 DEF PickGroups
    <3> HIDE DEF asked
    <3>3. groups' \in Seq(PickGroups)
      BY <1>2, <3>1, <3>2
    <3>4. /\ DOMAIN groups' = DOMAIN groups
          /\ \A g \in DOMAIN groups :
                groups'[g].models = groups[g].models /\ groups'[g].expanded = groups[g].expanded
      BY <1>2, <3>1, <3>2
    <3>5. RowsOver(groups', needle) = PickRows
      BY <3>4, RowsUnmoved DEF PickRows
    <3>6. Len(PickRows) \in Nat \ {0}
      BY PickRowsType DEF PickInv
    <3> QED
      BY <1>1, <1>2, <3>1, <3>3, <3>5, <3>6
  <2> QED
    BY <2>1, <2>2
<1>4. at' \in Nat /\ CursorTrue'
  BY <1>3, CursorHolds
<1>5. PickerTypes' /\ TestsTrue'
  BY <1>1, <1>3, <1>4 DEF PickInv, PickerTypes, TestsTrue
<1> QED
  BY <1>4, <1>5 DEF PickInv

\* The connection test.
LEMMA TestStep == PickInv /\ (StartTest \/ TestLands \/ AskRemoval) => PickInv'
<1> SUFFICES ASSUME PickInv, StartTest \/ TestLands \/ AskRemoval PROVE PickInv'
  OBVIOUS
<1>1. UNCHANGED <<groups, at, needle, shrunk>>
  BY DEF StartTest, TestLands, AskRemoval
<1>2. CursorTrue'
  BY <1>1 DEF PickInv, CursorTrue, PickRows
<1>3. CASE StartTest
  <2>1. /\ OnHeader /\ target' = HeaderId /\ test' = "testing" /\ tests' = tests \union {HeaderId}
        /\ overlapped' = (overlapped \/ tests # {}) /\ removing' = removing
    BY <1>3 DEF StartTest
  <2>2. HeaderId \in ListedIds
    BY <2>1, HeaderIs DEF PickInv
  <2>3. overlapped' \in BOOLEAN /\ (~overlapped' => tests = {})
    BY <2>1
  <2>4. PickerTypes'
    BY <1>1, <2>1, <2>2, <2>3 DEF PickInv, PickerTypes
  <2>5. TestsTrue'
    BY <2>1, <2>3 DEF TestsTrue
  <2> QED
    BY <1>2, <2>4, <2>5 DEF PickInv
<1>4. CASE TestLands
  <2>1. PICK id \in tests : tests' = tests \ {id} /\ test' = id
    BY <1>4 DEF TestLands
  <2>2. UNCHANGED <<removing, target, overlapped>>
    BY <1>4 DEF TestLands
  <2>3. PickerTypes' /\ TestsTrue'
    BY <1>1, <2>1, <2>2 DEF PickInv, PickerTypes, TestsTrue
  <2> QED
    BY <1>2, <2>3 DEF PickInv
<1>5. CASE AskRemoval
  <2>1. OnHeader /\ removing' = HeaderId /\ UNCHANGED <<test, target, tests, overlapped>>
    BY <1>5 DEF AskRemoval, TestKept
  <2>2. HeaderId \in ListedIds
    BY <2>1, HeaderIs DEF PickInv
  <2>3. PickerTypes' /\ TestsTrue'
    BY <1>1, <2>1, <2>2 DEF PickInv, PickerTypes, TestsTrue
  <2> QED
    BY <1>2, <2>3 DEF PickInv
<1> QED
  BY <1>3, <1>4, <1>5

LEMMA RemovalStep == PickInv /\ AnswerRemoval => PickInv'
<1> SUFFICES ASSUME PickInv, AnswerRemoval PROVE PickInv'
  OBVIOUS
<1>1. removing' = Nobody /\ UNCHANGED <<needle, tests, overlapped>>
  BY DEF AnswerRemoval
<1>2. CASE UNCHANGED <<groups, at, test, target, shrunk>>
  BY <1>1, <1>2 DEF PickInv, PickerTypes, TestsTrue, CursorTrue, PickRows
<1>3. CASE /\ groups' = FlattenSeq([g \in DOMAIN groups |-> IF groups[g].id = removing THEN <<>> ELSE <<groups[g]>>])
           /\ at' = Clamped(at, Len(RowsOver(groups', needle))) /\ shrunk' = FALSE
           /\ IF target = removing THEN target' = Nobody /\ test' = "idle" ELSE UNCHANGED <<target, test>>
  <2> DEFINE kept == [g \in DOMAIN groups |-> IF groups[g].id = removing THEN <<>> ELSE <<groups[g]>>]
  <2>1. groups \in Seq(PickGroups) /\ DOMAIN groups = 1 .. Len(groups) /\ Len(groups) \in Nat /\ at \in Nat
    BY LenProperties DEF PickInv, PickerTypes
  <2>2. \A x \in PickGroups : <<x>> \in Seq(PickGroups)
    OBVIOUS
  <2>3. <<>> \in Seq(PickGroups)
    OBVIOUS
  <2>4. \A g \in 1 .. Len(groups) : kept[g] \in Seq(PickGroups)
    BY <2>1, <2>2, <2>3
  <2>5. kept \in Seq(Seq(PickGroups))
    BY <2>1, <2>4
  <2>6. groups' \in Seq(PickGroups)
    BY <1>3, <2>3, <2>5, FlattenAppend
  <2>7. Len(RowsOver(groups', needle)) \in Nat \ {0}
    BY <2>6, RowsType
  <2>8. at' \in 0 .. Len(RowsOver(groups', needle')) - 1
    BY <1>1, <1>3, <2>1, <2>7, CursorMoves
  <2>9. at' \in Nat /\ CursorTrue'
    BY <2>6, <2>8, CursorHolds
  <2>10. PickerTypes' /\ TestsTrue'
    BY <1>1, <1>3, <2>6, <2>9 DEF PickInv, PickerTypes, TestsTrue
  <2> QED
    BY <2>9, <2>10 DEF PickInv
<1> QED
  BY <1>2, <1>3 DEF AnswerRemoval

LEMMA PickerStep == PickInv /\ PickerNext => PickInv'
  BY OutcomeStep, RebuiltStep, MoveStep, GroupStep, TestStep, RemovalStep DEF PickerNext

-----------------------------------------------------------------------------
(* The lines of the picker.                                                  *)

LEMMA Singles ==
    ASSUME NEW m \in Nat
    PROVE  FlattenSeq([i \in 1 .. m |-> <<i>>]) = [i \in 1 .. m |-> i]
<1> DEFINE P(k) == [i \in 1 .. k |-> <<i>>]
           I(k) == [i \in 1 .. k |-> i]
           Bad == {k \in Nat : FlattenSeq(P(k)) # I(k)}
<1> SUFFICES ASSUME Bad # {} PROVE FALSE
  OBVIOUS
<1>1. PICK k \in Bad : \A j \in Bad : k <= j
  <2>1. Bad \in SUBSET Nat
    OBVIOUS
  <2> HIDE DEF Bad
  <2> QED
    BY <2>1, Least
<1>2. CASE k = 0
  <2>1. P(k) = <<>> /\ I(k) = <<>>
    BY <1>2
  <2> QED
    BY <1>1, <2>1, FlattenEmpty
<1>3. CASE k # 0
  <2>1. k - 1 \in Nat /\ k - 1 \notin Bad
    BY <1>1, <1>3
  <2>2. FlattenSeq(P(k - 1)) = I(k - 1)
    BY <2>1
  <2>3. P(k - 1) \in Seq(Seq(Nat)) /\ <<k>> \in Seq(Nat) /\ I(k - 1) \in Seq(Nat)
    <3>1. \A i \in Nat : <<i>> \in Seq(Nat)
      OBVIOUS
    <3> QED
      BY <1>1, <2>1, <3>1
  <2>4. P(k) = Append(P(k - 1), <<k>>) /\ I(k) = I(k - 1) \o <<k>>
    BY <1>1, <2>1
  <2> HIDE DEF P, I
  <2>5. FlattenSeq(P(k)) = I(k)
    BY <2>2, <2>3, <2>4, FlattenAppend
  <2> QED
    BY <1>1, <2>5
<1> QED
  BY <1>2, <1>3

\* The row on each line of n rows, the blank one above the last counted.
LinesOfRows(n) == [k \in 1 .. n + 1 |-> IF k < n THEN k ELSE IF k = n THEN 0 ELSE n]

BlankAbove(cursor, n) == IF cursor + 1 = n THEN 1 ELSE 0

LEMMA RowLines ==
    ASSUME NEW n \in Nat \ {0}, NEW drawn, DOMAIN drawn = 1 .. n,
           \A i \in 1 .. n - 1 : drawn[i].kind # "add", drawn[n].kind = "add"
    PROVE  FlattenSeq([i \in DOMAIN drawn |-> IF drawn[i].kind = "add" THEN <<0, i>> ELSE <<i>>]) =
               LinesOfRows(n)
<1> DEFINE body == [i \in 1 .. n - 1 |-> <<i>>]
           pieces == [i \in DOMAIN drawn |-> IF drawn[i].kind = "add" THEN <<0, i>> ELSE <<i>>]
           ids == [i \in 1 .. n - 1 |-> i]
<1>1. n - 1 \in Nat /\ FlattenSeq(body) = ids
  BY Singles
<1>2. body \in Seq(Seq(Nat)) /\ <<0, n>> \in Seq(Nat)
  <2>1. \A i \in Nat : <<i>> \in Seq(Nat)
    OBVIOUS
  <2> QED
    BY <1>1, <2>1
<1>3. pieces = Append(body, <<0, n>>)
  <2> DEFINE longer == Append(body, <<0, n>>)
  <2>1. longer \in Seq(Seq(Nat)) /\ Len(longer) = n /\ longer[n] = <<0, n>>
    BY <1>2
  <2>2. \A i \in 1 .. n - 1 : longer[i] = <<i>>
    BY <1>2
  <2> HIDE DEF longer
  <2>3. \A i \in 1 .. n : longer[i] = IF drawn[i].kind = "add" THEN <<0, i>> ELSE <<i>>
    <3> TAKE i \in 1 .. n
    <3>1. i = n \/ i \in 1 .. n - 1
      OBVIOUS
    <3> QED
      BY <2>1, <2>2, <3>1
  <2>4. longer = [i \in 1 .. n |-> longer[i]]
    BY <2>1
  <2>5. longer = [i \in 1 .. n |-> IF drawn[i].kind = "add" THEN <<0, i>> ELSE <<i>>]
    BY <2>3, <2>4
  <2> QED
    BY <2>5 DEF longer
<1>4. FlattenSeq(pieces) = ids \o <<0, n>>
  <2> HIDE DEF pieces, ids, body
  <2> QED
    BY <1>1, <1>2, <1>3, FlattenAppend
<1> HIDE DEF pieces
<1>5. ids \o <<0, n>> = LinesOfRows(n)
  BY <1>1 DEF LinesOfRows
<1> QED
  BY <1>4, <1>5 DEF pieces

\* A line that exists is in the window, and the window ends with the list.
LEMMA InWindow ==
    ASSUME NEW total \in Nat, NEW line \in 0 .. total - 1, NEW viewport \in Nat \ {0}
    PROVE  LET top == ScrollOffset(line, total, viewport)
           IN  /\ line \in top .. top + viewport - 1
               /\ total >= viewport => top + viewport <= total
  BY DEF ScrollOffset

LEMMA BlankLines ==
    ASSUME NEW n \in Nat \ {0}, NEW drawn,
           \A i \in 1 .. n - 1 : drawn[i].kind # "add", drawn[n].kind = "add",
           NEW cursor \in 0 .. n - 1
    PROVE  Cardinality({i \in 1 .. cursor + 1 : drawn[i].kind = "add"}) = BlankAbove(cursor, n)
<1> DEFINE S == {i \in 1 .. cursor + 1 : drawn[i].kind = "add"}
<1>1. CASE cursor + 1 = n
  <2>1. \A i : i \in S <=> i = n
    BY <1>1
  <2>2. S = {n}
    <3> HIDE DEF S
    <3> QED
      BY <2>1
  <2> QED
    BY <1>1, <2>2, FS_Singleton DEF BlankAbove
<1>2. CASE cursor + 1 # n
  <2>1. S = {}
    BY <1>2
  <2> QED
    BY <1>2, <2>1, FS_EmptySet DEF BlankAbove
<1> QED
  BY <1>1, <1>2

LEMMA Middle ==
    ASSUME NEW a \in Seq(Nat), NEW b \in Seq(Nat), NEW c \in Seq(Nat), NEW i \in 1 .. Len(b)
    PROVE  /\ Len(a \o b \o c) = Len(a) + Len(b) + Len(c)
           /\ (a \o b \o c)[Len(a) + i] = b[i]
<1>1. Len(a) \in Nat /\ Len(b) \in Nat /\ Len(c) \in Nat
  BY LenProperties
<1>2. a \o b \in Seq(Nat) /\ Len(a \o b) = Len(a) + Len(b) /\ (a \o b)[Len(a) + i] = b[i]
  BY <1>1, ConcatProperties
<1>3. Len((a \o b) \o c) = Len(a \o b) + Len(c) /\ ((a \o b) \o c)[Len(a) + i] = (a \o b)[Len(a) + i]
  BY <1>1, <1>2, ConcatProperties
<1> QED
  BY <1>2, <1>3

LEMMA LineOfRow ==
    ASSUME NEW n \in Nat \ {0}, NEW cursor \in 0 .. n - 1,
           NEW pre \in Seq(Nat), NEW post \in Seq(Nat)
    PROVE  LET lines == pre \o LinesOfRows(n) \o post
               line == cursor + BlankAbove(cursor, n) + Len(pre)
           IN  Len(lines) \in Nat /\ line \in 0 .. Len(lines) - 1 /\ lines[line + 1] = cursor + 1
<1> DEFINE on == cursor + 1 + BlankAbove(cursor, n)
           lines == pre \o LinesOfRows(n) \o post
<1>1. LinesOfRows(n) \in Seq(Nat) /\ Len(LinesOfRows(n)) = n + 1
  BY DEF LinesOfRows
<1>2. on \in 1 .. n + 1 /\ LinesOfRows(n)[on] = cursor + 1
  BY DEF LinesOfRows, BlankAbove
<1>3. Len(pre) \in Nat /\ Len(post) \in Nat
  BY LenProperties
<1> HIDE DEF on
<1>4. Len(lines) = Len(pre) + (n + 1) + Len(post) /\ lines[Len(pre) + on] = cursor + 1
  <2> DEFINE lined == LinesOfRows(n)
  <2>1. lined \in Seq(Nat) /\ Len(lined) = n + 1 /\ on \in 1 .. Len(lined) /\ lined[on] = cursor + 1
    BY <1>1, <1>2
  <2> HIDE DEF lined
  <2>2. Len(pre \o lined \o post) = Len(pre) + Len(lined) + Len(post) /\ (pre \o lined \o post)[Len(pre) + on] = lined[on]
    BY <2>1, Middle, ZenonT(60)
  <2> QED
    BY <2>1, <2>2 DEF lined
<1> HIDE DEF lines
<1>5. Len(lines) \in Nat /\ Len(pre) + on - 1 \in 0 .. Len(lines) - 1
      /\ lines[(Len(pre) + on - 1) + 1] = cursor + 1
  BY <1>2, <1>3, <1>4
<1>6. Len(pre) + on - 1 = cursor + BlankAbove(cursor, n) + Len(pre)
  BY <1>3 DEF on, BlankAbove
<1> QED
  BY <1>5, <1>6 DEF lines

LEMMA LineOfCursor ==
    ASSUME PickerTypes, at < Len(PickRows)
    PROVE  /\ Len(PickLines) \in Nat /\ SelectedLine \in 0 .. Len(PickLines) - 1
           /\ PickLines[SelectedLine + 1] = at + 1
<1>1. \A i \in 1 .. Len(PickRows) - 1 : PickRows[i].kind # "add"
  BY PickRowsType DEF BodyRows
<1>2. /\ Len(PickRows) \in Nat \ {0} /\ DOMAIN PickRows = 1 .. Len(PickRows)
      /\ at \in 0 .. Len(PickRows) - 1 /\ PickRows[Len(PickRows)].kind = "add"
  BY PickRowsType DEF PickerTypes, AddRow
<1> DEFINE pre == IF Len(PickRows) = 1 THEN <<0>> ELSE <<>>
           post == IF VisibleTest = "idle" THEN <<>> ELSE <<0, 0>>
           lined == FlattenSeq([i \in DOMAIN PickRows |-> IF PickRows[i].kind = "add" THEN <<0, i>> ELSE <<i>>])
<1>3. lined = LinesOfRows(Len(PickRows))
  BY <1>1, <1>2, RowLines
<1>4. PickLines = pre \o lined \o post
  BY DEF PickLines
<1>5. SelectedLine = at + BlankAbove(at, Len(PickRows)) + Len(pre)
  <2>1. Cardinality({i \in 1 .. at + 1 : PickRows[i].kind = "add"}) = BlankAbove(at, Len(PickRows))
    BY <1>1, <1>2, BlankLines
  <2>2. SelectedLine = at + Cardinality({i \in 1 .. at + 1 : PickRows[i].kind = "add"})
                          + (IF Len(PickRows) = 1 THEN 1 ELSE 0)
    BY DEF SelectedLine
  <2>3. Len(pre) = IF Len(PickRows) = 1 THEN 1 ELSE 0
    OBVIOUS
  <2> HIDE DEF pre
  <2> QED
    BY <2>1, <2>2, <2>3
<1>6. pre \in Seq(Nat) /\ post \in Seq(Nat)
  <2>1. <<>> \in Seq(Nat) /\ <<0>> \in Seq(Nat) /\ <<0, 0>> \in Seq(Nat)
    OBVIOUS
  <2> QED
    BY <2>1
<1> HIDE DEF pre, post, lined
<1> DEFINE line == at + BlankAbove(at, Len(PickRows)) + Len(pre)
           lines == pre \o LinesOfRows(Len(PickRows)) \o post
<1>7. Len(lines) \in Nat /\ line \in 0 .. Len(lines) - 1 /\ lines[line + 1] = at + 1
  BY <1>2, <1>6, LineOfRow, ZenonT(60)
<1> HIDE DEF line, lines
<1>8. PickLines = lines /\ SelectedLine = line
  BY <1>3, <1>4, <1>5 DEF line, lines
<1> QED
  BY <1>7, <1>8

LEMMA PickerTruth == PickInv => PickerShown
<1> SUFFICES ASSUME PickInv PROVE PickerShown
  OBVIOUS
<1>1. at < Len(PickRows) \/ shrunk
  BY DEF PickInv, CursorTrue
<1>2. at < Len(PickRows) => PickLines[SelectedLine + 1] = at + 1
  BY LineOfCursor DEF PickInv
<1>3. at < Len(PickRows) => \A viewport \in Viewports :
         LET top == ScrollOffset(SelectedLine, Len(PickLines), viewport)
         IN  /\ SelectedLine \in top .. top + viewport - 1
             /\ Len(PickLines) >= viewport => top + viewport <= Len(PickLines)
  BY LineOfCursor, InWindow, ListedAssumption DEF PickInv
<1>4. VisibleTest \notin {"idle", "testing"} /\ ~overlapped => VisibleTest = HeaderId
  BY DEF PickInv, TestsTrue, VisibleTest
<1> QED
  BY <1>1, <1>2, <1>3, <1>4 DEF PickerShown

LEMMA PickerKept == PickInv /\ UNCHANGED pickerVars => PickInv'
  BY DEF PickInv, PickerTypes, TestsTrue, CursorTrue, PickRows, pickerVars

-----------------------------------------------------------------------------
(* The plans.                                                                *)

PlanInv == PlansTrue /\ PlanRowsTrue
PlanShapes == Seq([done : Nat, total : Nat])

LEMMA PlansType ==
    ASSUME PlansTrue
    PROVE  /\ plans \in Seq(PlanShapes) /\ Len(plans) \in Nat \ {0}
           /\ DOMAIN plans = 1 .. Len(plans)
           /\ \A p \in DOMAIN plans : Len(plans[p]) \in Nat /\ DOMAIN plans[p] = 1 .. Len(plans[p])
<1>1. plans \in Seq(PlanShapes) /\ plans # <<>>
  BY ListedAssumption DEF PlansTrue, PlanShapes
<1>2. Len(plans) \in Nat \ {0} /\ DOMAIN plans = 1 .. Len(plans)
  BY <1>1, LenProperties, EmptySeq
<1>3. \A p \in DOMAIN plans : plans[p] \in PlanShapes
  BY <1>1, <1>2
<1> QED
  BY <1>1, <1>2, <1>3, LenProperties DEF PlanShapes

LEMMA PlansInitSound == PlansInit => PlanInv
<1> SUFFICES ASSUME PlansInit PROVE PlanInv
  OBVIOUS
<1>1. plans \in Seq(PlanShapes) /\ plans # <<>>
  BY ListedAssumption DEF PlansInit, PlanShapes
<1>2. Len(plans) \in Nat \ {0}
  BY <1>1, LenProperties, EmptySeq
<1>3. PlansTrue
  BY <1>2 DEF PlansInit, PlansTrue
<1>4. PlanRowsTrue
  BY <1>2 DEF PlansInit, PlanRowsTrue
<1> QED
  BY <1>3, <1>4 DEF PlanInv

\* The next step is open and the first that is; without one all are done.
LEMMA NextStepIs ==
    ASSUME NEW plan, NEW n \in Nat, DOMAIN plan = 1 .. n
    PROVE  /\ NextStep(plan) # Nobody =>
                 /\ NextStep(plan) \in DOMAIN plan /\ ~StepComplete(plan[NextStep(plan)])
                 /\ \A i \in 1 .. NextStep(plan) - 1 : StepComplete(plan[i])
           /\ NextStep(plan) = Nobody => Progress(plan) = n
<1> DEFINE open == {i \in DOMAIN plan : ~StepComplete(plan[i])}
           first == CHOOSE i \in open : \A j \in open : i <= j
<1>1. NextStep(plan) = IF open = {} THEN Nobody ELSE first
  BY DEF NextStep
<1>2. open \in SUBSET Nat
  OBVIOUS
<1>3. \A i \in 1 .. n : i \in open <=> ~StepComplete(plan[i])
  OBVIOUS
<1>4. open \subseteq 1 .. n
  OBVIOUS
<1>5. CASE open = {}
  <2>1. {i \in DOMAIN plan : StepComplete(plan[i])} = 1 .. n
    BY <1>5
  <2>2. Cardinality(1 .. n) = n
    <3>1. 1 \in Int /\ n \in Int
      OBVIOUS
    <3>2. Cardinality(1 .. n) = IF 1 > n THEN 0 ELSE n - 1 + 1
      BY <3>1, FS_Interval
    <3> QED
      BY <3>2
  <2> QED
    BY <1>1, <1>5, <2>1, <2>2 DEF Progress
<1>6. CASE open # {}
  <2> HIDE DEF open
  <2>1. \E i \in open : \A j \in open : i <= j
    BY <1>2, <1>6, Least
  <2>2. first \in open /\ \A j \in open : first <= j
    BY <2>1
  <2> HIDE DEF first
  <2>3. NextStep(plan) = first /\ first \in 1 .. n
    BY <1>1, <1>4, <1>6, <2>2
  <2>4. \A i \in 1 .. first - 1 : StepComplete(plan[i])
    <3> TAKE i \in 1 .. first - 1
    <3>1. i \in 1 .. n /\ ~(first <= i)
      BY <2>3
    <3> QED
      BY <1>3, <2>2, <3>1
  <2>5. first # Nobody
    BY <2>3, ListedAssumption
  <2> QED
    BY <1>3, <2>2, <2>3, <2>4, <2>5
<1> QED
  BY <1>5, <1>6

LEMMA PlanStep == PlanInv /\ PlansNext => PlanInv'
<1> SUFFICES ASSUME PlanInv, PlansNext PROVE PlanInv'
  OBVIOUS
<1>1. /\ plans \in Seq(PlanShapes) /\ Len(plans) \in Nat \ {0} /\ DOMAIN plans = 1 .. Len(plans)
      /\ \A p \in DOMAIN plans : Len(plans[p]) \in Nat /\ DOMAIN plans[p] = 1 .. Len(plans[p])
  BY PlansType DEF PlanInv
<1>2. /\ chosen = Nobody /\ plans \in PlanStores /\ planAt \in 0 .. Len(plans) - 1
      /\ drilled = Nobody => stepAt = 0 /\ ~told
      /\ drilled # Nobody => drilled \in DOMAIN plans /\ stepAt \in 0 .. Len(plans[drilled])
      /\ told => Progress(plans[drilled]) = Len(plans[drilled])
  BY DEF PlansNext, PlanInv, PlansTrue, PlanRowsTrue
<1>3. CASE MovePlan
  <2>1. UNCHANGED <<plans, drilled, told, chosen>>
    BY <1>3 DEF MovePlan
  <2>2. CASE drilled = Nobody
    <3>1. planAt' \in Moved(planAt, Len(plans)) /\ stepAt' = stepAt
      BY <1>3, <2>2 DEF MovePlan, ListLen
    <3>2. planAt' \in 0 .. Len(plans) - 1
      BY <1>1, <1>2, <3>1, CursorMoves
    <3> QED
      BY <1>1, <1>2, <2>1, <2>2, <3>1, <3>2 DEF PlanInv, PlansTrue, PlanRowsTrue
  <2>3. CASE drilled # Nobody
    <3>1. stepAt' \in Moved(stepAt, Len(plans[drilled]) + 1) /\ planAt' = planAt
      BY <1>3, <2>3 DEF MovePlan, ListLen
    <3>2. Len(plans[drilled]) + 1 \in Nat \ {0} /\ stepAt \in Nat
      BY <1>1, <1>2, <2>3
    <3>3. stepAt' \in 0 .. Len(plans[drilled])
      BY <3>1, <3>2, CursorMoves
    <3>4. PlansTrue'
      BY <1>1, <1>2, <2>1, <2>3, <3>1, <3>3 DEF PlansTrue
    <3>5. PlanRowsTrue'
      BY <1>1, <1>2, <2>1, <2>3, <3>1, <3>2, <3>3 DEF PlanRowsTrue, ListLen, Progress, StepComplete
    <3> QED
      BY <3>4, <3>5 DEF PlanInv
  <2> QED
    BY <2>2, <2>3
<1>4. CASE Drill
  <2>1. drilled' = planAt + 1 /\ stepAt' = 0 /\ told' = FALSE /\ UNCHANGED <<plans, planAt, chosen>>
    BY <1>4 DEF Drill
  <2>2. planAt + 1 \in DOMAIN plans /\ Len(plans[planAt + 1]) \in Nat
    BY <1>1, <1>2
  <2>3. drilled' # Nobody
    BY <2>1, <2>2, <1>1, ListedAssumption
  <2>4. PlansTrue'
    BY <1>2, <2>1, <2>2, <2>3 DEF PlansTrue
  <2>5. PlanRowsTrue'
    BY <1>1, <1>2, <2>1, <2>2, <2>3 DEF PlanRowsTrue, ListLen
  <2> QED
    BY <2>4, <2>5 DEF PlanInv
<1>5. CASE ChooseRow
  <2> DEFINE plan == plans[drilled]
  <2>1. drilled # Nobody /\ UNCHANGED <<plans, planAt, drilled, stepAt>>
    BY <1>5 DEF ChooseRow
  <2>2. Len(plan) \in Nat /\ DOMAIN plan = 1 .. Len(plan) /\ stepAt \in 0 .. Len(plan)
    BY <1>1, <1>2, <2>1
  <2>3. RowStep = IF stepAt = 0 THEN NextStep(plan) ELSE stepAt
    BY DEF RowStep
  <2>4. PlansTrue'
    BY <1>2, <2>1 DEF PlansTrue
  <2> HIDE DEF plan
  <2>5. CASE RowStep = Nobody
    <3>1. told' = TRUE /\ chosen' = chosen
      BY <1>5, <2>5 DEF ChooseRow
    <3>2. NextStep(plan) = Nobody
      BY <2>2, <2>3, <2>5, ListedAssumption
    <3>3. Progress(plan) = Len(plan)
      BY <2>2, <3>2, NextStepIs
    <3>4. Progress(plans'[drilled']) = Len(plans'[drilled'])
      BY <2>1, <3>3 DEF plan
    <3>5. chosen' = Nobody /\ planAt' < Len(plans') /\ stepAt' < ListLen' /\ drilled' # Nobody
      BY <1>1, <1>2, <2>1, <2>2, <3>1 DEF ListLen, plan
    <3>6. PlanRowsTrue'
      BY <3>4, <3>5 DEF PlanRowsTrue, Progress, StepComplete
    <3> QED
      BY <2>4, <3>6 DEF PlanInv
  <2>6. CASE RowStep # Nobody
    <3>1. told' = FALSE /\ chosen' = [plan |-> drilled, row |-> stepAt, step |-> RowStep]
      BY <1>5, <2>6 DEF ChooseRow
    <3>2. /\ RowStep \in DOMAIN plan
          /\ IF stepAt # 0 THEN RowStep = stepAt
             ELSE ~StepComplete(plan[RowStep]) /\ \A i \in 1 .. RowStep - 1 : StepComplete(plan[i])
      <4>1. CASE stepAt = 0
        BY <2>2, <2>3, <2>6, <4>1, NextStepIs
      <4>2. CASE stepAt # 0
        BY <2>2, <2>3, <4>2
      <4> QED
        BY <4>1, <4>2
    <3>3. /\ chosen'.plan = drilled /\ chosen'.row = stepAt /\ chosen'.step = RowStep
          /\ plans'[chosen'.plan] = plan
      BY <2>1, <3>1 DEF plan
    <3>4. planAt' < Len(plans') /\ stepAt' < ListLen' /\ ListLen' = Len(plan) + 1
      BY <1>1, <1>2, <2>1, <2>2 DEF ListLen, plan
    <3> HIDE <3>1
    <3>5. ~told'
      BY <3>1
    <3>6. PlanRowsTrue'
      BY <2>1, <3>2, <3>3, <3>4, <3>5 DEF PlanRowsTrue, StepComplete
    <3> QED
      BY <2>4, <3>6 DEF PlanInv
  <2> QED
    BY <2>5, <2>6
<1>6. CASE BackUp
  <2>1. drilled' = Nobody /\ stepAt' = 0 /\ told' = FALSE /\ UNCHANGED <<plans, planAt, chosen>>
    BY <1>6 DEF BackUp
  <2> QED
    BY <1>1, <1>2, <2>1 DEF PlanInv, PlansTrue, PlanRowsTrue
<1> QED
  BY <1>3, <1>4, <1>5, <1>6 DEF PlansNext

LEMMA PlansKept == PlanInv /\ UNCHANGED planVars => PlanInv'
  BY DEF PlanInv, PlansTrue, PlanRowsTrue, ListLen, Progress, StepComplete, planVars

-----------------------------------------------------------------------------
(* The stored permissions: their rows, and a sequence without one entry.     *)

Stores == [Sources -> [commands : Seq(Rights), tools : Seq(Rights)]]
RightKinds == {"commands", "tools"}
RightRowSet == [source : Sources, kind : RightKinds, right : Rights]
RowFor(source, kind, right) == [source |-> source, kind |-> kind, right |-> right]
Rowed(entries, source, kind) == [i \in DOMAIN entries |-> RowFor(source, kind, entries[i])]
RowsIn(store) ==
    Rowed(store["global"]["commands"], "global", "commands") \o Rowed(store["global"]["tools"], "global", "tools")
        \o Rowed(store["project"]["commands"], "project", "commands") \o Rowed(store["project"]["tools"], "project", "tools")

LEMMA RightRowsAre == RightRows = RowsIn(rights)
  BY DEF RightRows, RowsIn, Rowed, RowFor

LEMMA StoreType ==
    ASSUME NEW store \in Stores, NEW source \in Sources, NEW kind \in RightKinds
    PROVE  store[source][kind] \in Seq(Rights)
  BY DEF Stores, RightKinds

LEMMA RowedType ==
    ASSUME NEW entries \in Seq(Rights), NEW source \in Sources, NEW kind \in RightKinds
    PROVE  /\ Rowed(entries, source, kind) \in Seq(RightRowSet)
           /\ Len(Rowed(entries, source, kind)) = Len(entries) /\ Len(entries) \in Nat
           /\ \A i \in 1 .. Len(entries) : Rowed(entries, source, kind)[i] = RowFor(source, kind, entries[i])
<1>1. Len(entries) \in Nat /\ DOMAIN entries = 1 .. Len(entries)
  BY LenProperties
<1>2. \A right \in Rights : RowFor(source, kind, right) \in RightRowSet
  BY DEF RowFor, RightRowSet
<1>3. \A i \in 1 .. Len(entries) : RowFor(source, kind, entries[i]) \in RightRowSet
  BY <1>1, <1>2, ElementOfSeq
<1> QED
  BY <1>1, <1>3 DEF Rowed

LEMMA RowedConcat ==
    ASSUME NEW x \in Seq(Rights), NEW y \in Seq(Rights), NEW source \in Sources, NEW kind \in RightKinds
    PROVE  Rowed(x \o y, source, kind) = Rowed(x, source, kind) \o Rowed(y, source, kind)
<1> DEFINE s == Rowed(x \o y, source, kind)
           t == Rowed(x, source, kind) \o Rowed(y, source, kind)
<1>1. /\ x \o y \in Seq(Rights) /\ Len(x \o y) = Len(x) + Len(y)
      /\ \A i \in 1 .. Len(x) + Len(y) : (x \o y)[i] = IF i <= Len(x) THEN x[i] ELSE y[i - Len(x)]
  BY ConcatProperties
<1>2. /\ s \in Seq(RightRowSet) /\ Len(s) = Len(x) + Len(y)
      /\ \A i \in 1 .. Len(x) + Len(y) : s[i] = RowFor(source, kind, (x \o y)[i])
  BY <1>1, RowedType
<1>3. /\ Rowed(x, source, kind) \in Seq(RightRowSet) /\ Rowed(y, source, kind) \in Seq(RightRowSet)
      /\ Len(Rowed(x, source, kind)) = Len(x) /\ Len(Rowed(y, source, kind)) = Len(y)
      /\ Len(x) \in Nat /\ Len(y) \in Nat
      /\ \A i \in 1 .. Len(x) : Rowed(x, source, kind)[i] = RowFor(source, kind, x[i])
      /\ \A i \in 1 .. Len(y) : Rowed(y, source, kind)[i] = RowFor(source, kind, y[i])
  BY RowedType
<1>4. /\ t \in Seq(RightRowSet) /\ Len(t) = Len(x) + Len(y)
      /\ \A i \in 1 .. Len(x) + Len(y) :
            t[i] = IF i <= Len(x) THEN Rowed(x, source, kind)[i] ELSE Rowed(y, source, kind)[i - Len(x)]
  <2> DEFINE p == Rowed(x, source, kind)
             q == Rowed(y, source, kind)
  <2> HIDE DEF p, q
  <2>1. p \in Seq(RightRowSet) /\ q \in Seq(RightRowSet) /\ Len(p) = Len(x) /\ Len(q) = Len(y)
    BY <1>3 DEF p, q
  <2>2. /\ p \o q \in Seq(RightRowSet) /\ Len(p \o q) = Len(p) + Len(q)
        /\ \A i \in 1 .. Len(p) + Len(q) : (p \o q)[i] = IF i <= Len(p) THEN p[i] ELSE q[i - Len(p)]
    BY <2>1, ConcatProperties
  <2> QED
    BY <2>1, <2>2 DEF p, q
<1> HIDE DEF s, t
<1>5. \A i \in 1 .. Len(s) : s[i] = t[i]
  <2> TAKE i \in 1 .. Len(s)
  <2>1. CASE i <= Len(x)
    BY <1>1, <1>2, <1>3, <1>4, <2>1
  <2>2. CASE ~(i <= Len(x))
    <3>1. i - Len(x) \in 1 .. Len(y) /\ i \in 1 .. Len(x) + Len(y)
      BY <1>2, <1>3, <2>2
    <3> QED
      BY <1>1, <1>2, <1>3, <1>4, <2>2, <3>1
  <2> QED
    BY <2>1, <2>2
<1>6. s = t
  BY <1>2, <1>4, <1>5, SeqEqual
<1> QED
  BY <1>6 DEF s, t

LEMMA RowedOne ==
    ASSUME NEW right \in Rights, NEW source \in Sources, NEW kind \in RightKinds
    PROVE  Rowed(<<right>>, source, kind) = <<RowFor(source, kind, right)>>
  BY DEF Rowed

\* Every row is of an entry of the store it names.
LEMMA RowIsStored ==
    ASSUME NEW store \in Stores
    PROVE  /\ RowsIn(store) \in Seq(RightRowSet)
           /\ \A i \in 1 .. Len(RowsIn(store)) :
                 LET row == RowsIn(store)[i]
                 IN  row \in RightRowSet /\ \E j \in DOMAIN store[row.source][row.kind] : store[row.source][row.kind][j] = row.right
<1> DEFINE H == {row \in RightRowSet :
                    \E j \in DOMAIN store[row.source][row.kind] : store[row.source][row.kind][j] = row.right}
<1>1. \A source \in Sources, kind \in RightKinds : Rowed(store[source][kind], source, kind) \in Seq(H)
  <2> SUFFICES ASSUME NEW source \in Sources, NEW kind \in RightKinds
               PROVE  Rowed(store[source][kind], source, kind) \in Seq(H)
    OBVIOUS
  <2> DEFINE entries == store[source][kind]
  <2>1. entries \in Seq(Rights)
    BY StoreType
  <2>2. Len(entries) \in Nat /\ DOMAIN entries = 1 .. Len(entries)
    BY <2>1, LenProperties
  <2>3. \A i \in 1 .. Len(entries) : RowFor(source, kind, entries[i]) \in H
    <3> TAKE i \in 1 .. Len(entries)
    <3> DEFINE row == RowFor(source, kind, entries[i])
    <3>1. entries[i] \in Rights
      BY <2>1, ElementOfSeq
    <3>2. row \in RightRowSet /\ row.source = source /\ row.kind = kind /\ row.right = entries[i]
      BY <3>1 DEF RowFor, RightRowSet
    <3>3. store[row.source][row.kind] = entries
      BY <3>2
    <3> HIDE DEF row
    <3> QED
      BY <2>2, <3>2, <3>3 DEF row
  <2> HIDE DEF entries, H
  <2>4. Rowed(entries, source, kind) = [i \in 1 .. Len(entries) |-> RowFor(source, kind, entries[i])]
    BY <2>2 DEF Rowed
  <2> QED
    BY <2>2, <2>3, <2>4 DEF entries
<1> HIDE DEF H
<1>2. RowsIn(store) \in Seq(H)
  <2>1. /\ Rowed(store["global"]["commands"], "global", "commands") \in Seq(H)
        /\ Rowed(store["global"]["tools"], "global", "tools") \in Seq(H)
        /\ Rowed(store["project"]["commands"], "project", "commands") \in Seq(H)
        /\ Rowed(store["project"]["tools"], "project", "tools") \in Seq(H)
    BY <1>1 DEF Sources, RightKinds
  <2> QED
    BY <2>1, ConcatProperties DEF RowsIn
<1>3. H \subseteq RightRowSet
  BY DEF H
<1>4. RowsIn(store) \in Seq(RightRowSet)
  BY <1>2, <1>3, SeqMonotonic
<1>5. \A i \in 1 .. Len(RowsIn(store)) : RowsIn(store)[i] \in H
  BY <1>2, ElementOfSeq
<1> QED
  BY <1>4, <1>5 DEF H

\* Rows are joined in any grouping.
LEMMA RowsAssociate ==
    \A x, y, z \in Seq(RightRowSet) : (x \o y) \o z = x \o (y \o z)
<1> SUFFICES ASSUME NEW x \in Seq(RightRowSet), NEW y \in Seq(RightRowSet), NEW z \in Seq(RightRowSet)
             PROVE  (x \o y) \o z = x \o (y \o z)
  OBVIOUS
<1> DEFINE R == RightRowSet
<1>1. x \in Seq(R) /\ y \in Seq(R) /\ z \in Seq(R)
  OBVIOUS
<1> HIDE DEF R
<1> QED
  BY <1>1, ConcatAssociative

\* t is s without one e.
Lacks(t, s, e) == \E u, v \in Seq(RightRowSet) : s = u \o <<e>> \o v /\ t = u \o v

LEMMA LacksAround ==
    ASSUME NEW e \in RightRowSet, NEW s, NEW t, Lacks(t, s, e), NEW a \in Seq(RightRowSet)
    PROVE  Lacks(a \o t, a \o s, e) /\ Lacks(t \o a, s \o a, e)
<1>1. PICK u, v \in Seq(RightRowSet) : s = u \o <<e>> \o v /\ t = u \o v
  BY DEF Lacks
<1>2. <<e>> \in Seq(RightRowSet)
  OBVIOUS
<1> DEFINE one == <<e>>
<1> HIDE DEF one
<1>3. one \in Seq(RightRowSet)
  BY <1>2 DEF one
<1>4. /\ a \o u \in Seq(RightRowSet) /\ v \o a \in Seq(RightRowSet) /\ u \o one \in Seq(RightRowSet)
  BY <1>3, ConcatProperties
<1>0. \A x, y, z \in Seq(RightRowSet) : (x \o y) \o z = x \o (y \o z)
  BY RowsAssociate
<1>5. a \o (u \o v) = (a \o u) \o v /\ (u \o v) \o a = u \o (v \o a)
  BY <1>0
<1>6. a \o ((u \o one) \o v) = ((a \o u) \o one) \o v
  <2>1. a \o ((u \o one) \o v) = (a \o (u \o one)) \o v
    BY <1>0, <1>4, SMTT(60)
  <2>2. a \o (u \o one) = (a \o u) \o one
    BY <1>0, <1>3, ZenonT(60)
  <2> QED
    BY <2>1, <2>2
<1>7. ((u \o one) \o v) \o a = (u \o one) \o (v \o a)
  BY <1>0, <1>4, SMTT(60)
<1>8. a \o t = (a \o u) \o v /\ a \o s = (a \o u) \o <<e>> \o v
  BY <1>1, <1>5, <1>6 DEF one
<1>9. t \o a = u \o (v \o a) /\ s \o a = u \o <<e>> \o (v \o a)
  BY <1>1, <1>5, <1>7 DEF one
<1> QED
  BY <1>4, <1>8, <1>9 DEF Lacks

LEMMA PrefixSuffix ==
    ASSUME NEW S, NEW u \in Seq(S), NEW v \in Seq(S)
    PROVE  SubSeq(u \o v, 1, Len(u)) = u /\ SubSeq(u \o v, Len(u) + 1, Len(u) + Len(v)) = v
<1>1. /\ u \o v \in Seq(S) /\ Len(u) \in Nat /\ Len(v) \in Nat /\ Len(u \o v) = Len(u) + Len(v)
      /\ \A i \in 1 .. Len(u) + Len(v) : (u \o v)[i] = IF i <= Len(u) THEN u[i] ELSE v[i - Len(u)]
  BY ConcatProperties, LenProperties
<1> DEFINE w == u \o v
           l == SubSeq(w, 1, Len(u))
           r == SubSeq(w, Len(u) + 1, Len(u) + Len(v))
<1>2. w \in Seq(S) /\ Len(w) = Len(u) + Len(v) /\ \A i \in 1 .. Len(u) + Len(v) : w[i] \in S
  BY <1>1, ElementOfSeq
<1> HIDE DEF w
<1>3. l \in Seq(S) /\ Len(l) = Len(u) /\ \A i \in 1 .. Len(u) : l[i] = w[i]
  <2>1. \A i \in 1 .. Len(u) : w[i] \in S
    BY <1>1, <1>2
  <2>2. 1 \in Int /\ Len(u) \in Int
    BY <1>1
  <2>3. l \in Seq(S) /\ Len(l) = IF 1 <= Len(u) THEN Len(u) - 1 + 1 ELSE 0
    BY <2>1, <2>2, SubSeqProperties
  <2>4. \A i \in 1 .. Len(u) - 1 + 1 : l[i] = w[1 + i - 1]
    BY <2>1, <2>2, SubSeqProperties
  <2> HIDE DEF l
  <2> QED
    BY <1>1, <2>3, <2>4
<1>4. r \in Seq(S) /\ Len(r) = Len(v) /\ \A i \in 1 .. Len(v) : r[i] = w[Len(u) + i]
  <2> DEFINE m == Len(u) + 1
             n == Len(u) + Len(v)
  <2>1. \A i \in m .. n : w[i] \in S
    BY <1>1, <1>2
  <2>2. m \in Int /\ n \in Int
    BY <1>1
  <2> HIDE DEF m, n
  <2>3. SubSeq(w, m, n) \in Seq(S) /\ Len(SubSeq(w, m, n)) = IF m <= n THEN n - m + 1 ELSE 0
    BY <2>1, <2>2, SubSeqProperties
  <2>4. \A i \in 1 .. n - m + 1 : SubSeq(w, m, n)[i] = w[m + i - 1]
    BY <2>1, <2>2, SubSeqProperties
  <2>5. r = SubSeq(w, m, n)
    BY DEF m, n
  <2> HIDE DEF r
  <2> QED
    BY <1>1, <2>3, <2>4, <2>5 DEF m, n
<1> HIDE DEF l, r
<1>5. \A i \in 1 .. Len(l) : l[i] = u[i]
  BY <1>1, <1>3 DEF w
<1>6. \A i \in 1 .. Len(r) : r[i] = v[i]
  BY <1>1, <1>4 DEF w
<1>7. l = u /\ r = v
  BY <1>3, <1>4, <1>5, <1>6, SeqEqual
<1> QED
  BY <1>7 DEF l, r, w

\* Taking one out and putting one in, of s and t where t lacks e.
LEMMA LacksIs ==
    ASSUME NEW e \in RightRowSet, NEW s \in Seq(RightRowSet), NEW t \in Seq(RightRowSet), Lacks(t, s, e)
    PROVE  /\ Len(s) = Len(t) + 1
           /\ \E i \in DOMAIN s : s[i] = e /\ t = RemoveAt(s, i)
           /\ \E i \in 1 .. Len(t) + 1 : s = InsertAt(t, i, e)
<1>1. PICK u, v \in Seq(RightRowSet) : s = u \o <<e>> \o v /\ t = u \o v
  BY DEF Lacks
<1> DEFINE one == <<e>>
           up == u \o one
<1>2. one \in Seq(RightRowSet) /\ Len(one) = 1 /\ one[1] = e
  OBVIOUS
<1>3. Len(u) \in Nat /\ Len(v) \in Nat
  BY LenProperties
<1> HIDE DEF one
<1>4. up \in Seq(RightRowSet) /\ Len(up) = Len(u) + 1 /\ up[Len(u) + 1] = e
  <2>1. /\ u \o one \in Seq(RightRowSet) /\ Len(u \o one) = Len(u) + Len(one)
        /\ \A i \in 1 .. Len(u) + Len(one) : (u \o one)[i] = IF i <= Len(u) THEN u[i] ELSE one[i - Len(u)]
    BY <1>2, ConcatProperties
  <2> QED
    BY <1>2, <1>3, <2>1
<1>5. one \o v \in Seq(RightRowSet) /\ Len(one \o v) = 1 + Len(v)
  BY <1>2, ConcatProperties, ZenonT(60)
<1>6. s = up \o v /\ s = u \o (one \o v)
  <2>1. (u \o one) \o v = u \o (one \o v)
    BY <1>2, RowsAssociate, SMTT(60)
  <2> QED
    BY <1>1, <2>1 DEF one
<1> HIDE DEF up
<1>7. /\ Len(s) = Len(u) + 1 + Len(v) /\ Len(t) = Len(u) + Len(v)
      /\ s[Len(u) + 1] = e
  <2>1. /\ Len(up \o v) = Len(up) + Len(v)
        /\ \A i \in 1 .. Len(up) + Len(v) : (up \o v)[i] = IF i <= Len(up) THEN up[i] ELSE v[i - Len(up)]
    BY <1>4, ConcatProperties
  <2>2. Len(u \o v) = Len(u) + Len(v)
    BY ConcatProperties
  <2> QED
    BY <1>1, <1>3, <1>4, <1>6, <2>1, <2>2
<1>8. SubSeq(s, 1, Len(u)) = u
  BY <1>5, <1>6, PrefixSuffix
<1>9. SubSeq(s, Len(u) + 2, Len(s)) = v
  <2>1. SubSeq(up \o v, Len(up) + 1, Len(up) + Len(v)) = v
    BY <1>4, PrefixSuffix
  <2>2. Len(up) + 1 = Len(u) + 2 /\ Len(up) + Len(v) = Len(s)
    BY <1>3, <1>4, <1>7
  <2> QED
    BY <1>6, <2>1, <2>2
<1>10. SubSeq(t, 1, Len(u)) = u /\ SubSeq(t, Len(u) + 1, Len(t)) = v
  BY <1>1, <1>7, PrefixSuffix
<1> DEFINE i == Len(u) + 1
<1>11. i \in DOMAIN s /\ i \in 1 .. Len(t) + 1 /\ i - 1 = Len(u) /\ i + 1 = Len(u) + 2
  <2>1. DOMAIN s = 1 .. Len(s)
    BY LenProperties
  <2> QED
    BY <1>3, <1>7, <2>1
<1>12. RemoveAt(s, i) = u \o v
  BY <1>8, <1>9, <1>11 DEF RemoveAt
<1>13. InsertAt(t, i, e) = u \o <<e>> \o v
  BY <1>10, <1>11 DEF InsertAt
<1> HIDE DEF i
<1>14. s[i] = e
  BY <1>7 DEF i
<1>15. t = RemoveAt(s, i)
  BY <1>1, <1>12
<1>16. s = InsertAt(t, i, e)
  BY <1>1, <1>13
<1>17. Len(s) = Len(t) + 1
  BY <1>3, <1>7
<1> QED
  BY <1>11, <1>14, <1>15, <1>16, <1>17

\* An edit of one section of a store is one of its rows.
LEMMA SectionEdit ==
    ASSUME NEW store \in Stores, NEW later \in Stores, NEW source \in Sources, NEW kind \in RightKinds,
           NEW e \in RightRowSet,
           \A other \in Sources, also \in RightKinds :
              other # source \/ also # kind => later[other][also] = store[other][also],
           Lacks(Rowed(later[source][kind], source, kind), Rowed(store[source][kind], source, kind), e)
    PROVE  Lacks(RowsIn(later), RowsIn(store), e)
<1> DEFINE sec(st, a, k) == Rowed(st[a][k], a, k)
<1>1. \A st \in Stores, a \in Sources, k \in RightKinds : sec(st, a, k) \in Seq(RightRowSet)
  BY StoreType, RowedType
<1>2. \A a \in Sources, k \in RightKinds : a # source \/ k # kind => sec(later, a, k) = sec(store, a, k)
  OBVIOUS
<1>3. Lacks(sec(later, source, kind), sec(store, source, kind), e)
  OBVIOUS
<1>4. \A st : RowsIn(st) = sec(st, "global", "commands") \o sec(st, "global", "tools")
                              \o sec(st, "project", "commands") \o sec(st, "project", "tools")
  BY DEF RowsIn
<1>5. /\ "global" \in Sources /\ "project" \in Sources /\ "commands" \in RightKinds /\ "tools" \in RightKinds
      /\ \A a \in Sources : a = "global" \/ a = "project"
      /\ \A k \in RightKinds : k = "commands" \/ k = "tools"
  BY DEF Sources, RightKinds
<1> HIDE DEF sec
<1>6. \A x, y \in Seq(RightRowSet) : x \o y \in Seq(RightRowSet)
  BY ConcatProperties
<1>7. \A x \in Seq(RightRowSet) : \A s, t : Lacks(t, s, e) => Lacks(x \o t, x \o s, e) /\ Lacks(t \o x, s \o x, e)
  BY LacksAround
<1> DEFINE gc == sec(store, "global", "commands")
           gt == sec(store, "global", "tools")
           pc == sec(store, "project", "commands")
           pt == sec(store, "project", "tools")
<1>8. gc \in Seq(RightRowSet) /\ gt \in Seq(RightRowSet) /\ pc \in Seq(RightRowSet) /\ pt \in Seq(RightRowSet)
  BY <1>1, <1>5
<1>9. RowsIn(store) = gc \o gt \o pc \o pt
  BY <1>4
<1>10. gc \o gt \in Seq(RightRowSet) /\ gc \o gt \o pc \in Seq(RightRowSet)
  BY <1>6, <1>8
<1>11. CASE source = "global" /\ kind = "commands"
  <2> DEFINE new == sec(later, "global", "commands")
  <2>1. RowsIn(later) = new \o gt \o pc \o pt
    BY <1>2, <1>4, <1>5, <1>11
  <2>2. Lacks(new, gc, e)
    BY <1>3, <1>11
  <2> HIDE DEF gc, gt, pc, pt, new
  <2>3. Lacks(new \o gt, gc \o gt, e)
    BY <1>7, <1>8, <2>2
  <2>4. Lacks(new \o gt \o pc, gc \o gt \o pc, e)
    BY <1>7, <1>8, <2>3
  <2>5. Lacks(new \o gt \o pc \o pt, gc \o gt \o pc \o pt, e)
    BY <1>7, <1>8, <2>4
  <2> QED
    BY <1>9, <2>1, <2>5
<1>12. CASE source = "global" /\ kind = "tools"
  <2> DEFINE new == sec(later, "global", "tools")
  <2>1. RowsIn(later) = gc \o new \o pc \o pt
    BY <1>2, <1>4, <1>5, <1>12
  <2>2. Lacks(new, gt, e)
    BY <1>3, <1>12
  <2> HIDE DEF gc, gt, pc, pt, new
  <2>3. Lacks(gc \o new, gc \o gt, e)
    BY <1>7, <1>8, <2>2
  <2>4. Lacks(gc \o new \o pc, gc \o gt \o pc, e)
    BY <1>7, <1>8, <2>3
  <2>5. Lacks(gc \o new \o pc \o pt, gc \o gt \o pc \o pt, e)
    BY <1>7, <1>8, <2>4
  <2> QED
    BY <1>9, <2>1, <2>5
<1>13. CASE source = "project" /\ kind = "commands"
  <2> DEFINE new == sec(later, "project", "commands")
  <2>1. RowsIn(later) = gc \o gt \o new \o pt
    BY <1>2, <1>4, <1>5, <1>13
  <2>2. Lacks(new, pc, e)
    BY <1>3, <1>13
  <2> HIDE DEF gc, gt, pc, pt, new
  <2>3. Lacks(gc \o gt \o new, gc \o gt \o pc, e)
    BY <1>7, <1>10, <2>2
  <2>4. Lacks(gc \o gt \o new \o pt, gc \o gt \o pc \o pt, e)
    BY <1>7, <1>8, <2>3
  <2> QED
    BY <1>9, <2>1, <2>4
<1>14. CASE source = "project" /\ kind = "tools"
  <2> DEFINE new == sec(later, "project", "tools")
  <2>1. RowsIn(later) = gc \o gt \o pc \o new
    BY <1>2, <1>4, <1>5, <1>14
  <2>2. Lacks(new, pt, e)
    BY <1>3, <1>14
  <2> HIDE DEF gc, gt, pc, pt, new
  <2>3. Lacks(gc \o gt \o pc \o new, gc \o gt \o pc \o pt, e)
    BY <1>7, <1>10, <2>2
  <2> QED
    BY <1>9, <2>1, <2>3
<1> QED
  BY <1>5, <1>11, <1>12, <1>13, <1>14

LEMMA RowedRemoval ==
    ASSUME NEW entries \in Seq(Rights), NEW i \in 1 .. Len(entries), NEW source \in Sources, NEW kind \in RightKinds
    PROVE  /\ RemoveAt(entries, i) \in Seq(Rights)
           /\ Lacks(Rowed(RemoveAt(entries, i), source, kind), Rowed(entries, source, kind), RowFor(source, kind, entries[i]))
<1> DEFINE u == SubSeq(entries, 1, i - 1)
           v == SubSeq(entries, i + 1, Len(entries))
           one == <<entries[i]>>
<1>1. Len(entries) \in Nat /\ \A j \in 1 .. Len(entries) : entries[j] \in Rights
  BY LenProperties, ElementOfSeq
<1>2. u \in Seq(Rights)
  <2>1. 1 \in Int /\ i - 1 \in Int /\ \A j \in 1 .. i - 1 : entries[j] \in Rights
    BY <1>1
  <2> QED
    BY <2>1, SubSeqProperties
<1>3. v \in Seq(Rights)
  <2>1. i + 1 \in Int /\ Len(entries) \in Int /\ \A j \in i + 1 .. Len(entries) : entries[j] \in Rights
    BY <1>1
  <2> QED
    BY <2>1, SubSeqProperties
<1>4. one \in Seq(Rights)
  BY <1>1
<1>5. entries = (u \o one) \o v
  <2>1. SubSeq(entries, 1, i) = u \o one
    <3>1. 1 \in 1 .. Len(entries) /\ i \in 1 .. Len(entries)
      BY <1>1
    <3> QED
      BY <3>1, SubSeqRecursiveSecond
  <2>2. SubSeq(entries, 1, i) \o v = SubSeq(entries, 1, Len(entries))
    <3>1. 1 \in 1 .. Len(entries) + 1 /\ i \in 1 - 1 .. Len(entries) /\ Len(entries) \in i .. Len(entries)
      BY <1>1
    <3> QED
      BY <3>1, ConcatAdjacentSubSeq
  <2> QED
    BY <2>1, <2>2, SubSeqFull
<1>6. RemoveAt(entries, i) = u \o v
  BY DEF RemoveAt
<1> HIDE DEF u, v
<1>7. Rowed(u \o v, source, kind) = Rowed(u, source, kind) \o Rowed(v, source, kind)
  BY <1>2, <1>3, RowedConcat
<1>8. Rowed((u \o one) \o v, source, kind) =
         (Rowed(u, source, kind) \o <<RowFor(source, kind, entries[i])>>) \o Rowed(v, source, kind)
  <2>1. u \o one \in Seq(Rights)
    BY <1>2, <1>4, ConcatProperties
  <2>2. Rowed(one, source, kind) = <<RowFor(source, kind, entries[i])>>
    BY <1>1, RowedOne
  <2> HIDE DEF one
  <2>3. Rowed(u \o one, source, kind) = Rowed(u, source, kind) \o Rowed(one, source, kind)
    BY <1>2, <1>4, RowedConcat
  <2>4. Rowed((u \o one) \o v, source, kind) = Rowed(u \o one, source, kind) \o Rowed(v, source, kind)
    BY <1>3, <2>1, RowedConcat, ZenonT(60)
  <2> QED
    BY <2>2, <2>3, <2>4
<1>9. Rowed(u, source, kind) \in Seq(RightRowSet) /\ Rowed(v, source, kind) \in Seq(RightRowSet)
  BY <1>2, <1>3, RowedType
<1>10. u \o v \in Seq(Rights)
  BY <1>2, <1>3, ConcatProperties
<1>11. /\ Rowed(entries, source, kind) =
             (Rowed(u, source, kind) \o <<RowFor(source, kind, entries[i])>>) \o Rowed(v, source, kind)
       /\ Rowed(RemoveAt(entries, i), source, kind) = Rowed(u, source, kind) \o Rowed(v, source, kind)
  BY <1>5, <1>6, <1>7, <1>8
<1> QED
  BY <1>6, <1>9, <1>10, <1>11 DEF Lacks

LEMMA RowedAppend ==
    ASSUME NEW entries \in Seq(Rights), NEW right \in Rights, NEW source \in Sources, NEW kind \in RightKinds
    PROVE  /\ Append(entries, right) \in Seq(Rights)
           /\ Lacks(Rowed(entries, source, kind), Rowed(Append(entries, right), source, kind), RowFor(source, kind, right))
<1> DEFINE u == Rowed(entries, source, kind)
           e == RowFor(source, kind, right)
<1>1. Append(entries, right) = entries \o <<right>> /\ Append(entries, right) \in Seq(Rights)
  BY AppendIsConcat, AppendProperties
<1>2. <<right>> \in Seq(Rights) /\ e \in RightRowSet
  BY DEF RowFor, RightRowSet
<1>3. Rowed(Append(entries, right), source, kind) = u \o <<e>>
  <2> DEFINE one == <<right>>
  <2>1. one \in Seq(Rights)
    BY <1>2
  <2>2. Rowed(one, source, kind) = <<e>>
    BY RowedOne
  <2> HIDE DEF one, e
  <2>3. Rowed(entries \o one, source, kind) = Rowed(entries, source, kind) \o Rowed(one, source, kind)
    BY <2>1, RowedConcat
  <2> QED
    BY <1>1, <2>2, <2>3 DEF one
<1>4. u \in Seq(RightRowSet)
  BY RowedType
<1> HIDE DEF u, e
<1>5. u \o <<e>> \in Seq(RightRowSet) /\ <<>> \in Seq(RightRowSet)
  <2>1. <<e>> \in Seq(RightRowSet) /\ <<>> \in Seq(RightRowSet)
    BY <1>2
  <2> DEFINE one == <<e>>
  <2> HIDE DEF one
  <2>2. one \in Seq(RightRowSet)
    BY <2>1 DEF one
  <2>3. u \o one \in Seq(RightRowSet)
    BY <1>4, <2>2, ConcatProperties
  <2> QED
    BY <2>1, <2>3 DEF one
<1>6. (u \o <<e>>) \o <<>> = u \o <<e>> /\ u \o <<>> = u
  <2> DEFINE w == u \o <<e>>
  <2> HIDE DEF w
  <2>1. w \in Seq(RightRowSet)
    BY <1>5 DEF w
  <2>2. w \o <<>> = w /\ u \o <<>> = u
    BY <1>4, <2>1, ConcatEmptySeq
  <2> QED
    BY <2>2 DEF w
<1>7. Lacks(u, u \o <<e>>, e)
  BY <1>4, <1>5, <1>6 DEF Lacks
<1> QED
  BY <1>1, <1>3, <1>7 DEF u, e

-----------------------------------------------------------------------------
(* The permissions screen, step by step.                                     *)

Edited(store, source, kind, new) == [store EXCEPT ![source][kind] = new]

LEMMA StoreEdit ==
    ASSUME NEW store \in Stores, NEW source \in Sources, NEW kind \in RightKinds, NEW new \in Seq(Rights),
           NEW later, later = Edited(store, source, kind, new)
    PROVE  /\ later \in Stores /\ later[source][kind] = new
           /\ \A other \in Sources, also \in RightKinds :
                 other # source \/ also # kind => later[other][also] = store[other][also]
<1>1. /\ DOMAIN store = Sources
      /\ \A a \in Sources : store[a] \in [commands : Seq(Rights), tools : Seq(Rights)]
  BY DEF Stores
<1> DEFINE edited == [store[source] EXCEPT ![kind] = new]
<1>2. /\ edited \in [commands : Seq(Rights), tools : Seq(Rights)] /\ edited[kind] = new
      /\ \A also \in RightKinds : also # kind => edited[also] = store[source][also]
  <2>1. CASE kind = "commands"
    BY <1>1, <2>1 DEF RightKinds
  <2>2. CASE kind = "tools"
    BY <1>1, <2>2 DEF RightKinds
  <2> QED
    BY <2>1, <2>2 DEF RightKinds
<1>3. later = [store EXCEPT ![source] = edited]
  BY DEF Edited
<1> HIDE DEF edited
<1>4. later[source] = edited /\ \A a \in Sources : a # source => later[a] = store[a]
  BY <1>1, <1>3
<1>5. later \in Stores
  BY <1>1, <1>2, <1>3 DEF Stores
<1> QED
  BY <1>2, <1>4, <1>5

LEMMA RightsType ==
    ASSUME RightsTrue
    PROVE  /\ rights \in Stores /\ RightRows \in Seq(RightRowSet)
           /\ Len(RightRows) \in Nat /\ DOMAIN RightRows = 1 .. Len(RightRows)
           /\ RightRows = <<>> <=> Len(RightRows) = 0
           /\ rightAt \in Nat
<1>1. rights \in Stores
  BY DEF RightsTrue, Stores
<1>2. RightRows \in Seq(RightRowSet)
  BY <1>1, RowIsStored, RightRowsAre
<1> QED
  BY <1>1, <1>2, LenProperties, EmptySeq DEF RightsTrue

LEMMA RightsInitSound == RightsInit => RightsTrue
<1> SUFFICES ASSUME RightsInit PROVE RightsTrue
  OBVIOUS
<1>1. rights \in Stores
  BY ListedAssumption DEF RightsInit, Stores
<1>2. RightRows \in Seq(RightRowSet)
  BY <1>1, RowIsStored, RightRowsAre
<1>3. RightRows # <<>> => 0 < Len(RightRows)
  BY <1>2, EmptySeq, LenProperties
<1> QED
  BY <1>1, <1>3 DEF RightsInit, RightsTrue, Stores

LEMMA RightRowsNext == RightRows' = RowsIn(rights')
  BY DEF RightRows, RowsIn, Rowed, RowFor

\* The cursor after a row went or came.
LEMMA RebuildIs ==
    ASSUME Rebuild, rightAt \in Nat, RightRows' \in Seq(RightRowSet), rightAt <= Len(RightRows')
    PROVE  /\ rightAt' \in Nat
           /\ IF RightRows' = <<>> THEN rightAt' = 0 ELSE rightAt' < Len(RightRows')
<1>1. Len(RightRows') \in Nat /\ (RightRows' = <<>> <=> Len(RightRows') = 0)
  BY EmptySeq, LenProperties
<1>2. rightAt' = IF rightAt < Len(RightRows') \/ rightAt = 0 THEN rightAt ELSE Len(RightRows') - 1
  BY DEF Rebuild
<1> QED
  BY <1>1, <1>2

LEMMA RevokeStep == RightsTrue /\ Revoke => RightsTrue' /\ EditsOne
<1> SUFFICES ASSUME RightsTrue, Revoke PROVE RightsTrue' /\ EditsOne
  OBVIOUS
<1> DEFINE row == RightRows[rightAt + 1]
           entries == rights[row.source][row.kind]
           T == {i \in DOMAIN entries : entries[i] = row.right}
           first == CHOOSE i \in DOMAIN entries :
                       entries[i] = row.right /\ \A j \in 1 .. i - 1 : entries[j] # row.right
<1>1. /\ revoking # Nobody /\ revoking' = Nobody /\ wheeled' = FALSE /\ adding' = adding
      /\ rights' = [rights EXCEPT ![row.source][row.kind] = RemoveAt(@, first)]
      /\ Rebuild
  BY DEF Revoke
<1>2. /\ rights \in Stores /\ RightRows \in Seq(RightRowSet)
      /\ Len(RightRows) \in Nat /\ DOMAIN RightRows = 1 .. Len(RightRows)
      /\ rightAt \in Nat /\ rightAt < Len(RightRows)
  BY <1>1, RightsType DEF RightsTrue
<1>3. /\ row \in RightRowSet
      /\ \E j \in DOMAIN entries : entries[j] = row.right
  <2>1. rightAt + 1 \in 1 .. Len(RightRows)
    BY <1>2
  <2> QED
    BY <1>2, <2>1, RowIsStored, RightRowsAre
<1>4. ~wheeled => row = revoking
  BY <1>1 DEF RightsTrue
<1> HIDE DEF row
<1>5. /\ row.source \in Sources /\ row.kind \in RightKinds
      /\ row = RowFor(row.source, row.kind, row.right)
  BY <1>3 DEF RightRowSet, RowFor
<1>6. entries \in Seq(Rights) /\ Len(entries) \in Nat /\ DOMAIN entries = 1 .. Len(entries)
  <2>1. entries \in Seq(Rights)
    BY <1>2, <1>5, StoreType
  <2> QED
    BY <2>1, LenProperties
<1> HIDE DEF entries
<1>7. first \in 1 .. Len(entries) /\ entries[first] = row.right
  <2>1. T # {} /\ T \in SUBSET Nat
    BY <1>3, <1>6
  <2>2. T \subseteq 1 .. Len(entries) /\ \A i \in 1 .. Len(entries) : i \in T <=> entries[i] = row.right
    BY <1>6
  <2> HIDE DEF T
  <2>3. PICK i \in T : \A j \in T : i <= j
    BY <2>1, Least
  <2>4. i \in 1 .. Len(entries) /\ entries[i] = row.right
    BY <2>2
  <2>5. \A j \in 1 .. i - 1 : entries[j] # row.right
    <3> TAKE j \in 1 .. i - 1
    <3>1. j \in 1 .. Len(entries) /\ ~(i <= j)
      BY <1>6, <2>4
    <3> QED
      BY <2>2, <2>3, <3>1
  <2>6. \E k \in DOMAIN entries : entries[k] = row.right /\ \A j \in 1 .. k - 1 : entries[j] # row.right
    BY <1>6, <2>4, <2>5
  <2> QED
    BY <1>6, <2>6
<1> HIDE DEF first
<1>8. /\ RemoveAt(entries, first) \in Seq(Rights)
      /\ Lacks(Rowed(RemoveAt(entries, first), row.source, row.kind), Rowed(entries, row.source, row.kind), row)
  <2>1. /\ RemoveAt(entries, first) \in Seq(Rights)
        /\ Lacks(Rowed(RemoveAt(entries, first), row.source, row.kind), Rowed(entries, row.source, row.kind),
                 RowFor(row.source, row.kind, entries[first]))
    BY <1>5, <1>6, <1>7, RowedRemoval
  <2> QED
    BY <1>5, <1>7, <2>1
<1>9. rights' = Edited(rights, row.source, row.kind, RemoveAt(entries, first))
  BY <1>1 DEF entries, Edited
<1>10. /\ rights' \in Stores /\ rights'[row.source][row.kind] = RemoveAt(entries, first)
       /\ \A other \in Sources, also \in RightKinds :
             other # row.source \/ also # row.kind => rights'[other][also] = rights[other][also]
  BY <1>2, <1>5, <1>8, <1>9, StoreEdit
<1>11. Lacks(RightRows', RightRows, row)
  <2>1. Lacks(Rowed(rights'[row.source][row.kind], row.source, row.kind),
              Rowed(rights[row.source][row.kind], row.source, row.kind), row)
    BY <1>8, <1>10 DEF entries
  <2>2. Lacks(RowsIn(rights'), RowsIn(rights), row)
    BY <1>2, <1>3, <1>5, <1>10, <2>1, SectionEdit
  <2> QED
    BY <2>2, RightRowsAre, RightRowsNext
<1>12. RightRows' \in Seq(RightRowSet)
  BY <1>10, RowIsStored, RightRowsNext
<1>13. /\ Len(RightRows) = Len(RightRows') + 1
       /\ \E i \in DOMAIN RightRows : RightRows[i] = row /\ RightRows' = RemoveAt(RightRows, i)
  BY <1>2, <1>3, <1>11, <1>12, LacksIs
<1>14. EditsOne
  BY <1>1, <1>4, <1>13 DEF EditsOne
<1>15. rightAt <= Len(RightRows')
  <2>1. Len(RightRows') \in Nat
    BY <1>12, LenProperties
  <2> QED
    BY <1>2, <1>13, <2>1
<1>16. /\ rightAt' \in Nat
       /\ IF RightRows' = <<>> THEN rightAt' = 0 ELSE rightAt' < Len(RightRows')
  BY <1>1, <1>2, <1>12, <1>15, RebuildIs
<1>17. RightsTrue'
  BY <1>1, <1>10, <1>16 DEF RightsTrue, Stores
<1> QED
  BY <1>14, <1>17

LEMMA AddDenyStep == RightsTrue /\ AddDeny => RightsTrue' /\ EditsOne
<1> SUFFICES ASSUME RightsTrue, AddDeny PROVE RightsTrue' /\ EditsOne
  OBVIOUS
<1> DEFINE denial == [name |-> adding, scope |-> "deny"]
           entries == rights["project"].commands
           row == RowFor("project", "commands", denial)
<1>1. adding # Nobody /\ adding' = Nobody /\ UNCHANGED <<revoking, wheeled>>
  BY DEF AddDeny
<1>2. revoking = Nobody
  BY <1>1 DEF RightsTrue
<1>3. CASE UNCHANGED <<rights, rightAt>>
  <2>1. RightRows' = RightRows
    BY <1>3 DEF RightRows
  <2> QED
    BY <1>1, <1>2, <1>3, <2>1 DEF RightsTrue, EditsOne
<1>4. CASE /\ adding # "blank"
           /\ rights' = [rights EXCEPT !["project"].commands = Append(@, denial)]
           /\ Rebuild
  <2>1. /\ rights \in Stores /\ RightRows \in Seq(RightRowSet)
        /\ Len(RightRows) \in Nat /\ rightAt \in Nat
        /\ rightAt <= Len(RightRows)
    BY RightsType DEF RightsTrue
  <2>2. denial \in Rights
    BY <1>1, <1>4 DEF RightsTrue, Rights
  <2>3. "project" \in Sources /\ "commands" \in RightKinds
    BY DEF Sources, RightKinds
  <2>4. entries \in Seq(Rights)
    BY <2>1, <2>3, StoreType
  <2> HIDE DEF denial
  <2>5. /\ Append(entries, denial) \in Seq(Rights)
        /\ Lacks(Rowed(entries, "project", "commands"), Rowed(Append(entries, denial), "project", "commands"), row)
    BY <2>2, <2>3, <2>4, RowedAppend
  <2> DEFINE new == Append(entries, denial)
  <2>6. rights' = Edited(rights, "project", "commands", new)
    BY <1>4 DEF Edited
  <2>7. /\ rights' \in Stores /\ rights'["project"]["commands"] = Append(entries, denial)
        /\ \A other \in Sources, also \in RightKinds :
              other # "project" \/ also # "commands" => rights'[other][also] = rights[other][also]
    <3>1. new \in Seq(Rights)
      BY <2>5
    <3> HIDE DEF new
    <3>2. /\ rights' \in Stores /\ rights'["project"]["commands"] = new
          /\ \A other \in Sources, also \in RightKinds :
                other # "project" \/ also # "commands" => rights'[other][also] = rights[other][also]
      BY <2>1, <2>3, <2>6, <3>1, StoreEdit
    <3> QED
      BY <3>2 DEF new
  <2>8. row \in RightRowSet
    BY <2>2, <2>3 DEF RowFor, RightRowSet
  <2>9. row = [source |-> "project", kind |-> "commands", right |-> [name |-> adding, scope |-> "deny"]]
    BY DEF RowFor, denial
  <2> HIDE DEF row, entries
  <2>10. Lacks(RightRows, RightRows', row)
    <3>1. Lacks(Rowed(rights["project"]["commands"], "project", "commands"),
                Rowed(rights'["project"]["commands"], "project", "commands"), row)
      BY <2>5, <2>7 DEF entries
    <3>2. \A other \in Sources, also \in RightKinds :
              other # "project" \/ also # "commands" => rights[other][also] = rights'[other][also]
      BY <2>7
    <3>3. Lacks(RowsIn(rights), RowsIn(rights'), row)
      BY <2>1, <2>3, <2>7, <2>8, <3>1, <3>2, SectionEdit
    <3> QED
      BY <3>3, RightRowsAre, RightRowsNext
  <2>11. RightRows' \in Seq(RightRowSet)
    BY <2>7, RowIsStored, RightRowsNext
  <2>12. /\ Len(RightRows') = Len(RightRows) + 1
         /\ \E i \in 1 .. Len(RightRows) + 1 : RightRows' = InsertAt(RightRows, i, row)
    BY <2>1, <2>8, <2>10, <2>11, LacksIs
  <2>13. EditsOne
    BY <1>2, <2>9, <2>12 DEF EditsOne
  <2>14. rightAt <= Len(RightRows')
    BY <2>1, <2>12
  <2>15. /\ rightAt' \in Nat
         /\ IF RightRows' = <<>> THEN rightAt' = 0 ELSE rightAt' < Len(RightRows')
    BY <1>4, <2>1, <2>11, <2>14, RebuildIs
  <2>16. RightsTrue'
    BY <1>1, <1>2, <2>7, <2>15 DEF RightsTrue, Stores
  <2> QED
    BY <2>13, <2>16
<1> QED
  BY <1>3, <1>4 DEF AddDeny

LEMMA RightStep == RightsTrue /\ RightsNext => RightsTrue' /\ EditsOne
<1> SUFFICES ASSUME RightsTrue, RightsNext PROVE RightsTrue' /\ EditsOne
  OBVIOUS
<1>1. /\ Len(RightRows) \in Nat /\ DOMAIN RightRows = 1 .. Len(RightRows)
      /\ (RightRows = <<>> <=> Len(RightRows) = 0) /\ rightAt \in Nat
  BY RightsType
<1>2. CASE MoveRight
  <2>1. /\ RightRows # <<>> /\ rightAt' \in Moved(rightAt, Len(RightRows))
        /\ wheeled' = (revoking # Nobody /\ RightRows[rightAt' + 1] # revoking)
        /\ UNCHANGED <<rights, adding, revoking>>
    BY <1>2 DEF MoveRight
  <2>2. rightAt' \in 0 .. Len(RightRows) - 1
    BY <1>1, <2>1, CursorMoves
  <2>3. RightRows' = RightRows
    BY <2>1 DEF RightRows
  <2>4. EditsOne
    BY <2>1 DEF EditsOne
  <2>5. revoking' # Nobody /\ ~wheeled' => RightRows'[rightAt' + 1] = revoking'
    <3> HIDE <1>1
    <3> QED
      BY <2>1, <2>3
  <2>6. rightAt' \in Nat /\ rightAt' < Len(RightRows') /\ RightRows' # <<>>
    BY <1>1, <2>1, <2>2, <2>3
  <2>7. revoking' # Nobody => adding' = Nobody
    BY <2>1 DEF RightsTrue
  <2>8. RightsTrue'
    BY <2>1, <2>5, <2>6, <2>7 DEF RightsTrue
  <2> QED
    BY <2>4, <2>8
<1>3. CASE AskRevoke \/ KeepRight \/ TypeDeny
  <2>1. UNCHANGED <<rights, rightAt>>
    BY <1>3 DEF AskRevoke, KeepRight, TypeDeny
  <2>2. RightRows' = RightRows
    BY <2>1 DEF RightRows
  <2>3. EditsOne
    BY <2>1 DEF EditsOne
  <2>4. CASE AskRevoke
    BY <2>1, <2>2, <2>3, <2>4 DEF AskRevoke, RightsTrue
  <2>5. CASE KeepRight
    BY <2>1, <2>2, <2>3, <2>5 DEF KeepRight, RightsTrue
  <2>6. CASE TypeDeny
    BY <2>1, <2>2, <2>3, <2>6 DEF TypeDeny, RightsTrue
  <2> QED
    BY <1>3, <2>3, <2>4, <2>5, <2>6
<1> QED
  BY <1>2, <1>3, RevokeStep, AddDenyStep DEF RightsNext

LEMMA RightsKept == RightsTrue /\ UNCHANGED rightVars => RightsTrue'
<1> SUFFICES ASSUME RightsTrue, UNCHANGED rightVars
             PROVE  RightsTrue'
  OBVIOUS
<1>1. UNCHANGED <<rights, rightAt, adding, revoking, wheeled>>
  BY DEF rightVars
<1>2. RightRows' = RightRows
  BY <1>1 DEF RightRows
<1> QED
  BY <1>1, <1>2 DEF RightsTrue

-----------------------------------------------------------------------------
(* The three screens together.                                               *)

LEMMA ChoosersStep == ChInv /\ (InPicker \/ InPlans \/ InRights) => ChInv' /\ [EditsOne]_rightVars
<1> SUFFICES ASSUME ChInv, InPicker \/ InPlans \/ InRights PROVE ChInv' /\ [EditsOne]_rightVars
  OBVIOUS
<1>1. PickInv /\ PlanInv /\ RightsTrue
  BY DEF ChInv, PickInv, PlanInv
<1>2. PickInv'
  BY <1>1, PickerStep, PickerKept DEF InPicker, InPlans, InRights
<1>3. PlanInv'
  BY <1>1, PlanStep, PlansKept DEF InPicker, InPlans, InRights
<1>4. RightsTrue' /\ [EditsOne]_rightVars
  BY <1>1, RightStep, RightsKept DEF InPicker, InPlans, InRights
<1> QED
  BY <1>2, <1>3, <1>4 DEF ChInv, PickInv, PlanInv

\* The inductive invariant of the list screens.
THEOREM ChoosersSound == ChoosersSpec => []ChInv
<1>1. ChoosersInit => ChInv
  BY PickerInitSound, PlansInitSound, RightsInitSound DEF ChoosersInit, ChInv, PickInv, PlanInv
<1>2. ChInv /\ [InPicker \/ InPlans \/ InRights]_chooserVars => ChInv'
  <2>1. ChInv /\ UNCHANGED chooserVars => ChInv'
    <3> SUFFICES ASSUME ChInv, UNCHANGED chooserVars PROVE ChInv'
      OBVIOUS
    <3>1. UNCHANGED pickerVars /\ UNCHANGED planVars /\ UNCHANGED rightVars
      BY DEF chooserVars
    <3> QED
      BY <3>1, PickerKept, PlansKept, RightsKept DEF ChInv, PickInv, PlanInv
  <2> QED
    BY <2>1, ChoosersStep
<1> QED
  BY <1>1, <1>2, PTL DEF ChoosersSpec

\* What a list highlights is what its keys act on, whatever probes land and
\* whoever turns the wheel; and an edit of the permissions takes away one row,
\* the one that was asked about unless the wheel turned since, or adds one deny.
THEOREM ChoicesAreTrue == ChoosersSpec => ChoicesTrue
<1>1. ChInv => PickerShown /\ PlanRowsTrue /\ RightsShown
  <2> SUFFICES ASSUME ChInv PROVE PickerShown /\ PlanRowsTrue /\ RightsShown
    OBVIOUS
  <2>1. PickerShown
    BY PickerTruth DEF ChInv, PickInv
  <2>2. RightsShown
    BY DEF ChInv, RightsTrue, RightsShown
  <2> QED
    BY <2>1, <2>2 DEF ChInv
<1>2. ChInv /\ [InPicker \/ InPlans \/ InRights]_chooserVars => [EditsOne]_rightVars
  <2>1. UNCHANGED chooserVars => UNCHANGED rightVars
    BY DEF chooserVars
  <2> QED
    BY <2>1, ChoosersStep
<1> QED
  BY <1>1, <1>2, ChoosersSound, PTL DEF ChoicesTrue, ChoosersSpec

-----------------------------------------------------------------------------
(* Dialogs: what a slug is.                                                  *)

LettersOf(text) == {i \in DOMAIN text : Letter(text[i]) = "a"}
SlugPiece(text, i) ==
    IF i \notin LettersOf(text) THEN <<>>
    ELSE IF i - 1 \notin LettersOf(text) /\ \E j \in LettersOf(text) : j < i THEN <<"-", "a">>
    ELSE <<"a">>
SlugPieces(text) == [i \in DOMAIN text |-> SlugPiece(text, i)]

LEMMA SameLength == ASSUME NEW m \in Nat, NEW k \in Nat, 1 .. m = 1 .. k PROVE m = k
<1>1. m # 0 => m \in 1 .. k
  OBVIOUS
<1>2. k # 0 => k \in 1 .. m
  OBVIOUS
<1> QED
  BY <1>1, <1>2

LEMMA SlugParts ==
    /\ <<>> \in Seq({"-", "a"}) /\ <<"a">> \in Seq({"-", "a"}) /\ <<"-", "a">> \in Seq({"-", "a"})
<1>1. <<"a">> \in Seq({"-", "a"})
  OBVIOUS
<1>2. <<"-", "a">> \in Seq({"-", "a"})
  OBVIOUS
<1> QED
  BY <1>1, <1>2, EmptySeq

LEMMA PiecesType ==
    ASSUME NEW S, NEW text \in Seq(S)
    PROVE  /\ SlugPieces(text) \in Seq(Seq({"-", "a"}))
           /\ Slug(text) = FlattenSeq(SlugPieces(text))
<1>1. \A i : SlugPiece(text, i) \in Seq({"-", "a"})
  BY SlugParts, Zenon DEF SlugPiece
<1>2. DOMAIN text = 1 .. Len(text) /\ Len(text) \in Nat
  BY LenProperties
<1>3. SlugPieces(text) \in Seq(Seq({"-", "a"}))
  <2>1. SlugPieces(text) = [i \in 1 .. Len(text) |-> SlugPiece(text, i)]
    BY <1>2 DEF SlugPieces
  <2> QED
    BY <1>1, <1>2, <2>1
<1>4. Slug(text) = FlattenSeq(SlugPieces(text))
  BY Zenon DEF Slug, SlugPieces, SlugPiece, LettersOf
<1> QED
  BY <1>3, <1>4

\* A character more is a letter more, with a dash if it does not follow one.
LEMMA SlugAppend ==
    ASSUME NEW S, NEW text \in Seq(S), NEW c \in S
    PROVE  Slug(Append(text, c)) =
              Slug(text) \o
                 (IF Letter(c) # "a" THEN <<>>
                  ELSE IF Len(text) \notin LettersOf(text) /\ LettersOf(text) # {} THEN <<"-", "a">>
                  ELSE <<"a">>)
<1> DEFINE u == Append(text, c)
           n == Len(text)
           x == IF Letter(c) # "a" THEN <<>>
                ELSE IF n \notin LettersOf(text) /\ LettersOf(text) # {} THEN <<"-", "a">>
                ELSE <<"a">>
<1>1. /\ u \in Seq(S) /\ Len(u) = n + 1 /\ n \in Nat
      /\ DOMAIN u = 1 .. n + 1 /\ DOMAIN text = 1 .. n
      /\ u[n + 1] = c /\ \A i \in 1 .. n : u[i] = text[i]
  BY AppendProperties, LenProperties
<1> HIDE DEF u, n
<1>2. LettersOf(u) = LettersOf(text) \union (IF Letter(c) = "a" THEN {n + 1} ELSE {})
  <2>1. \A i \in 1 .. n + 1 : i \in 1 .. n \/ i = n + 1
    BY <1>1
  <2>2. n + 1 \in 1 .. n + 1 /\ n + 1 \notin 1 .. n /\ 1 .. n \subseteq 1 .. n + 1
    BY <1>1
  <2> QED
    BY <1>1, <2>1, <2>2 DEF LettersOf
<1>3. \A i \in 1 .. n : SlugPiece(u, i) = SlugPiece(text, i)
  <2> TAKE i \in 1 .. n
  <2>1. i # n + 1 /\ i - 1 # n + 1 /\ ~(n + 1 < i)
    BY <1>1
  <2>2. /\ i \in LettersOf(u) <=> i \in LettersOf(text)
        /\ i - 1 \in LettersOf(u) <=> i - 1 \in LettersOf(text)
        /\ (\E j \in LettersOf(u) : j < i) <=> (\E j \in LettersOf(text) : j < i)
    BY <1>2, <2>1
  <2> QED
    BY <2>2 DEF SlugPiece
<1>4. SlugPiece(u, n + 1) = x
  <2>1. \A j \in LettersOf(text) : j < n + 1 /\ j # n + 1
    BY <1>1 DEF LettersOf
  <2>2. n + 1 \in LettersOf(u) <=> Letter(c) = "a"
    BY <1>2, <2>1
  <2>3. n \in LettersOf(u) <=> n \in LettersOf(text)
    <3>1. n # n + 1
      BY <1>1
    <3> QED
      BY <1>2, <3>1
  <2>4. (\E j \in LettersOf(u) : j < n + 1) <=> LettersOf(text) # {}
    BY <1>1, <1>2, <2>1
  <2>5. n + 1 - 1 = n
    BY <1>1
  <2> QED
    <3> DEFINE k == n + 1
    <3>1. k - 1 = n
      BY <1>1
    <3>2. /\ k \in LettersOf(u) <=> Letter(c) = "a"
          /\ (\E j \in LettersOf(u) : j < k) <=> LettersOf(text) # {}
      BY <2>2, <2>4
    <3> HIDE DEF k
    <3>3. SlugPiece(u, k) =
             IF k \notin LettersOf(u) THEN <<>>
             ELSE IF n \notin LettersOf(u) /\ \E j \in LettersOf(u) : j < k THEN <<"-", "a">>
             ELSE <<"a">>
      BY <3>1, Zenon DEF SlugPiece
    <3>4. SlugPiece(u, k) = x
      BY <2>3, <3>2, <3>3, Zenon
    <3> QED
      BY <3>4 DEF k
<1>5. x \in Seq({"-", "a"})
  BY SlugParts, Zenon
<1>6. SlugPieces(u) = Append(SlugPieces(text), x)
  <2> DEFINE ps == SlugPieces(text)
  <2>1. ps \in Seq(Seq({"-", "a"})) /\ Len(ps) = n /\ \A i \in 1 .. n : ps[i] = SlugPiece(text, i)
    <3>1. ps \in Seq(Seq({"-", "a"})) /\ ps = [i \in 1 .. n |-> SlugPiece(text, i)]
      BY <1>1, PiecesType, Zenon DEF SlugPieces
    <3>2. DOMAIN ps = 1 .. Len(ps) /\ Len(ps) \in Nat /\ DOMAIN ps = 1 .. n
      BY <3>1, LenProperties
    <3>3. Len(ps) = n
      <4> HIDE DEF ps
      <4> QED
        BY <1>1, <3>2, SameLength
    <3> QED
      BY <3>1, <3>3
  <2>2. SlugPieces(u) \in Seq(Seq({"-", "a"})) /\ Len(SlugPieces(u)) = n + 1
        /\ \A i \in 1 .. n + 1 : SlugPieces(u)[i] = SlugPiece(u, i)
    <3> DEFINE qs == SlugPieces(u)
    <3>1. qs \in Seq(Seq({"-", "a"})) /\ qs = [i \in 1 .. n + 1 |-> SlugPiece(u, i)]
      BY <1>1, PiecesType, Zenon DEF SlugPieces
    <3>2. DOMAIN qs = 1 .. Len(qs) /\ Len(qs) \in Nat /\ DOMAIN qs = 1 .. n + 1
      BY <3>1, LenProperties
    <3>3. Len(qs) = n + 1
      <4> HIDE DEF qs
      <4>1. n + 1 \in Nat
        BY <1>1
      <4> QED
        BY <3>2, <4>1, SameLength, Zenon
    <3> QED
      BY <3>1, <3>3
  <2> HIDE DEF x, ps
  <2>3. /\ Append(ps, x) \in Seq(Seq({"-", "a"})) /\ Len(Append(ps, x)) = n + 1
        /\ Append(ps, x)[n + 1] = x /\ \A i \in 1 .. n : Append(ps, x)[i] = ps[i]
    BY <1>5, <2>1, AppendProperties, SMTT(60)
  <2>4. \A i \in 1 .. n + 1 : SlugPieces(u)[i] = Append(ps, x)[i]
    <3> TAKE i \in 1 .. n + 1
    <3>1. i \in 1 .. n \/ i = n + 1
      BY <1>1
    <3> QED
      BY <1>3, <1>4, <2>1, <2>2, <2>3, <3>1
  <2> QED
    BY <2>2, <2>3, <2>4, SeqEqual DEF ps
<1>7. FlattenSeq(Append(SlugPieces(text), x)) = FlattenSeq(SlugPieces(text)) \o x
  <2> HIDE DEF x
  <2> QED
    BY <1>5, PiecesType, FlattenAppend
<1>8. Slug(u) = FlattenSeq(SlugPieces(u)) /\ Slug(text) = FlattenSeq(SlugPieces(text))
  BY <1>1, PiecesType
<1> QED
  BY <1>6, <1>7, <1>8 DEF u, n

LEMMA SlugEmpty == Slug(<<>>) = <<>>
<1>1. SlugPieces(<<>>) = <<>>
  BY DEF SlugPieces
<1>2. <<>> \in Seq({})
  OBVIOUS
<1> QED
  BY <1>1, <1>2, PiecesType, FlattenEmpty

\* A slug: letters and dashes, no dash at an end or beside another.
LEMMA SlugIs ==
    ASSUME NEW S, NEW text \in Seq(S)
    PROVE  /\ Slug(text) \in Seq({"-", "a"})
           /\ IsSlug(Slug(text))
<1> DEFINE Good(t) ==
              /\ Slug(t) \in Seq({"-", "a"})
              /\ Slug(t) = <<>> => LettersOf(t) = {}
              /\ IsSlug(Slug(t))
           G == {t \in Seq(S) : Good(t)}
<1>1. <<>> \in G
  <2>1. LettersOf(<<>>) = {}
    BY DEF LettersOf
  <2>2. IsSlug(<<>>)
    BY DEF IsSlug
  <2>3. <<>> \in Seq(S)
    BY EmptySeq
  <2> QED
    BY <2>1, <2>2, <2>3, SlugEmpty, SlugParts
<1>2. ASSUME NEW t \in Seq(S), NEW c \in S, t \in G PROVE Append(t, c) \in G
  <2> DEFINE out == Slug(t)
             u == Append(t, c)
             m == Len(out)
  <2>1. out \in Seq({"-", "a"}) /\ (out = <<>> => LettersOf(t) = {}) /\ IsSlug(out)
    BY <1>2
  <2>2. m \in Nat /\ (\A i \in 1 .. m : out[i] \in {"-", "a"}) /\ DOMAIN out = 1 .. m
    BY <2>1, ElementOfSeq, LenProperties
  <2>3. u \in Seq(S)
    BY AppendProperties
  <2>4. Slug(u) = out \o (IF Letter(c) # "a" THEN <<>>
                          ELSE IF Len(t) \notin LettersOf(t) /\ LettersOf(t) # {} THEN <<"-", "a">>
                          ELSE <<"a">>)
    BY SlugAppend
  <2> HIDE DEF u, out, m
  <2>5. CASE Letter(c) # "a"
    <3>1. Slug(u) = out
      <4>1. Slug(u) = out \o <<>>
        BY <2>4, <2>5
      <4> QED
        BY <2>1, <4>1, ConcatEmptySeq
    <3>2. LettersOf(u) = LettersOf(t)
      <4>1. /\ DOMAIN u = 1 .. Len(t) + 1 /\ DOMAIN t = 1 .. Len(t) /\ Len(t) \in Nat
            /\ u[Len(t) + 1] = c /\ \A i \in 1 .. Len(t) : u[i] = t[i]
        BY AppendProperties, LenProperties DEF u
      <4>2. \A i \in 1 .. Len(t) + 1 : i \in 1 .. Len(t) \/ i = Len(t) + 1
        BY <4>1
      <4>3. 1 .. Len(t) \subseteq 1 .. Len(t) + 1
        BY <4>1
      <4> QED
        BY <2>5, <4>1, <4>2, <4>3 DEF LettersOf
    <3> QED
      BY <2>1, <2>3, <3>1, <3>2 DEF u
  <2>6. CASE Letter(c) = "a" /\ ~(Len(t) \notin LettersOf(t) /\ LettersOf(t) # {})
    <3>1. Slug(u) = Append(out, "a")
      <4>1. Slug(u) = out \o <<"a">>
        BY <2>4, <2>6
      <4> QED
        BY <2>1, <4>1, AppendIsConcat
    <3>2. /\ Slug(u) \in Seq({"-", "a"}) /\ Len(Slug(u)) = m + 1 /\ DOMAIN Slug(u) = 1 .. m + 1
          /\ Slug(u)[m + 1] = "a" /\ \A i \in 1 .. m : Slug(u)[i] = out[i]
      BY <2>1, <2>2, <3>1, AppendProperties, LenProperties DEF m
    <3>3. IsSlug(Slug(u))
      <4> SUFFICES ASSUME NEW i \in DOMAIN Slug(u), Slug(u)[i] = "-"
                   PROVE  i # 1 /\ i # Len(Slug(u)) /\ Slug(u)[i + 1] # "-"
        BY DEF IsSlug
      <4>1. i \in 1 .. m /\ out[i] = "-"
        BY <2>2, <3>2
      <4>2. i # 1 /\ i # m /\ out[i + 1] # "-"
        BY <2>1, <2>2, <4>1 DEF IsSlug, m
      <4>3. i + 1 \in 1 .. m /\ i # m + 1
        BY <2>2, <4>1, <4>2
      <4> QED
        BY <3>2, <4>2, <4>3
    <3>4. Slug(u) # <<>>
      BY <2>2, <3>2, EmptySeq
    <3> QED
      BY <2>3, <3>2, <3>3, <3>4 DEF u
  <2>7. CASE Letter(c) = "a" /\ Len(t) \notin LettersOf(t) /\ LettersOf(t) # {}
    <3>1. Slug(u) = Append(Append(out, "-"), "a")
      <4>1. Slug(u) = out \o <<"-", "a">>
        BY <2>4, <2>7
      <4>2. \A s \in Seq({"-", "a"}) : s \o <<"-", "a">> = Append(Append(s, "-"), "a")
        OBVIOUS
      <4> QED
        BY <2>1, <4>1, <4>2
    <3>2. /\ Append(out, "-") \in Seq({"-", "a"}) /\ Len(Append(out, "-")) = m + 1
          /\ Append(out, "-")[m + 1] = "-" /\ \A i \in 1 .. m : Append(out, "-")[i] = out[i]
      BY <2>1, <2>2, AppendProperties DEF m
    <3>3. /\ Slug(u) \in Seq({"-", "a"}) /\ Len(Slug(u)) = m + 2 /\ DOMAIN Slug(u) = 1 .. m + 2
          /\ Slug(u)[m + 2] = "a" /\ \A i \in 1 .. m + 1 : Slug(u)[i] = Append(out, "-")[i]
      <4>1. m + 1 + 1 = m + 2
        BY <2>2
      <4> QED
        BY <3>1, <3>2, <4>1, AppendProperties, LenProperties
    <3>4. /\ Slug(u)[m + 1] = "-" /\ \A i \in 1 .. m : Slug(u)[i] = out[i]
      BY <2>2, <3>2, <3>3
    <3>5. m # 0
      <4>1. out # <<>>
        BY <2>1, <2>7
      <4> QED
        BY <2>1, <4>1, EmptySeq DEF m
    <3>6. IsSlug(Slug(u))
      <4> SUFFICES ASSUME NEW i \in DOMAIN Slug(u), Slug(u)[i] = "-"
                   PROVE  i # 1 /\ i # Len(Slug(u)) /\ Slug(u)[i + 1] # "-"
        BY DEF IsSlug
      <4>1. CASE i = m + 1
        BY <2>2, <3>3, <3>5, <4>1
      <4>2. CASE i # m + 1
        <5>1. i \in 1 .. m /\ out[i] = "-"
          BY <2>2, <3>3, <3>4, <4>2
        <5>2. i # 1 /\ i # m /\ out[i + 1] # "-"
          BY <2>1, <2>2, <5>1 DEF IsSlug, m
        <5>3. i + 1 \in 1 .. m /\ i # m + 2
          BY <2>2, <5>1, <5>2
        <5> QED
          BY <3>3, <3>4, <5>2, <5>3
      <4> QED
        BY <4>1, <4>2
    <3>7. Slug(u) # <<>>
      BY <2>2, <3>3, EmptySeq
    <3> QED
      BY <2>3, <3>3, <3>6, <3>7 DEF u
  <2> QED
    BY <2>5, <2>6, <2>7
<1>3. Seq(S) \subseteq G
  <2> HIDE DEF G
  <2> QED
    BY <1>1, <1>2, ByAppending
<1> QED
  BY <1>3

\* The slug of a slug is itself. On the way there a dash waits for its letter.
LEMMA SlugOfSlug == ASSUME NEW out \in Seq({"-", "a"}), IsSlug(out) PROVE Slug(out) = out
<1> DEFINE S == {"-", "a"}
           Weak(t) == \A i \in 1 .. Len(t) : t[i] = "-" => i # 1 /\ (i < Len(t) => t[i + 1] # "-")
           Same(t) ==
              /\ t = <<>> => Slug(t) = t
              /\ t # <<>> /\ t[Len(t)] = "a" => Slug(t) = t
              /\ t # <<>> /\ t[Len(t)] = "-" => Append(Slug(t), "-") = t
           G == {t \in Seq(S) : Weak(t) => Same(t)}
<1>0. Letter("a") = "a" /\ Letter("-") # "a"
  BY DEF Letter
<1>1. <<>> \in G
  BY SlugEmpty, EmptySeq
<1>2. ASSUME NEW t \in Seq(S), NEW c \in S, t \in G PROVE Append(t, c) \in G
  <2> DEFINE u == Append(t, c)
             m == Len(t)
  <2>1. /\ u \in Seq(S) /\ Len(u) = m + 1 /\ m \in Nat /\ u # <<>>
        /\ u[m + 1] = c /\ \A i \in 1 .. m : u[i] = t[i]
    <3>1. /\ u \in Seq(S) /\ Len(u) = m + 1 /\ m \in Nat
          /\ u[m + 1] = c /\ \A i \in 1 .. m : u[i] = t[i]
      BY AppendProperties, LenProperties
    <3> QED
      BY <3>1, EmptySeq
  <2>2. (\A i \in 1 .. m : t[i] \in S) /\ DOMAIN t = 1 .. m
    BY ElementOfSeq, LenProperties
  <2>3. Slug(u) = Slug(t) \o (IF Letter(c) # "a" THEN <<>>
                              ELSE IF m \notin LettersOf(t) /\ LettersOf(t) # {} THEN <<"-", "a">>
                              ELSE <<"a">>)
    BY SlugAppend
  <2>4. Slug(t) \in Seq(S)
    BY SlugIs
  <2> HIDE DEF u, m
  <2> SUFFICES ASSUME Weak(u) PROVE Same(u)
    BY <2>1 DEF u
  <2>5. Weak(t) /\ (m = 0 => c # "-") /\ (m # 0 /\ t[m] = "-" => c # "-")
    <3>1. ASSUME NEW i \in 1 .. m, t[i] = "-"
          PROVE  i # 1 /\ (i < m => t[i + 1] # "-") /\ (i = m => c # "-")
      <4>1. i \in 1 .. Len(u) /\ u[i] = "-" /\ i < Len(u) /\ i \in Nat
        BY <2>1, <3>1
      <4>2. i # 1 /\ u[i + 1] # "-"
        BY <4>1
      <4>3. i < m => i + 1 \in 1 .. m
        BY <2>1, <4>1
      <4> QED
        BY <2>1, <4>2, <4>3
    <3>2. m = 0 => c # "-"
      <4>1. m = 0 => 1 \in 1 .. Len(u) /\ u[1] = c
        BY <2>1
      <4> QED
        BY <4>1
    <3> QED
      BY <2>1, <3>1, <3>2 DEF m
  <2>6. Same(t)
    BY <1>2, <2>5
  <2>7. m = 0 <=> t = <<>>
    BY EmptySeq DEF m
  <2>8. m # 0 => t[1] = "a" /\ 1 \in LettersOf(t)
    <3> SUFFICES ASSUME m # 0 PROVE t[1] = "a" /\ 1 \in LettersOf(t)
      OBVIOUS
    <3>1. 1 \in 1 .. m /\ t[1] \in S
      BY <2>1, <2>2
    <3>2. t[1] # "-"
      BY <2>5, <3>1 DEF m
    <3>3. t[1] = "a"
      BY <3>1, <3>2
    <3> QED
      BY <1>0, <2>2, <3>1, <3>3 DEF LettersOf
  <2>9. CASE c = "-"
    <3>1. m # 0 /\ t[m] = "a"
      <4>1. m # 0 /\ t[m] # "-"
        BY <2>5, <2>9
      <4>2. m \in 1 .. m
        BY <2>1, <4>1
      <4> QED
        BY <2>2, <4>1, <4>2
    <3>2. Slug(t) = t
      BY <2>6, <2>7, <3>1 DEF m
    <3>3. Slug(u) = t
      <4>1. Slug(u) = t \o <<>>
        BY <1>0, <2>3, <2>9, <3>2
      <4> QED
        BY <4>1, ConcatEmptySeq
    <3>4. Append(Slug(u), "-") = u
      BY <2>9, <3>3 DEF u
    <3>5. u # <<>> /\ u[Len(u)] = "-"
      BY <2>1, <2>9
    <3> QED
      BY <3>4, <3>5
  <2>10. CASE c = "a" /\ (m = 0 \/ t[m] = "a")
    <3>1. m = 0 => LettersOf(t) = {}
      BY <2>2 DEF LettersOf
    <3>2. m # 0 => m \in LettersOf(t)
      <4>1. m # 0 => m \in 1 .. m
        BY <2>1
      <4> QED
        BY <1>0, <2>2, <2>10, <4>1 DEF LettersOf
    <3>3. Slug(t) = t
      BY <2>6, <2>7, <2>10 DEF m
    <3>4. Slug(u) = t \o <<"a">>
      BY <1>0, <2>3, <2>10, <3>1, <3>2, <3>3
    <3>5. Slug(u) = u
      BY <2>10, <3>4, AppendIsConcat DEF u
    <3>6. u # <<>> /\ u[Len(u)] = "a"
      BY <2>1, <2>10
    <3> QED
      BY <3>5, <3>6
  <2>11. CASE c = "a" /\ m # 0 /\ t[m] = "-"
    <3>1. m \notin LettersOf(t) /\ LettersOf(t) # {}
      BY <1>0, <2>8, <2>11 DEF LettersOf
    <3>2. Append(Slug(t), "-") = t
      BY <2>6, <2>7, <2>11 DEF m
    <3>3. Slug(u) = Slug(t) \o <<"-", "a">>
      BY <1>0, <2>3, <2>11, <3>1
    <3>4. \A s \in Seq({"-", "a"}) : s \o <<"-", "a">> = Append(Append(s, "-"), "a")
      OBVIOUS
    <3>5. Slug(u) = Append(Append(Slug(t), "-"), "a")
      BY <2>4, <3>3, <3>4
    <3>6. Slug(u) = u
      BY <2>11, <3>2, <3>5 DEF u
    <3>7. u # <<>> /\ u[Len(u)] = "a"
      BY <2>1, <2>11
    <3> QED
      BY <3>6, <3>7
  <2>12. m # 0 => t[m] \in S
    <3>1. m # 0 => m \in 1 .. m
      BY <2>1
    <3> QED
      BY <2>2, <3>1
  <2> QED
    BY <2>9, <2>10, <2>11, <2>12
<1>3. Seq(S) \subseteq G
  <2> HIDE DEF G
  <2> QED
    BY <1>1, <1>2, ByAppending
<1>4. Len(out) \in Nat /\ DOMAIN out = 1 .. Len(out) /\ \A i \in 1 .. Len(out) : out[i] \in S
  BY LenProperties, ElementOfSeq
<1>5. Weak(out)
  BY <1>4 DEF IsSlug
<1>6. out # <<>> => out[Len(out)] = "a"
  <2> SUFFICES ASSUME out # <<>> PROVE out[Len(out)] = "a"
    OBVIOUS
  <2>1. Len(out) \in 1 .. Len(out)
    BY <1>4, EmptySeq
  <2>2. out[Len(out)] # "-"
    BY <1>4, <2>1 DEF IsSlug
  <2> QED
    BY <1>4, <2>1, <2>2
<1> QED
  BY <1>3, <1>5, <1>6

-----------------------------------------------------------------------------
(* Dialogs: what is trimmed stays trimmed.                                   *)

LEMMA TrimmedTwice ==
    ASSUME NEW S, NEW text \in Seq(S)
    PROVE  Trimmed(text) \in Seq(S) /\ Trimmed(Trimmed(text)) = Trimmed(text)
<1> DEFINE ink(t) == {i \in DOMAIN t : t[i] # "sp"}
           lo(t) == CHOOSE i \in ink(t) : \A j \in ink(t) : i <= j
           hi(t) == CHOOSE i \in ink(t) : \A j \in ink(t) : j <= i
<1>1. \A t : Trimmed(t) = IF ink(t) = {} THEN <<>> ELSE SubSeq(t, lo(t), hi(t))
  BY DEF Trimmed
<1>2. ASSUME NEW t \in Seq(S), ink(t) # {}
      PROVE  /\ lo(t) \in ink(t) /\ hi(t) \in ink(t)
             /\ \A j \in ink(t) : lo(t) <= j /\ j <= hi(t)
             /\ 1 <= lo(t) /\ lo(t) <= hi(t) /\ hi(t) <= Len(t)
             /\ lo(t) \in Nat /\ hi(t) \in Nat /\ Len(t) \in Nat
             /\ SubSeq(t, lo(t), hi(t)) \in Seq(S)
             /\ Len(SubSeq(t, lo(t), hi(t))) = hi(t) - lo(t) + 1
             /\ \A i \in 1 .. hi(t) - lo(t) + 1 : SubSeq(t, lo(t), hi(t))[i] = t[lo(t) + i - 1]
  <2>1. ink(t) \in SUBSET (1 .. Len(t)) /\ Len(t) \in Nat
    BY LenProperties
  <2>2. \E i \in ink(t) : \A j \in ink(t) : i <= j
    <3>1. ink(t) \in SUBSET Nat
      BY <2>1
    <3> HIDE DEF ink
    <3> QED
      BY <1>2, <3>1, Least
  <2>3. \E i \in ink(t) : \A j \in ink(t) : j <= i
    <3> DEFINE n == Len(t)
               T == {n - i : i \in ink(t)}
    <3>1. T \in SUBSET Nat /\ T # {}
      <4> HIDE DEF ink
      <4> QED
        BY <1>2, <2>1
    <3>2. PICK k \in T : \A l \in T : k <= l
      <4> HIDE DEF T
      <4> QED
        BY <3>1, Least
    <3>3. PICK i \in ink(t) : k = n - i
      OBVIOUS
    <3>4. ASSUME NEW j \in ink(t) PROVE j <= i
      <4>1. n - i <= n - j
        BY <3>2, <3>3
      <4>2. i \in Nat /\ j \in Nat /\ n \in Nat
        BY <2>1
      <4> QED
        BY <4>1, <4>2
    <3> QED
      BY <3>4
  <2> HIDE DEF ink
  <2>4. /\ lo(t) \in ink(t) /\ hi(t) \in ink(t)
        /\ \A j \in ink(t) : lo(t) <= j /\ j <= hi(t)
    BY <2>2, <2>3
  <2>5. lo(t) \in 1 .. Len(t) /\ hi(t) \in 1 .. Len(t)
    BY <2>1, <2>4
  <2> HIDE DEF lo, hi
  <2>6. /\ 1 <= lo(t) /\ lo(t) <= hi(t) /\ hi(t) <= Len(t)
        /\ lo(t) \in Nat /\ hi(t) \in Nat
    BY <2>1, <2>4, <2>5
  <2>7. \A i \in lo(t) .. hi(t) : t[i] \in S
    <3>1. \A i \in 1 .. Len(t) : t[i] \in S
      BY ElementOfSeq
    <3> QED
      BY <2>1, <2>6, <3>1
  <2>8. /\ SubSeq(t, lo(t), hi(t)) \in Seq(S)
        /\ Len(SubSeq(t, lo(t), hi(t))) = hi(t) - lo(t) + 1
        /\ \A i \in 1 .. hi(t) - lo(t) + 1 : SubSeq(t, lo(t), hi(t))[i] = t[lo(t) + i - 1]
    <3>1. lo(t) \in Int /\ hi(t) \in Int
      BY <2>6
    <3> QED
      BY <2>6, <2>7, <3>1, SubSeqProperties
  <2> QED
    BY <2>1, <2>4, <2>6, <2>8
<1> DEFINE out == Trimmed(text)
<1>3. CASE ink(text) = {}
  <2>1. out = <<>> /\ out \in Seq(S)
    BY <1>1, <1>3, EmptySeq
  <2>2. ink(<<>>) = {}
    OBVIOUS
  <2>3. Trimmed(<<>>) = <<>>
    BY <1>1, <2>2
  <2> QED
    BY <2>1, <2>3
<1>4. CASE ink(text) # {}
  <2> DEFINE a == lo(text)
             z == hi(text)
             n == z - a + 1
  <2> HIDE DEF lo, hi
  <2>1. /\ a \in ink(text) /\ z \in ink(text)
        /\ 1 <= a /\ a <= z /\ a \in Nat /\ z \in Nat
        /\ out \in Seq(S) /\ Len(out) = n /\ \A i \in 1 .. n : out[i] = text[a + i - 1]
    BY <1>1, <1>2, <1>4
  <2>2. n \in Nat /\ 1 \in 1 .. n /\ n \in 1 .. n /\ a + 1 - 1 = a /\ a + n - 1 = z
    BY <2>1
  <2>3. text[a] # "sp" /\ text[z] # "sp"
    BY <2>1
  <2>4. DOMAIN out = 1 .. n
    BY <2>1, LenProperties
  <2> HIDE DEF a, z, n, out
  <2>5. out[1] # "sp" /\ out[n] # "sp"
    BY <2>1, <2>2, <2>3
  <2>6. 1 \in ink(out) /\ n \in ink(out) /\ ink(out) \subseteq 1 .. n
    BY <2>2, <2>4, <2>5
  <2> HIDE DEF ink
  <2>7. /\ lo(out) \in ink(out) /\ hi(out) \in ink(out)
        /\ \A j \in ink(out) : lo(out) <= j /\ j <= hi(out)
    BY <1>2, <2>1, <2>6
  <2>8. lo(out) = 1 /\ hi(out) = n
    <3>1. lo(out) <= 1 /\ n <= hi(out) /\ lo(out) \in 1 .. n /\ hi(out) \in 1 .. n
      BY <2>6, <2>7
    <3> QED
      BY <2>2, <3>1
  <2>9. Trimmed(out) = SubSeq(out, 1, Len(out))
    BY <1>1, <2>1, <2>6, <2>8
  <2>10. SubSeq(out, 1, Len(out)) = out
    <3> DEFINE r == SubSeq(out, 1, Len(out))
    <3>1. /\ r \in Seq(S) /\ Len(r) = n - 1 + 1
          /\ \A i \in 1 .. n - 1 + 1 : r[i] = out[1 + i - 1]
      <4>1. lo(out) = 1 /\ hi(out) = Len(out)
        BY <2>1, <2>8
      <4> QED
        BY <1>2, <2>1, <2>6, <4>1
    <3>2. n - 1 + 1 = n /\ \A i \in 1 .. n : 1 + i - 1 = i
      BY <2>2
    <3> HIDE DEF r
    <3>3. Len(r) = Len(out) /\ \A i \in 1 .. Len(out) : r[i] = out[i]
      BY <2>1, <3>1, <3>2
    <3>4. r = out
      BY <2>1, <3>1, <3>3, SeqEqual
    <3> QED
      BY <3>4 DEF r
  <2> QED
    BY <2>1, <2>9, <2>10 DEF out
<1> QED
  BY <1>3, <1>4

-----------------------------------------------------------------------------
(* Dialogs: the invariant.                                                   *)

Sheets == [edits : BOOLEAN, enabled : BOOLEAN, choosing : BOOLEAN, taken : SUBSET FieldTexts]
DraftTests == [endpoint : FieldTexts, transport : ToSet(Transports), key : FieldTexts, form : Nat]

\* A test of what is in the form.
OfDraft(tested) ==
    /\ tested.endpoint = filled.endpoint /\ tested.transport = filled.transport
    /\ tested.key = Trimmed(filled.key)

FormTypes ==
    /\ sheet \in Sheets /\ filled \in Drafts
    /\ idEdited \in BOOLEAN /\ outrun \in BOOLEAN
    /\ focus \in 1 .. 5 /\ presetAt \in 0 .. Len(Presets)
    /\ forms \in Nat
    /\ flying \in Seq(DraftTests) /\ \A i \in DOMAIN flying : flying[i].form <= forms

\* While a preset is chosen nothing of this form was tested, refused or saved.
ChoosingTrue == sheet.choosing => fault = Nothing /\ Own = {} /\ saved = Nothing

\* Every test of this form that is under way, and the result of one that is over,
\* is of the draft as it stands, unless it was outrun.
DraftTrue ==
    /\ ~idEdited => filled.id = Slug(filled.name)
    /\ fault # Nothing => Problem(filled, sheet.taken) = fault
    /\ ~outrun => \A i \in Own : OfDraft(flying[i])
    /\ ~outrun /\ OwnResult => OfDraft(probe)

SavedTrue ==
    /\ opened => saved = Nothing
    /\ saved # Nothing =>
        /\ Problem(filled, sheet.taken) = Nothing
        /\ saved.id = Trimmed(filled.id) /\ saved.endpoint = Trimmed(filled.endpoint)
        /\ saved.key = Trimmed(filled.key)
        /\ sheet.edits => saved.enabled = sheet.enabled

FInv == FormTypes /\ ChoosingTrue /\ DraftTrue /\ SavedTrue

MInv ==
    /\ menu \in [dangerous : BOOLEAN, selected : Nat]
    /\ menu.selected < Len(Options(menu.dangerous))
    /\ answer # Nothing /\ menu.dangerous => answer.kind \in {"once", "deny", "deny project"}

RInv ==
    /\ review \in [length : Nat, height : Nat, scroll : Nat, drawn : BOOLEAN]
    /\ ReviewHolds

DInv == FInv /\ MInv /\ RInv

LEMMA TrimmedText == ASSUME NEW text \in FieldTexts PROVE Trimmed(text) \in FieldTexts /\ Trimmed(Trimmed(text)) = Trimmed(text)
  BY TrimmedTwice DEF FieldTexts

LEMMA SlugText == ASSUME NEW text \in FieldTexts PROVE Slug(text) \in FieldTexts
<1>1. Slug(text) \in Seq({"-", "a"})
  BY SlugIs DEF FieldTexts
<1>2. Seq({"-", "a"}) \subseteq FieldTexts
  BY DEF FieldTexts
<1> QED
  BY <1>1, <1>2

\* Every form that is opened is typed, and its id follows its name.
LEMMA OpeningsTyped ==
    ASSUME NEW opening \in Openings
    PROVE  /\ opening.sheet \in Sheets /\ opening.filled \in Drafts /\ opening.idEdited \in BOOLEAN
           /\ ~opening.idEdited => opening.filled.id = Slug(opening.filled.name)
<1>1. <<>> \in FieldTexts
  BY EmptySeq DEF FieldTexts
<1>2. \A i \in DOMAIN Presets : Presets[i] \in Drafts
  BY DialogConstants, LenProperties, ElementOfSeq
<1>3. Transports[1] \in ToSet(Transports)
  <2>1. 1 \in DOMAIN Transports
    <3>1. Transports \in Seq(ToSet(Transports)) /\ Transports # <<>>
      BY DialogConstants
    <3>2. Len(Transports) \in Nat /\ Len(Transports) # 0 /\ DOMAIN Transports = 1 .. Len(Transports)
      BY <3>1, EmptySeq, LenProperties
    <3> QED
      BY <3>2
  <2> QED
    BY <2>1 DEF ToSet
<1>4. Blank \in Drafts /\ Blank.id = Slug(Blank.name)
  BY <1>1, <1>3, SlugEmpty DEF Blank, Drafts
<1>5. \A ids \in Taken : ids \in SUBSET FieldTexts
  BY DialogConstants
<1>6. CASE \E ids \in Taken :
             opening = [sheet |-> [edits |-> FALSE, enabled |-> TRUE, choosing |-> TRUE, taken |-> ids],
                        filled |-> Blank, idEdited |-> FALSE]
  BY <1>4, <1>5, <1>6 DEF Sheets
<1>7. CASE \E enabled \in BOOLEAN, i \in DOMAIN Presets, ids \in Taken :
             opening = [sheet |-> [edits |-> TRUE, enabled |-> enabled, choosing |-> FALSE, taken |-> ids \ {Presets[i].id}],
                        filled |-> Presets[i], idEdited |-> TRUE]
  BY <1>2, <1>5, <1>7 DEF Sheets
<1>8. \/ \E ids \in Taken :
          opening = [sheet |-> [edits |-> FALSE, enabled |-> TRUE, choosing |-> TRUE, taken |-> ids],
                     filled |-> Blank, idEdited |-> FALSE]
      \/ \E enabled \in BOOLEAN, i \in DOMAIN Presets, ids \in Taken :
          opening = [sheet |-> [edits |-> TRUE, enabled |-> enabled, choosing |-> FALSE, taken |-> ids \ {Presets[i].id}],
                     filled |-> Presets[i], idEdited |-> TRUE]
  BY DEF Openings
<1> QED
  BY <1>6, <1>7, <1>8

LEMMA FormStarts == FormInit => FInv
<1> SUFFICES ASSUME FormInit PROVE FInv
  OBVIOUS
<1>1. <<>> \in Seq(DraftTests) /\ DOMAIN <<>> = {}
  BY EmptySeq
<1>2. Len(Presets) \in Nat
  BY DialogConstants, LenProperties
<1>3. sheet \in Sheets /\ filled \in Drafts /\ idEdited \in BOOLEAN
      /\ (~idEdited => filled.id = Slug(filled.name))
  BY OpeningsTyped DEF FormInit
<1>4. /\ focus = 1 /\ presetAt = 0 /\ fault = Nothing /\ probe = Nothing /\ flying = <<>>
      /\ outrun = FALSE /\ forms = 1 /\ saved = Nothing
  BY DEF FormInit
<1>5. FormTypes
  <2>1. 0 \in 0 .. Len(Presets) /\ 1 \in 1 .. 5 /\ 1 \in Nat
    BY <1>2
  <2> QED
    BY <1>1, <1>3, <1>4, <2>1 DEF FormTypes
<1>6. Own = {}
  BY <1>1, <1>4 DEF Own
<1>7. ChoosingTrue /\ SavedTrue
  BY <1>4, <1>6 DEF ChoosingTrue, SavedTrue
<1>8. DraftTrue
  BY <1>3, <1>4, <1>6 DEF DraftTrue, OwnResult
<1> QED
  BY <1>5, <1>7, <1>8 DEF FInv

\* A form that is opened has started no test yet; one that is closed stays as it was.
LEMMA OpeningSteps ==
    ASSUME FInv, CloseForm \/ OpenForm
    PROVE  FInv'
<1>1. CASE CloseForm
  <2>1. /\ opened' = FALSE
        /\ UNCHANGED <<sheet, filled, idEdited, focus, presetAt, fault, probe, flying, outrun, forms, saved>>
    BY <1>1 DEF CloseForm
  <2> QED
    BY <2>1 DEF FInv, FormTypes, ChoosingTrue, DraftTrue, SavedTrue, OfDraft, Own, OwnResult
<1>2. CASE OpenForm
  <2>1. /\ focus' = 1 /\ presetAt' = 0 /\ fault' = Nothing /\ probe' = Nothing /\ saved' = Nothing
        /\ outrun' = FALSE /\ flying' = flying /\ forms' = forms + 1
    BY <1>2 DEF OpenForm
  <2>2. /\ sheet' \in Sheets /\ filled' \in Drafts /\ idEdited' \in BOOLEAN
        /\ (~idEdited' => filled'.id = Slug(filled'.name))
    BY <1>2, OpeningsTyped DEF OpenForm
  <2>3. /\ forms \in Nat /\ flying \in Seq(DraftTests)
        /\ \A i \in DOMAIN flying : flying[i].form \in Nat /\ flying[i].form <= forms
    <3>1. \A i \in DOMAIN flying : flying[i] \in DraftTests
      BY LenProperties, ElementOfSeq DEF FInv, FormTypes
    <3> QED
      BY <3>1 DEF FInv, FormTypes, DraftTests
  <2>4. \A i \in DOMAIN flying : flying[i].form <= forms + 1 /\ flying[i].form # forms + 1
    BY <2>3
  <2>5. Own' = {}
    BY <2>1, <2>4 DEF Own
  <2>6. FormTypes'
    <3>1. Len(Presets) \in Nat
      BY DialogConstants, LenProperties
    <3>2. 0 \in 0 .. Len(Presets) /\ 1 \in 1 .. 5 /\ forms + 1 \in Nat
      BY <2>3, <3>1
    <3>3. \A i \in DOMAIN flying' : flying'[i].form <= forms'
      BY <2>1, <2>4
    <3>4. FALSE \in BOOLEAN
      OBVIOUS
    <3> QED
      BY <2>1, <2>2, <2>3, <3>2, <3>3, <3>4 DEF FormTypes
  <2> QED
    BY <2>1, <2>2, <2>5, <2>6 DEF FInv, ChoosingTrue, DraftTrue, SavedTrue, OwnResult
<1> QED
  BY <1>1, <1>2

\* A step that leaves the form's fields and what they are compared with alone.
LEMMA ChoosingSteps ==
    ASSUME FInv, PresetMove \/ ChoosePreset \/ MoveFocus
    PROVE  FInv'
<1>1. Len(Presets) \in Nat /\ DOMAIN Presets = 1 .. Len(Presets) /\ \A i \in 1 .. Len(Presets) : Presets[i] \in Drafts
  BY DialogConstants, LenProperties, ElementOfSeq
<1>2. CASE PresetMove
  <2>1. presetAt' \in 0 .. Len(Presets)
    <3>1. \A n \in Nat : \A i \in 0 .. n : (i + 1) % (n + 1) \in 0 .. n /\ (i + n) % (n + 1) \in 0 .. n
      OBVIOUS
    <3> QED
      BY <1>1, <1>2, <3>1 DEF PresetMove, FInv, FormTypes
  <2>2. UNCHANGED <<opened, sheet, filled, idEdited, focus, fault, probe, flying, outrun, forms, saved>>
    BY <1>2 DEF PresetMove
  <2> QED
    BY <2>1, <2>2 DEF FInv, FormTypes, ChoosingTrue, DraftTrue, SavedTrue, OfDraft, Own, OwnResult
<1>3. CASE MoveFocus
  <2>1. focus' \in 1 .. 5
    <3>1. \A i \in 1 .. 5 : (i % 5) + 1 \in 1 .. 5 /\ ((i + 3) % 5) + 1 \in 1 .. 5
      OBVIOUS
    <3> QED
      BY <1>3, <3>1 DEF MoveFocus, FInv, FormTypes
  <2>2. UNCHANGED <<opened, sheet, filled, idEdited, presetAt, fault, probe, flying, outrun, forms, saved>>
    BY <1>3 DEF MoveFocus
  <2> QED
    BY <2>1, <2>2 DEF FInv, FormTypes, ChoosingTrue, DraftTrue, SavedTrue, OfDraft, Own, OwnResult
<1>4. CASE ChoosePreset
  <2>1. /\ sheet' = [sheet EXCEPT !.choosing = FALSE] /\ sheet.choosing
        /\ focus' = 1 /\ probe' = Nothing /\ saved = Nothing /\ fault = Nothing /\ Own = {}
        /\ UNCHANGED <<opened, presetAt, fault, flying, outrun, forms, saved>>
    BY <1>4 DEF ChoosePreset, FInv, ChoosingTrue
  <2>2. sheet' \in Sheets /\ ~sheet'.choosing
    BY <2>1 DEF FInv, FormTypes, Sheets
  <2>3. filled' \in Drafts /\ idEdited' \in BOOLEAN /\ (~idEdited' => filled'.id = Slug(filled'.name))
    <3>1. CASE presetAt = Len(Presets)
      BY <1>4, <3>1 DEF ChoosePreset, FInv, FormTypes, DraftTrue
    <3>2. CASE presetAt # Len(Presets)
      <4> DEFINE preset == Presets[presetAt + 1]
      <4>1. preset \in Drafts
        <5>1. presetAt + 1 \in 1 .. Len(Presets)
          <6>1. \A n \in Nat : \A i \in 0 .. n : i # n => i + 1 \in 1 .. n
            OBVIOUS
          <6>2. presetAt \in 0 .. Len(Presets)
            BY DEF FInv, FormTypes
          <6> QED
            BY <1>1, <3>2, <6>1, <6>2
        <5> QED
          BY <1>1, <5>1
      <4>2. filled' = [preset EXCEPT !.id = Slug(preset.name)] /\ idEdited' = FALSE
        BY <1>4, <3>2 DEF ChoosePreset
      <4>3. Slug(preset.name) \in FieldTexts
        BY <4>1, SlugText DEF Drafts
      <4> QED
        BY <4>1, <4>2, <4>3 DEF Drafts
    <3> QED
      BY <3>1, <3>2
  <2>4. FormTypes'
    <3>1. 1 \in 1 .. 5
      OBVIOUS
    <3> QED
      BY <2>1, <2>2, <2>3, <3>1 DEF FInv, FormTypes
  <2>5. Own' = {}
    BY <2>1 DEF Own
  <2> QED
    BY <2>1, <2>2, <2>3, <2>4, <2>5 DEF FInv, ChoosingTrue, DraftTrue, SavedTrue, OwnResult
<1> QED
  BY <1>2, <1>3, <1>4

\* An edit takes the error and the result away; what is still under way is outrun.
LEMMA EditingSteps ==
    ASSUME FInv, EditField \/ ToggleTransport
    PROVE  FInv'
<1>1. /\ Filling /\ fault' = Nothing /\ probe' = Nothing
      /\ outrun' = (outrun \/ Own # {})
      /\ UNCHANGED <<opened, sheet, focus, presetAt, flying, forms, saved>>
  BY DEF EditField, ToggleTransport, Dirty
<1>2. filled' \in Drafts /\ idEdited' \in BOOLEAN /\ (~idEdited' => filled'.id = Slug(filled'.name))
  <2>1. CASE EditField
    <3> DEFINE field == Fields[focus]
               typed(text) == {Append(text, c) : c \in Chars} \union {IF text = <<>> THEN text ELSE Front(text)}
    <3>1. CASE field \notin TextFields
      BY <2>1, <3>1 DEF EditField, FInv, FormTypes, DraftTrue
    <3>2. CASE field \in TextFields
      <4>1. field \in {"name", "id", "endpoint", "key"}
        BY <3>2 DEF TextFields
      <4> HIDE DEF field
      <4>2. filled[field] \in FieldTexts /\ filled \in Drafts
        BY <4>1 DEF FInv, FormTypes, Drafts
      <4>3. ASSUME NEW text \in typed(filled[field]) PROVE text \in FieldTexts
        <5>1. \A c \in Chars : Append(filled[field], c) \in FieldTexts
          BY <4>2, AppendProperties DEF FieldTexts
        <5>2. filled[field] # <<>> => Front(filled[field]) \in FieldTexts
          BY <4>2, FrontLast DEF FieldTexts
        <5> QED
          BY <4>2, <4>3, <5>1, <5>2
      <4>4. PICK text \in typed(filled[field]) :
               /\ idEdited' = (idEdited \/ field = "id")
               /\ filled' = IF field = "name" /\ ~idEdited
                            THEN [filled EXCEPT !.name = text, !.id = Slug(text)]
                            ELSE [filled EXCEPT ![field] = text]
        BY <2>1, <3>2, Zenon DEF EditField, field
      <4>5. text \in FieldTexts /\ Slug(text) \in FieldTexts
        BY <4>3, SlugText
      <4>6. idEdited \in BOOLEAN /\ (~idEdited => filled.id = Slug(filled.name))
        BY DEF FInv, FormTypes, DraftTrue
      <4> HIDE DEF typed
      <4>7. CASE field = "name" /\ ~idEdited
        <5>1. filled' = [filled EXCEPT !.name = text, !.id = Slug(text)] /\ idEdited' \in BOOLEAN
          BY <4>4, <4>6, <4>7
        <5> QED
          BY <4>2, <4>5, <5>1 DEF Drafts
      <4>8. CASE ~(field = "name" /\ ~idEdited)
        <5>1. filled' = [filled EXCEPT ![field] = text] /\ idEdited' \in BOOLEAN
          BY <4>4, <4>6, <4>8
        <5>2. filled' \in Drafts
          BY <4>1, <4>2, <4>5, <5>1 DEF Drafts
        <5>3. ASSUME ~idEdited' PROVE filled'.id = filled.id /\ filled'.name = filled.name /\ ~idEdited
          <6>1. ~idEdited /\ field # "id" /\ field # "name"
            BY <4>4, <4>6, <4>8, <5>3
          <6> QED
            BY <4>2, <5>1, <6>1 DEF Drafts
        <5> QED
          BY <4>6, <5>1, <5>2, <5>3
      <4> QED
        BY <4>7, <4>8
    <3> QED
      BY <3>1, <3>2
  <2>2. CASE ToggleTransport
    <3> DEFINE place == CHOOSE i \in DOMAIN Transports : Transports[i] = filled.transport
               n == Len(Transports)
    <3>1. n \in Nat /\ DOMAIN Transports = 1 .. n
      BY DialogConstants, LenProperties
    <3>2. place \in 1 .. n
      <4>1. \E i \in DOMAIN Transports : Transports[i] = filled.transport
        BY DEF FInv, FormTypes, Drafts, ToSet
      <4> QED
        BY <3>1, <4>1
    <3>3. filled' = [filled EXCEPT !.transport = Transports[(place % n) + 1]] /\ idEdited' = idEdited
      BY <2>2 DEF ToggleTransport
    <3> HIDE DEF place, n
    <3>4. (place % n) + 1 \in 1 .. n
      BY <3>1, <3>2
    <3>5. Transports[(place % n) + 1] \in ToSet(Transports)
      BY <3>1, <3>4 DEF ToSet
    <3> QED
      BY <3>3, <3>5 DEF FInv, FormTypes, DraftTrue, Drafts
  <2> QED
    BY <2>1, <2>2
<1>3. FormTypes'
  BY <1>1, <1>2 DEF FInv, FormTypes
<1>4. ~sheet.choosing /\ saved = Nothing
  BY <1>1 DEF Filling, FInv, SavedTrue
<1>5. ~outrun' => Own' = {}
  BY <1>1 DEF Own
<1> QED
  BY <1>1, <1>2, <1>3, <1>4, <1>5 DEF FInv, ChoosingTrue, DraftTrue, SavedTrue, OwnResult

\* A test keeps what it was started with; a result is one of them.
LEMMA TestingSteps ==
    ASSUME FInv, TestDraft \/ ResultLands
    PROVE  FInv'
<1>1. UNCHANGED <<opened, sheet, filled, idEdited, focus, presetAt, fault, outrun, forms, saved>>
  BY DEF TestDraft, ResultLands
<1>2. /\ flying \in Seq(DraftTests) /\ Len(flying) \in Nat /\ DOMAIN flying = 1 .. Len(flying)
      /\ forms \in Nat
  BY LenProperties DEF FInv, FormTypes
<1>3. /\ flying' \in Seq(DraftTests) /\ (\A i \in DOMAIN flying' : flying'[i].form <= forms)
      /\ (sheet.choosing => \A i \in DOMAIN flying' : flying'[i].form # forms)
      /\ (~outrun => \A i \in DOMAIN flying' : flying'[i].form = forms => OfDraft(flying'[i]))
      /\ (~outrun /\ probe' \notin {Nothing, Testing} /\ probe'.form = forms => OfDraft(probe'))
  <2>1. CASE TestDraft
    <3> DEFINE new == [endpoint |-> filled.endpoint, transport |-> filled.transport,
                       key |-> Trimmed(filled.key), form |-> forms]
    <3>1. new \in DraftTests /\ OfDraft(new) /\ new.form = forms
      <4>1. filled \in Drafts
        BY DEF FInv, FormTypes
      <4>2. Trimmed(filled.key) \in FieldTexts
        BY <4>1, TrimmedText DEF Drafts
      <4> QED
        BY <1>2, <4>1, <4>2 DEF Drafts, DraftTests, OfDraft
    <3>2. flying' = Append(flying, new) /\ probe' = Testing /\ ~sheet.choosing
      BY <2>1 DEF TestDraft, Filling
    <3> HIDE DEF new
    <3>3. /\ flying' \in Seq(DraftTests) /\ DOMAIN flying' = 1 .. Len(flying) + 1
          /\ flying'[Len(flying) + 1] = new /\ \A i \in 1 .. Len(flying) : flying'[i] = flying[i]
      BY <1>2, <3>1, <3>2, AppendProperties, LenProperties
    <3>4. /\ \A i \in 1 .. Len(flying) : flying[i].form <= forms
          /\ ~outrun => \A i \in 1 .. Len(flying) : flying[i].form = forms => OfDraft(flying[i])
      BY <1>2 DEF FInv, FormTypes, DraftTrue, Own
    <3>5. ASSUME NEW i \in DOMAIN flying'
          PROVE  /\ flying'[i].form <= forms
                 /\ ~outrun /\ flying'[i].form = forms => OfDraft(flying'[i])
      <4>1. i \in 1 .. Len(flying) \/ i = Len(flying) + 1
        BY <1>2, <3>3
      <4>2. forms <= forms
        BY <1>2
      <4> QED
        BY <3>1, <3>3, <3>4, <4>1, <4>2
    <3> QED
      BY <3>2, <3>3, <3>5
  <2>2. CASE ResultLands
    <3>1. PICK place \in DOMAIN flying :
             flying' = RemoveAt(flying, place) /\ probe' = IF opened THEN flying[place] ELSE probe
      BY <2>2 DEF ResultLands
    <3>2. /\ flying' \in Seq(DraftTests) /\ \A i \in DOMAIN flying' : \E j \in DOMAIN flying : flying'[i] = flying[j]
      <4>1. flying' = SubSeq(flying, 1, place - 1) \o SubSeq(flying, place + 1, Len(flying))
        BY <3>1 DEF RemoveAt
      <4>2. place \in 1 .. Len(flying) /\ place - 1 \in Int /\ place + 1 \in Int /\ 1 \in Int /\ Len(flying) \in Int
        BY <1>2
      <4>3. \A i \in 1 .. Len(flying) : flying[i] \in DraftTests
        BY <1>2, ElementOfSeq
      <4> DEFINE low == SubSeq(flying, 1, place - 1)
                 high == SubSeq(flying, place + 1, Len(flying))
      <4>4. low \in Seq(DraftTests) /\ Len(low) = place - 1 /\ \A i \in 1 .. place - 1 : low[i] = flying[i]
        <5>1. \A i \in 1 .. place - 1 : flying[i] \in DraftTests
          BY <1>2, <4>2, <4>3
        <5>2. /\ low \in Seq(DraftTests) /\ Len(low) = IF 1 <= place - 1 THEN (place - 1) - 1 + 1 ELSE 0
              /\ \A i \in 1 .. (place - 1) - 1 + 1 : low[i] = flying[1 + i - 1]
          BY <1>2, <4>2, <5>1, SubSeqProperties
        <5> HIDE DEF low
        <5>3. (place - 1) - 1 + 1 = place - 1 /\ (~(1 <= place - 1) => place - 1 = 0) /\ \A i \in 1 .. place - 1 : 1 + i - 1 = i
          BY <1>2, <4>2
        <5> QED
          BY <5>2, <5>3
      <4>5. high \in Seq(DraftTests) /\ Len(high) = Len(flying) - place
            /\ \A i \in 1 .. Len(flying) - place : high[i] = flying[place + i]
        <5>1. \A i \in place + 1 .. Len(flying) : flying[i] \in DraftTests
          BY <1>2, <4>2, <4>3
        <5>2. /\ high \in Seq(DraftTests) /\ Len(high) = IF place + 1 <= Len(flying) THEN Len(flying) - (place + 1) + 1 ELSE 0
              /\ \A i \in 1 .. Len(flying) - (place + 1) + 1 : high[i] = flying[place + 1 + i - 1]
          BY <1>2, <4>2, <5>1, SubSeqProperties
        <5> HIDE DEF high
        <5>3. /\ Len(flying) - (place + 1) + 1 = Len(flying) - place
              /\ ~(place + 1 <= Len(flying)) => Len(flying) - place = 0
              /\ \A i \in 1 .. Len(flying) - place : place + 1 + i - 1 = place + i
          BY <1>2, <4>2
        <5> QED
          BY <5>2, <5>3
      <4> HIDE DEF low, high
      <4>6. /\ low \o high \in Seq(DraftTests) /\ Len(low \o high) = Len(low) + Len(high)
            /\ \A i \in 1 .. Len(low) + Len(high) :
                  (low \o high)[i] = IF i <= Len(low) THEN low[i] ELSE high[i - Len(low)]
        BY <4>4, <4>5, ConcatProperties
      <4>7. flying' = low \o high
        BY <4>1 DEF low, high
      <4>8. ASSUME NEW i \in DOMAIN flying' PROVE \E j \in DOMAIN flying : flying'[i] = flying[j]
        <5>1. i \in 1 .. Len(low) + Len(high)
          BY <4>6, <4>7, LenProperties
        <5>2. CASE i <= place - 1
          <6>1. i \in 1 .. place - 1 /\ i \in 1 .. Len(flying)
            BY <1>2, <4>2, <4>4, <4>5, <5>1, <5>2
          <6>2. flying'[i] = flying[i]
            BY <4>4, <4>6, <4>7, <5>1, <5>2, <6>1
          <6> QED
            BY <1>2, <6>1, <6>2
        <5>3. CASE ~(i <= place - 1)
          <6> DEFINE k == i - (place - 1)
          <6>1. k \in 1 .. Len(flying) - place /\ place + k \in 1 .. Len(flying)
            BY <1>2, <4>2, <4>4, <4>5, <5>1, <5>3, SMTT(60)
          <6>2. flying'[i] = high[k]
            BY <4>4, <4>6, <4>7, <5>1, <5>3
          <6> QED
            BY <1>2, <4>5, <6>1, <6>2
        <5> QED
          BY <5>2, <5>3
      <4> QED
        BY <4>6, <4>7, <4>8
    <3>3. /\ \A i \in DOMAIN flying : flying[i].form <= forms
          /\ sheet.choosing => \A i \in DOMAIN flying : flying[i].form # forms
          /\ ~outrun => \A i \in DOMAIN flying : flying[i].form = forms => OfDraft(flying[i])
          /\ ~outrun /\ probe \notin {Nothing, Testing} /\ probe.form = forms => OfDraft(probe)
      BY DEF FInv, FormTypes, ChoosingTrue, DraftTrue, Own, OwnResult
    <3>4. /\ (\A i \in DOMAIN flying' : flying'[i].form <= forms)
          /\ (sheet.choosing => \A i \in DOMAIN flying' : flying'[i].form # forms)
          /\ (~outrun => \A i \in DOMAIN flying' : flying'[i].form = forms => OfDraft(flying'[i]))
      BY <3>2, <3>3
    <3>5. ~outrun /\ probe' \notin {Nothing, Testing} /\ probe'.form = forms => OfDraft(probe')
      BY <3>1, <3>3
    <3> QED
      BY <3>2, <3>4, <3>5
  <2> QED
    BY <2>1, <2>2
<1>4. FormTypes'
  BY <1>1, <1>3 DEF FInv, FormTypes
<1>5. ChoosingTrue' /\ SavedTrue'
  BY <1>1, <1>3 DEF FInv, ChoosingTrue, SavedTrue, Own
<1>6. DraftTrue'
  BY <1>1, <1>3 DEF FInv, DraftTrue, OfDraft, Own, OwnResult
<1> QED
  BY <1>4, <1>5, <1>6 DEF FInv

LEMMA SavingSteps == ASSUME FInv, SaveForm PROVE FInv'
<1> DEFINE problem == Problem(filled, sheet.taken)
<1>1. /\ ~sheet.choosing /\ saved = Nothing
      /\ UNCHANGED <<sheet, filled, idEdited, presetAt, probe, flying, outrun, forms>>
  BY DEF SaveForm, Filling, FInv, SavedTrue
<1>2. CASE problem # Nothing
  <2>1. fault' = problem /\ focus' \in {2, 3} /\ saved' = saved /\ opened' = opened
    BY <1>2 DEF SaveForm
  <2>2. focus' \in 1 .. 5
    BY <2>1
  <2> HIDE DEF problem
  <2>3. problem' = problem
    BY <1>1 DEF problem
  <2>4. DraftTrue'
    BY <1>1, <2>1 DEF FInv, DraftTrue, OfDraft, Own, OwnResult, problem
  <2> QED
    BY <1>1, <2>1, <2>2, <2>4 DEF FInv, FormTypes, ChoosingTrue, SavedTrue, Own
<1>3. CASE problem = Nothing
  <2>1. /\ fault' = Nothing /\ focus' = focus /\ opened' = FALSE
        /\ saved' = [id |-> Trimmed(filled.id), endpoint |-> Trimmed(filled.endpoint),
                     transport |-> filled.transport, key |-> Trimmed(filled.key),
                     enabled |-> IF sheet.edits THEN sheet.enabled ELSE TRUE]
    BY <1>3 DEF SaveForm
  <2>2. SavedTrue'
    BY <1>1, <1>3, <2>1 DEF SavedTrue
  <2> QED
    BY <1>1, <2>1, <2>2 DEF FInv, FormTypes, ChoosingTrue, DraftTrue, OfDraft, Own, OwnResult
<1> QED
  BY <1>2, <1>3

\* The invariant says what the form shows.
LEMMA FormShows == FInv => FormTrue
<1> SUFFICES ASSUME FInv PROVE FormTrue
  OBVIOUS
<1>1. filled \in Drafts /\ filled.name \in FieldTexts /\ filled.id \in FieldTexts
      /\ filled.endpoint \in FieldTexts /\ filled.key \in FieldTexts
  BY DEF FInv, FormTypes, Drafts
<1>2. /\ IsSlug(Slug(filled.name)) /\ Slug(Slug(filled.name)) = Slug(filled.name)
  BY <1>1, SlugIs, SlugOfSlug DEF FieldTexts
<1>3. ASSUME saved # Nothing
      PROVE  /\ saved.id \notin sheet.taken /\ Problem(saved, sheet.taken) = Nothing
             /\ sheet.edits => saved.enabled = sheet.enabled
  <2>1. /\ Problem(filled, sheet.taken) = Nothing
        /\ saved.id = Trimmed(filled.id) /\ saved.endpoint = Trimmed(filled.endpoint)
        /\ sheet.edits => saved.enabled = sheet.enabled
    BY <1>3 DEF FInv, SavedTrue
  <2>2. /\ Trimmed(filled.id) # <<>> /\ Trimmed(filled.id) \notin sheet.taken
        /\ ~EndpointProblem(filled.endpoint)
    BY <2>1, DialogConstants DEF Problem
  <2>3. Trimmed(saved.id) = saved.id /\ Trimmed(saved.endpoint) = Trimmed(filled.endpoint)
    BY <1>1, <2>1, TrimmedText
  <2>4. ~EndpointProblem(saved.endpoint)
    BY <2>2, <2>3 DEF EndpointProblem
  <2> QED
    BY <2>1, <2>2, <2>3, <2>4 DEF Problem
<1>4. ASSUME saved # Nothing, OwnResult, ~outrun
      PROVE  saved.endpoint = Trimmed(probe.endpoint) /\ saved.key = probe.key
  BY <1>4 DEF FInv, SavedTrue, DraftTrue, OfDraft
<1> QED
  BY <1>2, <1>3, <1>4 DEF FInv, DraftTrue, OfDraft, FormTrue

-----------------------------------------------------------------------------
(* Dialogs: the prompt and the review.                                       *)

LEMMA AsSequence == ASSUME NEW X, NEW n \in Nat, NEW f \in [1 .. n -> X] PROVE f \in Seq(X) /\ Len(f) = n
<1>1. f = [i \in 1 .. n |-> f[i]] /\ \A i \in 1 .. n : f[i] \in X
  OBVIOUS
<1>2. [i \in 1 .. n |-> f[i]] \in Seq(X)
  BY <1>1
<1>3. f \in Seq(X) /\ DOMAIN f = 1 .. n
  BY <1>1, <1>2
<1>4. Len(f) \in Nat /\ 1 .. Len(f) = 1 .. n
  BY <1>3, LenProperties
<1> QED
  BY <1>3, <1>4, SameLength

LEMMA PairIs == ASSUME NEW x, NEW y PROVE <<x>> \o <<>> \o <<y>> = <<x, y>>
<1> DEFINE X == {x, y}
<1>1. x \in X /\ y \in X
  OBVIOUS
<1> HIDE DEF X
<1>2. <<x>> \in Seq(X) /\ <<y>> \in Seq(X) /\ <<x, y>> \in Seq(X)
  BY <1>1
<1>3. <<x>> \o <<>> = <<x>>
  BY <1>2, ConcatEmptySeq
<1>4. /\ Len(<<x>>) = 1 /\ Len(<<y>>) = 1 /\ Len(<<x, y>>) = 2
      /\ <<x>>[1] = x /\ <<y>>[1] = y /\ <<x, y>>[1] = x /\ <<x, y>>[2] = y
  OBVIOUS
<1> DEFINE s == <<x>>
           t == <<y>>
           u == <<x, y>>
<1>5. /\ s \in Seq(X) /\ t \in Seq(X) /\ u \in Seq(X)
      /\ Len(s) = 1 /\ Len(t) = 1 /\ Len(u) = 2
      /\ s[1] = x /\ t[1] = y /\ u[1] = x /\ u[2] = y
  BY <1>2, <1>4
<1> HIDE DEF s, t, u
<1>6. /\ s \o t \in Seq(X) /\ Len(s \o t) = Len(s) + Len(t)
      /\ \A i \in 1 .. Len(s) + Len(t) : (s \o t)[i] = IF i <= Len(s) THEN s[i] ELSE t[i - Len(s)]
  BY <1>5, ConcatProperties
<1>7. Len(s \o t) = 2 /\ (s \o t)[1] = x /\ (s \o t)[2] = y
  BY <1>5, <1>6
<1>8. \A i \in 1 .. 2 : i = 1 \/ i = 2
  OBVIOUS
<1>9. s \o t = u
  <2>1. \A i \in 1 .. Len(s \o t) : (s \o t)[i] = u[i]
    BY <1>5, <1>7, <1>8
  <2> QED
    BY <1>5, <1>6, <1>7, <2>1, SeqEqual
<1> QED
  BY <1>3, <1>9 DEF s, t, u

LEMMA OptionsAre ==
    /\ Len(Options(TRUE)) = 2 /\ DOMAIN Options(TRUE) = 1 .. 2
    /\ \A i \in 1 .. 2 : /\ Options(TRUE)[i].plain.kind \in {"once", "deny", "deny project"}
                        /\ Options(TRUE)[i].shift.kind \in {"once", "deny", "deny project"}
    /\ Len(Options(FALSE)) = 5
<1> DEFINE once == [plain |-> Once, shift |-> Once]
           deny == [plain |-> Denial("deny"), shift |-> Denial("deny project")]
           scopes == <<"session", "project", "always">>
           grants == [i \in DOMAIN scopes |-> [plain |-> Grant(scopes[i], FALSE), shift |-> Grant(scopes[i], TRUE)]]
<1>1. Options(TRUE) = <<once>> \o <<>> \o <<deny>> /\ Options(FALSE) = <<once>> \o grants \o <<deny>>
  BY Zenon DEF Options
<1>2. /\ once.plain.kind = "once" /\ once.shift.kind = "once"
      /\ deny.plain.kind = "deny" /\ deny.shift.kind = "deny project"
  BY DEF Once, Denial
<1>3. \A x, y : <<x>> \o <<>> \o <<y>> = <<x, y>>
  BY PairIs
<1>4. \E X : <<once>> \in Seq(X) /\ grants \in Seq(X) /\ <<deny>> \in Seq(X) /\ Len(grants) = 3
  <2> DEFINE X == {once, deny} \union {[plain |-> Grant(scopes[i], FALSE), shift |-> Grant(scopes[i], TRUE)] : i \in 1 .. 3}
  <2>1. DOMAIN scopes = 1 .. 3
    OBVIOUS
  <2>2. grants \in [1 .. 3 -> X]
    BY <2>1
  <2> HIDE DEF once, deny, grants, scopes
  <2>3. once \in X /\ deny \in X
    OBVIOUS
  <2> HIDE DEF X
  <2>4. grants \in Seq(X) /\ Len(grants) = 3
    BY <2>2, AsSequence
  <2>5. <<once>> \in Seq(X) /\ <<deny>> \in Seq(X)
    BY <2>3
  <2> QED
    BY <2>4, <2>5
<1> HIDE DEF once, deny, grants, scopes
<1>5. Options(TRUE) = <<once, deny>>
  BY <1>1, <1>3
<1>6. Len(Options(FALSE)) = 5
  <2>1. PICK X : <<once>> \in Seq(X) /\ grants \in Seq(X) /\ <<deny>> \in Seq(X) /\ Len(grants) = 3
    BY <1>4
  <2> DEFINE first == <<once>>
             last == <<deny>>
  <2>2. first \in Seq(X) /\ last \in Seq(X) /\ Len(first) = 1 /\ Len(last) = 1
    BY <2>1
  <2> HIDE DEF first, last
  <2>3. first \o grants \in Seq(X) /\ Len(first \o grants) = 4
    <3>1. first \o grants \in Seq(X) /\ Len(first \o grants) = Len(first) + Len(grants)
      BY <2>1, <2>2, ConcatProperties
    <3> QED
      BY <2>1, <2>2, <3>1
  <2>4. Len((first \o grants) \o last) = 5
    <3>1. Len((first \o grants) \o last) = Len(first \o grants) + Len(last)
      BY <2>2, <2>3, ConcatProperties
    <3> QED
      BY <2>2, <2>3, <3>1
  <2>5. Options(FALSE) = (first \o grants) \o last
    BY <1>1 DEF first, last
  <2> QED
    BY <2>4, <2>5
<1>7. /\ Len(<<once, deny>>) = 2 /\ DOMAIN <<once, deny>> = 1 .. 2
      /\ <<once, deny>>[1] = once /\ <<once, deny>>[2] = deny
  OBVIOUS
<1>8. \A i \in 1 .. 2 : i = 1 \/ i = 2
  OBVIOUS
<1> QED
  BY <1>2, <1>5, <1>6, <1>7, <1>8

LEMMA MenuKeeps == ASSUME MInv, MenuNext PROVE MInv'
<1> DEFINE count == Len(Options(menu.dangerous))
<1>1. /\ menu \in [dangerous : BOOLEAN, selected : Nat] /\ menu.selected < count
      /\ count \in {2, 5}
  <2>1. menu.dangerous = TRUE \/ menu.dangerous = FALSE
    BY DEF MInv
  <2> QED
    BY <2>1, OptionsAre DEF MInv
<1>2. CASE MenuMove
  <2>1. PICK step \in {1, count - 1} : menu' = [menu EXCEPT !.selected = (menu.selected + step) % count]
    BY <1>2 DEF MenuMove
  <2>2. answer' = answer /\ answer = Nothing
    BY <1>2 DEF MenuMove
  <2>3. \A n \in {2, 5} : \A k \in Nat : \A d \in {1, n - 1} : (k + d) % n \in Nat /\ (k + d) % n < n
    OBVIOUS
  <2>4. step = 1 \/ step = count - 1
    BY <2>1
  <2> HIDE DEF count
  <2>5. (menu.selected + step) % count \in Nat /\ (menu.selected + step) % count < count
    BY <1>1, <2>3, <2>4
  <2>6. /\ menu' \in [dangerous : BOOLEAN, selected : Nat] /\ menu'.dangerous = menu.dangerous
        /\ menu'.selected < count
    BY <1>1, <2>1, <2>5
  <2> QED
    BY <2>2, <2>6 DEF MInv, count
<1>3. CASE MenuAnswer
  <2>1. menu' = menu
    BY <1>3 DEF MenuAnswer
  <2>2. ASSUME menu.dangerous PROVE answer'.kind \in {"once", "deny", "deny project"}
    <3>1. menu.dangerous = TRUE
      BY <1>1, <2>2
    <3>2. menu.selected + 1 \in 1 .. 2
      <4>1. count = 2
        BY <3>1, OptionsAre
      <4>2. menu.selected \in Nat /\ menu.selected < 2
        BY <1>1, <4>1
      <4>3. \A k \in Nat : k < 2 => k + 1 \in 1 .. 2
        OBVIOUS
      <4> QED
        BY <4>2, <4>3
    <3>3. Denial("deny").kind = "deny"
      BY DEF Denial
    <3>4. \/ answer' = Options(TRUE)[menu.selected + 1].plain
          \/ answer' = Options(TRUE)[menu.selected + 1].shift
          \/ \E digit \in 1 .. 2 : answer' = Options(TRUE)[digit].plain
          \/ answer' = Denial("deny")
      BY <1>3, <3>1, OptionsAre DEF MenuAnswer
    <3> QED
      BY <3>2, <3>3, <3>4, OptionsAre
  <2> QED
    BY <1>1, <2>1, <2>2 DEF MInv
<1> QED
  BY <1>2, <1>3 DEF MenuNext

LEMMA ReviewKeeps == ASSUME RInv, ReviewNext PROVE RInv'
<1>1. review \in [length : Nat, height : Nat, scroll : Nat, drawn : BOOLEAN]
  BY DEF RInv
<1>2. CASE ScrollPlan
  <2>1. PICK page \in Pages, up \in BOOLEAN :
           review' = [review EXCEPT !.drawn = FALSE,
              !.scroll = IF ~up THEN @ + page ELSE IF @ < page THEN 0 ELSE @ - page]
    BY <1>2 DEF ScrollPlan
  <2>2. page \in Nat
    BY DialogConstants
  <2>3. (IF ~up THEN review.scroll + page ELSE IF review.scroll < page THEN 0 ELSE review.scroll - page) \in Nat
    BY <1>1, <2>2
  <2>4. review' \in [length : Nat, height : Nat, scroll : Nat, drawn : BOOLEAN] /\ ~review'.drawn
    BY <1>1, <2>1, <2>3
  <2> QED
    BY <2>4 DEF RInv, ReviewHolds
<1>3. CASE DrawPlan
  <2>1. PICK height \in PopupHeights :
           review' = [review EXCEPT !.height = height, !.drawn = TRUE, !.scroll = Clamp(@, review.length, height)]
    BY <1>3 DEF DrawPlan
  <2> DEFINE scroll == Clamp(review.scroll, review.length, height)
  <2>2. height \in Nat
    BY DialogConstants
  <2>3. scroll \in Nat /\ (scroll = 0 \/ scroll + height <= review.length)
    BY <1>1, <2>2 DEF Clamp
  <2> HIDE DEF scroll
  <2>4. review' = [review EXCEPT !.height = height, !.drawn = TRUE, !.scroll = scroll]
    BY <2>1 DEF scroll
  <2>5. /\ review' \in [length : Nat, height : Nat, scroll : Nat, drawn : BOOLEAN]
        /\ review'.scroll = scroll /\ review'.height = height /\ review'.length = review.length
    BY <1>1, <2>2, <2>3, <2>4
  <2> QED
    BY <2>3, <2>5 DEF RInv, ReviewHolds
<1> QED
  BY <1>2, <1>3 DEF ReviewNext

LEMMA DialogsStart == DialogsInit => DInv
<1> SUFFICES ASSUME DialogsInit PROVE DInv
  OBVIOUS
<1>1. FInv
  BY FormStarts DEF DialogsInit
<1>2. MInv
  <2>1. menu \in [dangerous : BOOLEAN, selected : {0}] /\ answer = Nothing
    BY DEF DialogsInit, MenuInit
  <2>2. menu.dangerous = TRUE \/ menu.dangerous = FALSE
    BY <2>1
  <2>3. menu.selected = 0 /\ menu \in [dangerous : BOOLEAN, selected : Nat]
    BY <2>1
  <2>4. 0 < 2 /\ 0 < 5
    OBVIOUS
  <2> QED
    BY <2>1, <2>2, <2>3, <2>4, OptionsAre DEF MInv
<1>3. RInv
  <2>1. PlanLengths \subseteq Nat /\ PopupHeights \subseteq Nat
    BY DialogConstants
  <2> QED
    <3>1. /\ review.length \in Nat /\ review.height \in Nat /\ review.scroll = 0
          /\ review \in [length : Nat, height : Nat, scroll : Nat, drawn : BOOLEAN]
      <4>1. review \in [length : PlanLengths, height : PopupHeights, scroll : {0}, drawn : {TRUE}]
        BY DEF DialogsInit, ReviewInit
      <4>2. /\ review = [length |-> review.length, height |-> review.height, scroll |-> review.scroll, drawn |-> review.drawn]
            /\ review.length \in PlanLengths /\ review.height \in PopupHeights
            /\ review.scroll = 0 /\ review.drawn = TRUE
        BY <4>1
      <4>3. review.length \in Nat /\ review.height \in Nat /\ review.scroll \in Nat /\ review.drawn \in BOOLEAN
        <5>1. 0 \in Nat /\ TRUE \in BOOLEAN
          OBVIOUS
        <5> QED
          BY <2>1, <4>2, <5>1, Zenon
      <4>4. review \in [length : Nat, height : Nat, scroll : Nat, drawn : BOOLEAN]
        BY <4>2, <4>3
      <4> QED
        BY <4>2, <4>3, <4>4
    <3> QED
      BY <3>1 DEF RInv, ReviewHolds
<1> QED
  BY <1>1, <1>2, <1>3 DEF DInv

LEMMA DialogsStep == DInv /\ [FormStep \/ MenuStep \/ ReviewStep]_dialogVars => DInv'
<1> SUFFICES ASSUME DInv, [FormStep \/ MenuStep \/ ReviewStep]_dialogVars PROVE DInv'
  OBVIOUS
<1>1. FormNext => FInv'
  BY ChoosingSteps, EditingSteps, TestingSteps, SavingSteps, OpeningSteps DEF FormNext, DInv
<1>2. UNCHANGED formVars => FInv'
  BY DEF formVars, DInv, FInv, FormTypes, ChoosingTrue, DraftTrue, SavedTrue, OfDraft, Own, OwnResult
<1>3. UNCHANGED menuVars => MInv'
  BY DEF menuVars, DInv, MInv
<1>4. UNCHANGED review => RInv'
  BY DEF DInv, RInv, ReviewHolds
<1>5. MenuNext => MInv'
  BY MenuKeeps DEF DInv
<1>6. ReviewNext => RInv'
  BY ReviewKeeps DEF DInv
<1>7. UNCHANGED dialogVars => UNCHANGED formVars /\ UNCHANGED menuVars /\ UNCHANGED review
  BY DEF dialogVars
<1> QED
  BY <1>1, <1>2, <1>3, <1>4, <1>5, <1>6, <1>7 DEF DInv, FormStep, MenuStep, ReviewStep

\* Whatever is typed, tested and answered, in every order in which the results of
\* the tests arrive and the forms that started them are closed and opened anew.
THEOREM DialogsSound == DialogsSpec => []DInv
<1> QED
  BY DialogsStart, DialogsStep, PTL DEF DialogsSpec

\* A dialog returns what is in it: the saved provider is the draft that was shown and
\* passes the checks again, the result of a form's own test is of the draft it is shown
\* with unless the draft changed while it ran, a dangerous
\* command gets no stored grant, and the plan is not scrolled past its end.
THEOREM DialogsAreTrue == DialogsSpec => []DialogsTrue
<1>1. DInv => DialogsTrue
  BY FormShows DEF DInv, MInv, RInv, MenuHolds, DialogsTrue
<1> QED
  BY <1>1, DialogsSound, PTL
=============================================================================
