---------------------------- MODULE DialogueProofs ----------------------------
(***************************************************************************)
(* What the model gets to see of a conversation, for any number of answers *)
(* of any length.                                                          *)
(*                                                                         *)
(* A prompt is Lead, which depends on the client's settings alone, and     *)
(* behind it one entry for each message of the conversation.  An answer    *)
(* becomes one entry, which Fits it; the results of its calls follow in    *)
(* the entries behind.                                                     *)
(***************************************************************************)
EXTENDS Dialogue, SequenceTheorems, WellFoundedInduction, TLAPS

-----------------------------------------------------------------------------
(* Induction over the places and the lengths of sequences, by sets.        *)

LEMMA LeastOf ==
  ASSUME NEW S \in SUBSET Nat, S # {}
  PROVE  \E m \in S : \A t \in S : m <= t
<1>1. PICK m \in S : \A t \in S : <<t, m>> \notin OpToRel(<, Nat)
  BY NatLessThanWellFounded, WFMin
<1>2. \A t \in S : t \in Nat /\ m \in Nat /\ ~(t < m)
  BY <1>1 DEF OpToRel
<1>. QED
  BY <1>2

LEMMA Climbs ==
  ASSUME NEW n \in Nat, NEW S, 0 \in S, \A k \in 1 .. n : k - 1 \in S => k \in S
  PROVE  \A k \in 0 .. n : k \in S
<1>. DEFINE B == {k \in 0 .. n : k \notin S}
<1>. SUFFICES ASSUME B # {} PROVE FALSE
  OBVIOUS
<1>1. PICK m \in B : \A t \in B : m <= t
  <2>1. B \in SUBSET Nat
    OBVIOUS
  <2>. HIDE DEF B
  <2>. QED
    BY <2>1, LeastOf
<1>2. m \in 1 .. n /\ m - 1 \in 0 .. n /\ ~(m <= m - 1)
  OBVIOUS
<1>3. m - 1 \in S
  BY <1>1, <1>2
<1>. QED
  BY <1>1, <1>2, <1>3

LEMMA AppendFacts ==
  ASSUME NEW X, NEW s \in Seq(X), NEW x \in X
  PROVE  /\ Append(s, x) \in Seq(X) /\ Len(s) \in Nat /\ Len(Append(s, x)) = Len(s) + 1
         /\ \A i \in 1 .. Len(s) : Append(s, x)[i] = s[i]
         /\ Append(s, x)[Len(s) + 1] = x
OBVIOUS

LEMMA ConcatAppend ==
  ASSUME NEW X, NEW s \in Seq(X), NEW t \in Seq(X), NEW x \in X
  PROVE  s \o Append(t, x) = Append(s \o t, x)
OBVIOUS

LEMMA Joined ==
  ASSUME NEW X, NEW s \in Seq(X), NEW t \in Seq(X)
  PROVE  s \o t \in Seq(X) /\ s \o <<>> = s /\ <<>> \o s = s
OBVIOUS

\* What the empty sequence has and every longer one keeps, all sequences have.
Grown(P, X) == <<>> \in P /\ \A s \in Seq(X) : s \in P => \A x \in X : Append(s, x) \in P

LEMMA GrownStep ==
  ASSUME NEW X, NEW P, Grown(P, X), NEW s \in Seq(X), s \in P, NEW x \in X
  PROVE  Append(s, x) \in P
BY Zenon DEF Grown

LEMMA Grows ==
  ASSUME NEW X, NEW P, Grown(P, X), NEW s \in Seq(X)
  PROVE  s \in P
<1>. DEFINE S == {k \in 0 .. Len(s) : SubSeq(s, 1, k) \in P}
<1>1. Len(s) \in Nat
  OBVIOUS
<1>2. 0 \in S
  <2>1. SubSeq(s, 1, 0) = <<>>
    BY SubSeqEmpty
  <2>2. <<>> \in P
    BY DEF Grown
  <2>3. 0 \in 0 .. Len(s)
    BY <1>1
  <2>. QED
    BY <2>1, <2>2, <2>3, Zenon
<1>3. ASSUME NEW k \in 1 .. Len(s), k - 1 \in S PROVE k \in S
  <2>1. SubSeq(s, 1, k - 1) \in Seq(X) /\ s[k] \in X
    OBVIOUS
  <2>2. Append(SubSeq(s, 1, k - 1), s[k]) \in P
    BY <1>3, <2>1, GrownStep
  <2>3. SubSeq(s, 1, k) = Append(SubSeq(s, 1, k - 1), s[k])
    OBVIOUS
  <2>4. k \in 0 .. Len(s)
    OBVIOUS
  <2>. QED
    BY <2>2, <2>3, <2>4, Zenon
<1>4. \A k \in 0 .. Len(s) : k \in S
  <2>. HIDE DEF S
  <2>. QED
    BY <1>1, <1>2, <1>3, Climbs
<1>5. SubSeq(s, 1, Len(s)) = s
  BY SubSeqFull
<1>6. Len(s) \in S
  BY <1>1, <1>4
<1>. QED
  BY <1>5, <1>6

-----------------------------------------------------------------------------
(* Mapping a function over a sequence.                                     *)

Map(f, s) == [i \in DOMAIN s |-> f[s[i]]]

MapsTo(f, X, Y) == f \in [X -> Y]

LEMMA MapFacts ==
  ASSUME NEW X, NEW Y, NEW f, MapsTo(f, X, Y), NEW s \in Seq(X)
  PROVE  /\ Map(f, s) \in Seq(Y) /\ Len(Map(f, s)) = Len(s)
         /\ \A i \in 1 .. Len(s) : Map(f, s)[i] = f[s[i]]
BY DEF Map, MapsTo

LEMMA MapAppend ==
  ASSUME NEW X, NEW Y, NEW f, MapsTo(f, X, Y), NEW s \in Seq(X), NEW x \in X
  PROVE  Map(f, Append(s, x)) = Append(Map(f, s), f[x])
<1>. DEFINE u == Append(s, x)
            g == Map(f, u)
            h == Map(f, s)
            v == Append(h, f[x])
<1>. HIDE DEF u, g, h, v
<1>0. f[x] \in Y
  BY DEF MapsTo
<1>1. /\ u \in Seq(X) /\ Len(s) \in Nat /\ Len(u) = Len(s) + 1
      /\ \A i \in 1 .. Len(s) : u[i] = s[i]
      /\ u[Len(s) + 1] = x
  BY AppendFacts DEF u
<1>2. g \in Seq(Y) /\ Len(g) = Len(u) /\ \A i \in 1 .. Len(u) : g[i] = f[u[i]]
  BY <1>1, MapFacts DEF g
<1>3. h \in Seq(Y) /\ Len(h) = Len(s) /\ \A i \in 1 .. Len(s) : h[i] = f[s[i]]
  BY MapFacts DEF h
<1>4. /\ v \in Seq(Y) /\ Len(h) \in Nat /\ Len(v) = Len(h) + 1
      /\ \A i \in 1 .. Len(h) : v[i] = h[i]
      /\ v[Len(h) + 1] = f[x]
  BY <1>0, <1>3, AppendFacts DEF v
<1>5. ASSUME NEW i \in 1 .. Len(s) + 1 PROVE g[i] = v[i]
  <2>1. CASE i \in 1 .. Len(s)
    BY ONLY <1>1, <1>2, <1>3, <1>4, <2>1
  <2>2. CASE i = Len(s) + 1
    BY ONLY <1>1, <1>2, <1>3, <1>4, <2>2
  <2>. QED
    BY <1>1, <2>1, <2>2
<1>6. Len(g) = Len(v) /\ \A i \in 1 .. Len(g) : g[i] = v[i]
  BY ONLY <1>1, <1>2, <1>3, <1>4, <1>5
<1>7. g = v
  BY ONLY <1>2, <1>4, <1>6, SeqEqual
<1>. QED
  BY <1>7 DEF u, v, g, h

LEMMA MapNone ==
  ASSUME NEW f
  PROVE  Map(f, <<>>) = <<>>
BY DEF Map

LEMMA MapConcat ==
  ASSUME NEW X, NEW Y, NEW f, MapsTo(f, X, Y), NEW s \in Seq(X), NEW t \in Seq(X)
  PROVE  Map(f, s \o t) = Map(f, s) \o Map(f, t)
<1>. DEFINE P == {r \in Seq(X) : Map(f, s \o r) = Map(f, s) \o Map(f, r)}
<1>1. <<>> \in P
  <2>1. s \o <<>> = s /\ Map(f, <<>>) = <<>> /\ <<>> \in Seq(X)
    BY MapNone, Joined
  <2>2. Map(f, s) \o <<>> = Map(f, s)
    BY MapFacts, Joined
  <2>3. Map(f, s \o <<>>) = Map(f, s) \o Map(f, <<>>)
    BY <2>1, <2>2
  <2>. QED
    BY <2>1, <2>3, Zenon
<1>2. ASSUME NEW r \in Seq(X), r \in P, NEW x \in X PROVE Append(r, x) \in P
  <2>. DEFINE q == s \o r
              g == Map(f, s)
              h == Map(f, r)
  <2>. HIDE DEF q, g, h
  <2>1. s \o Append(r, x) = Append(q, x) /\ Append(r, x) \in Seq(X)
    BY ConcatAppend DEF q
  <2>2. q \in Seq(X)
    BY Joined DEF q
  <2>3. Map(f, Append(q, x)) = Append(Map(f, q), f[x])
    BY <2>2, MapAppend
  <2>4. Map(f, Append(r, x)) = Append(h, f[x])
    BY MapAppend DEF h
  <2>5. g \in Seq(Y) /\ h \in Seq(Y) /\ f[x] \in Y
    BY MapFacts DEF MapsTo, g, h
  <2>6. g \o Append(h, f[x]) = Append(g \o h, f[x])
    BY <2>5, ConcatAppend
  <2>7. Map(f, q) = g \o h
    BY <1>2 DEF q, g, h
  <2>8. Map(f, s \o Append(r, x)) = g \o Map(f, Append(r, x))
    BY ONLY <2>1, <2>3, <2>4, <2>6, <2>7
  <2>. QED
    BY ONLY <2>1, <2>8, Zenon DEF g
<1>. HIDE DEF P
<1>3. t \in P
  BY <1>1, <1>2, Grows DEF Grown
<1>. QED
  BY <1>3 DEF P

LEMMA MapOne ==
  ASSUME NEW X, NEW Y, NEW f, MapsTo(f, X, Y), NEW x \in X
  PROVE  Map(f, <<x>>) = <<f[x]>>
<1>1. f[x] \in Y
  BY DEF MapsTo
<1>. QED
  BY <1>1 DEF Map

-----------------------------------------------------------------------------
(* Choosing from a sequence.                                               *)

\* g[k] is what is chosen of the first k elements.
Picks(g, s, S, n) ==
  /\ g[0] = <<>>
  /\ \A k \in 1 .. n : g[k] = IF s[k] \in S THEN Append(g[k - 1], s[k]) ELSE g[k - 1]

PicksFrom(g, s, S, n) ==
  g = [k \in 0 .. n |-> IF k = 0 THEN <<>>
                        ELSE IF s[k] \in S THEN Append(g[k - 1], s[k]) ELSE g[k - 1]]

LEMMA PicksAre ==
  ASSUME NEW g, NEW s, NEW S, NEW n \in Nat
  PROVE  PicksFrom(g, s, S, n) => Picks(g, s, S, n)
<1>. DEFINE G(f) == [k \in 0 .. n |-> IF k = 0 THEN <<>>
                        ELSE IF s[k] \in S THEN Append(f[k - 1], s[k]) ELSE f[k - 1]]
<1>1. ASSUME NEW f, NEW h, h = G(f)
      PROVE  /\ h[0] = <<>>
             /\ \A k \in 1 .. n : h[k] = IF s[k] \in S THEN Append(f[k - 1], s[k]) ELSE f[k - 1]
  BY <1>1
<1>. HIDE DEF G
<1>2. PicksFrom(g, s, S, n) => g = G(g)
  BY DEF PicksFrom, G
<1>. QED
  BY <1>1, <1>2 DEF Picks

\* Two functions that choose from the same elements are the same.
LEMMA PicksSame ==
  ASSUME NEW n \in Nat, NEW g, NEW h, NEW s, NEW t, NEW S,
         Picks(g, s, S, n), Picks(h, t, S, n), \A k \in 1 .. n : s[k] = t[k]
  PROVE  \A k \in 0 .. n : g[k] = h[k]
<1>. DEFINE P == {k \in 0 .. n : g[k] = h[k]}
<1>1. 0 \in P
  BY DEF Picks
<1>2. ASSUME NEW k \in 1 .. n, k - 1 \in P PROVE k \in P
  <2>1. g[k - 1] = h[k - 1] /\ k \in 0 .. n /\ s[k] = t[k]
    BY <1>2
  <2>2. g[k] = h[k]
    BY <2>1, Zenon DEF Picks
  <2>. QED
    BY <2>1, <2>2, Zenon
<1>3. \A k \in 0 .. n : k \in P
  <2>. HIDE DEF P
  <2>. QED
    BY <1>1, <1>2, Climbs
<1>. QED
  BY <1>3

\* There is one for every sequence ...
LEMMA PicksExist ==
  ASSUME NEW X, NEW s \in Seq(X), NEW S
  PROVE  \E g : PicksFrom(g, s, S, Len(s))
<1>. DEFINE P == {r \in Seq(X) : \E g : PicksFrom(g, r, S, Len(r))}
<1>1. <<>> \in P
  <2>. DEFINE g == [k \in 0 .. 0 |-> <<>>]
  <2>1. PicksFrom(g, <<>>, S, 0)
    BY DEF PicksFrom
  <2>2. Len(<<>>) = 0 /\ <<>> \in Seq(X)
    OBVIOUS
  <2>3. PicksFrom(g, <<>>, S, Len(<<>>))
    BY <2>1, <2>2, Zenon
  <2>. HIDE DEF g
  <2>. QED
    BY <2>2, <2>3, Zenon
<1>2. ASSUME NEW r \in Seq(X), r \in P, NEW x \in X PROVE Append(r, x) \in P
  <2>. DEFINE q == Append(r, x)
              n == Len(r)
  <2>. HIDE DEF q, n
  <2>1. /\ q \in Seq(X) /\ n \in Nat /\ Len(q) = n + 1
        /\ \A i \in 1 .. n : q[i] = r[i]
        /\ q[n + 1] = x
    BY AppendFacts DEF q, n
  <2>2. PICK f : PicksFrom(f, r, S, n)
    BY <1>2 DEF n
  <2>3. Picks(f, r, S, n)
    BY <2>1, <2>2, PicksAre
  <2>. DEFINE last == IF x \in S THEN Append(f[n], x) ELSE f[n]
              g == [k \in 0 .. n + 1 |-> IF k = n + 1 THEN last ELSE f[k]]
  <2>. HIDE DEF last
  <2>4. g[n + 1] = last /\ \A k \in 0 .. n : g[k] = f[k]
    BY <2>1
  <2>5. ASSUME NEW k \in 0 .. n + 1
        PROVE  g[k] = IF k = 0 THEN <<>>
                      ELSE IF q[k] \in S THEN Append(g[k - 1], q[k]) ELSE g[k - 1]
    <3>. HIDE DEF g
    <3>1. CASE k = 0
      <4>1. g[0] = f[0] /\ f[0] = <<>>
        BY <2>1, <2>3, <2>4 DEF Picks
      <4>. QED
        BY <3>1, <4>1
    <3>2. CASE k \in 1 .. n
      <4>1. k # 0 /\ k \in 0 .. n /\ k - 1 \in 0 .. n
        BY <2>1, <3>2
      <4>2. g[k] = f[k] /\ g[k - 1] = f[k - 1] /\ q[k] = r[k]
        BY ONLY <2>1, <2>4, <3>2, <4>1
      <4>3. f[k] = IF r[k] \in S THEN Append(f[k - 1], r[k]) ELSE f[k - 1]
        BY ONLY <2>3, <3>2 DEF Picks
      <4>. QED
        BY ONLY <4>1, <4>2, <4>3, Zenon
    <3>3. CASE k = n + 1
      <4>1. k # 0 /\ k - 1 = n /\ n \in 0 .. n
        BY <2>1, <3>3
      <4>2. g[k] = last /\ g[k - 1] = f[n] /\ q[k] = x
        BY ONLY <2>1, <2>4, <3>3, <4>1
      <4>3. last = IF x \in S THEN Append(f[n], x) ELSE f[n]
        BY DEF last
      <4>. QED
        BY ONLY <4>1, <4>2, <4>3, Zenon
    <3>. QED
      BY <2>1, <3>1, <3>2, <3>3
  <2>6. PicksFrom(g, q, S, n + 1)
    <3>1. g = [k \in 0 .. n + 1 |-> g[k]]
      OBVIOUS
    <3>. HIDE DEF g
    <3>. QED
      BY ONLY <2>5, <3>1 DEF PicksFrom
  <2>. HIDE DEF g
  <2>7. PicksFrom(g, q, S, Len(q))
    BY <2>1, <2>6, Zenon
  <2>. QED
    BY <2>1, <2>7, Zenon DEF q
<1>. HIDE DEF P
<1>3. s \in P
  BY <1>1, <1>2, Grows DEF Grown
<1>. QED
  BY <1>3 DEF P

\* ... and Of takes it.
LEMMA OfPicks ==
  ASSUME NEW X, NEW s \in Seq(X), NEW S
  PROVE  \E g : Picks(g, s, S, Len(s)) /\ Of(s, S) = g[Len(s)]
<1>. DEFINE g == CHOOSE f : PicksFrom(f, s, S, Len(s))
<1>1. PicksFrom(g, s, S, Len(s))
  BY PicksExist
<1>2. Of(s, S) = g[Len(s)]
  BY DEF Of, PicksFrom
<1>. HIDE DEF g
<1>3. Len(s) \in Nat
  OBVIOUS
<1>4. Picks(g, s, S, Len(s))
  BY <1>1, <1>3, PicksAre
<1>. QED
  BY <1>2, <1>4

LEMMA OfNothing ==
  ASSUME NEW S
  PROVE  Of(<<>>, S) = <<>>
<1>1. <<>> \in Seq(S) /\ Len(<<>>) = 0
  OBVIOUS
<1>2. PICK g : Picks(g, <<>>, S, Len(<<>>)) /\ Of(<<>>, S) = g[Len(<<>>)]
  BY <1>1, OfPicks
<1>. QED
  BY <1>1, <1>2 DEF Picks

LEMMA OfAppend ==
  ASSUME NEW X, NEW s \in Seq(X), NEW x \in X, NEW S
  PROVE  Of(Append(s, x), S) = IF x \in S THEN Append(Of(s, S), x) ELSE Of(s, S)
<1>. DEFINE t == Append(s, x)
            n == Len(s)
<1>. HIDE DEF t, n
<1>1. /\ t \in Seq(X) /\ n \in Nat /\ Len(t) = n + 1
      /\ \A i \in 1 .. n : t[i] = s[i]
      /\ t[n + 1] = x
  BY AppendFacts DEF t, n
<1>2. PICK g : Picks(g, s, S, n) /\ Of(s, S) = g[n]
  BY OfPicks DEF n
<1>3. PICK h : Picks(h, t, S, n + 1) /\ Of(t, S) = h[n + 1]
  <2>1. PICK f : Picks(f, t, S, Len(t)) /\ Of(t, S) = f[Len(t)]
    BY <1>1, OfPicks
  <2>. QED
    BY <1>1, <2>1
<1>4. Picks(h, t, S, n)
  BY <1>1, <1>3 DEF Picks
<1>5. h[n] = g[n]
  <2>1. \A k \in 0 .. n : h[k] = g[k]
    BY ONLY <1>1, <1>2, <1>4, PicksSame
  <2>. QED
    BY <1>1, <2>1
<1>6. n + 1 \in 1 .. n + 1 /\ (n + 1) - 1 = n
  BY <1>1
<1>7. h[n + 1] = IF x \in S THEN Append(h[n], x) ELSE h[n]
  BY ONLY <1>1, <1>3, <1>6 DEF Picks
<1>8. Of(t, S) = IF x \in S THEN Append(Of(s, S), x) ELSE Of(s, S)
  BY ONLY <1>2, <1>3, <1>5, <1>7, Zenon
<1>. QED
  BY <1>8 DEF t

LEMMA OfType ==
  ASSUME NEW X, NEW s \in Seq(X), NEW S
  PROVE  Of(s, S) \in Seq(X \cap S)
<1>. DEFINE P == {r \in Seq(X) : Of(r, S) \in Seq(X \cap S)}
<1>1. <<>> \in P
  <2>1. <<>> \in Seq(X) /\ <<>> \in Seq(X \cap S) /\ Of(<<>>, S) = <<>>
    BY OfNothing
  <2>. QED
    BY <2>1, Zenon
<1>2. ASSUME NEW r \in Seq(X), r \in P, NEW x \in X PROVE Append(r, x) \in P
  <2>. DEFINE q == Append(r, x)
              c == Of(r, S)
  <2>. HIDE DEF q, c
  <2>1. q \in Seq(X)
    BY DEF q
  <2>2. c \in Seq(X \cap S)
    BY <1>2 DEF c
  <2>3. Of(q, S) = IF x \in S THEN Append(c, x) ELSE c
    BY OfAppend DEF q, c
  <2>4. Of(q, S) \in Seq(X \cap S)
    BY <2>2, <2>3
  <2>. QED
    BY <2>1, <2>4, Zenon DEF q
<1>. HIDE DEF P
<1>3. s \in P
  BY <1>1, <1>2, Grows DEF Grown
<1>. QED
  BY <1>3 DEF P

LEMMA Wider ==
  ASSUME NEW X, NEW Y, NEW s \in Seq(X), X \subseteq Y
  PROVE  s \in Seq(Y)
BY SeqMonotonic

LEMMA Retyped ==
  ASSUME NEW X, NEW Y, NEW s \in Seq(X), \A i \in 1 .. Len(s) : s[i] \in Y
  PROVE  s \in Seq(Y)
OBVIOUS

LEMMA OfStays ==
  ASSUME NEW X, NEW s \in Seq(X), NEW S
  PROVE  Of(s, S) \in Seq(X)
<1>. DEFINE c == Of(s, S)
<1>. HIDE DEF c
<1>1. c \in Seq(X \cap S)
  BY OfType DEF c
<1>2. c \in Seq(X)
  BY <1>1
<1>. QED
  BY <1>2 DEF c

OfJoins(s, t, S) == Of(s \o t, S) = Of(s, S) \o Of(t, S)

LEMMA OfJoined ==
  ASSUME NEW X, NEW s \in Seq(X), NEW t \in Seq(X), NEW S
  PROVE  OfJoins(s, t, S)
<1>. DEFINE a == Of(s, S)
            P == {r \in Seq(X) : Of(s \o r, S) = a \o Of(r, S)}
<1>0. a \in Seq(X)
  BY OfStays
<1>1. <<>> \in P
  <2>. HIDE DEF a
  <2>1. <<>> \in Seq(X) /\ s \o <<>> = s /\ a \o <<>> = a
    BY <1>0, Joined
  <2>2. Of(<<>>, S) = <<>> /\ Of(s, S) = a
    BY OfNothing DEF a
  <2>3. Of(s \o <<>>, S) = a \o Of(<<>>, S)
    BY ONLY <2>1, <2>2
  <2>. QED
    BY <2>1, <2>3, Zenon DEF a
<1>2. ASSUME NEW r \in Seq(X), r \in P, NEW x \in X PROVE Append(r, x) \in P
  <2>. DEFINE q == s \o r
              c == Of(r, S)
  <2>. HIDE DEF q, c, a
  <2>1. s \o Append(r, x) = Append(q, x) /\ Append(r, x) \in Seq(X)
    BY ConcatAppend DEF q
  <2>2. q \in Seq(X) /\ c \in Seq(X)
    BY Joined, OfStays DEF q, c
  <2>3. Of(Append(q, x), S) = IF x \in S THEN Append(Of(q, S), x) ELSE Of(q, S)
    BY ONLY <2>2, x \in X, OfAppend
  <2>4. Of(Append(r, x), S) = IF x \in S THEN Append(c, x) ELSE c
    BY OfAppend DEF c
  <2>5. Of(q, S) = a \o c
    BY <1>2 DEF q, c, a
  <2>6. a \o Append(c, x) = Append(a \o c, x)
    BY <1>0, <2>2, ConcatAppend DEF a
  <2>7. Of(s \o Append(r, x), S) = a \o Of(Append(r, x), S)
    <3>1. CASE x \in S
      BY ONLY <2>1, <2>3, <2>4, <2>5, <2>6, <3>1
    <3>2. CASE x \notin S
      BY ONLY <2>1, <2>3, <2>4, <2>5, <3>2
    <3>. QED
      BY <3>1, <3>2
  <2>. QED
    BY ONLY <2>1, <2>7, Zenon DEF a
<1>. HIDE DEF P
<1>3. t \in P
  BY <1>1, <1>2, Grows DEF Grown
<1>. QED
  BY <1>3 DEF P, OfJoins

LEMMA OfConcat ==
  ASSUME NEW X, NEW s \in Seq(X), NEW t \in Seq(X), NEW S
  PROVE  Of(s \o t, S) = Of(s, S) \o Of(t, S)
<1>1. OfJoins(s, t, S)
  BY OfJoined
<1>. QED
  BY <1>1 DEF OfJoins

\* Elements of S are chosen, others are not.
LEMMA OfAll ==
  ASSUME NEW S, NEW s \in Seq(S)
  PROVE  Of(s, S) = s
<1>. DEFINE P == {r \in Seq(S) : Of(r, S) = r}
<1>1. <<>> \in P
  <2>1. <<>> \in Seq(S) /\ Of(<<>>, S) = <<>>
    BY OfNothing
  <2>. QED
    BY <2>1, Zenon
<1>2. ASSUME NEW r \in Seq(S), r \in P, NEW x \in S PROVE Append(r, x) \in P
  <2>1. Of(Append(r, x), S) = Append(Of(r, S), x) /\ Append(r, x) \in Seq(S)
    BY OfAppend
  <2>2. Of(r, S) = r
    BY <1>2
  <2>. QED
    BY <2>1, <2>2, Zenon
<1>. HIDE DEF P
<1>3. s \in P
  BY <1>1, <1>2, Grows DEF Grown
<1>. QED
  BY <1>3 DEF P

LEMMA OfNone ==
  ASSUME NEW X, NEW S, X \cap S = {}, NEW s \in Seq(X)
  PROVE  Of(s, S) = <<>>
<1>1. Of(s, S) \in Seq({})
  BY OfType
<1>. QED
  BY <1>1

LEMMA OfOne ==
  ASSUME NEW x, NEW S
  PROVE  Of(<<x>>, S) = IF x \in S THEN <<x>> ELSE <<>>
<1>1. <<x>> = Append(<<>>, x) /\ <<>> \in Seq({x}) /\ x \in {x}
  OBVIOUS
<1>2. Of(Append(<<>>, x), S) = IF x \in S THEN Append(Of(<<>>, S), x) ELSE Of(<<>>, S)
  BY ONLY <1>1, OfAppend
<1>. QED
  BY ONLY <1>1, <1>2, OfNothing

\* Nothing is chosen of the part between two others.
OfEnds(s, t, u, S) == Of((s \o t) \o u, S) = Of(s, S) \o Of(u, S)

LEMMA OfAround ==
  ASSUME NEW X, NEW s \in Seq(X), NEW t \in Seq(X), NEW u \in Seq(X), NEW S,
         Of(t, S) = <<>>
  PROVE  OfEnds(s, t, u, S)
<1>. DEFINE st == s \o t
            o == Of(s, S)
<1>1. st \in Seq(X) /\ o \in Seq(X)
  BY Joined, OfStays
<1>2. Of(st, S) = o \o Of(t, S)
  <2>1. OfJoins(s, t, S)
    BY OfJoined
  <2>. QED
    BY ONLY <2>1 DEF OfJoins, st, o
<1>. HIDE DEF st, o
<1>3. o \o <<>> = o
  BY <1>1, Joined
<1>4. Of(st \o u, S) = Of(st, S) \o Of(u, S)
  <2>1. st \in Seq(X)
    BY <1>1
  <2>. QED
    <3>1. OfJoins(st, u, S)
      BY <2>1, OfJoined
    <3>. QED
      BY ONLY <3>1 DEF OfJoins
<1>5. Of(st \o u, S) = o \o Of(u, S)
  BY <1>2, <1>3, <1>4
<1>. QED
  BY <1>5 DEF st, o, OfEnds

-----------------------------------------------------------------------------
(* Flattening.                                                             *)

Pours(g, ss, n) == \A k \in 1 .. n : g[k] = IF k = 1 THEN ss[k] ELSE g[k - 1] \o ss[k]

PoursFrom(g, ss, n) == g = [k \in 1 .. n |-> IF k = 1 THEN ss[k] ELSE g[k - 1] \o ss[k]]

LEMMA PoursAre ==
  ASSUME NEW g, NEW ss, NEW n \in Nat
  PROVE  PoursFrom(g, ss, n) => Pours(g, ss, n)
<1>. DEFINE G(f) == [k \in 1 .. n |-> IF k = 1 THEN ss[k] ELSE f[k - 1] \o ss[k]]
<1>1. ASSUME NEW f, NEW h, h = G(f)
      PROVE  \A k \in 1 .. n : h[k] = IF k = 1 THEN ss[k] ELSE f[k - 1] \o ss[k]
  BY <1>1
<1>. HIDE DEF G
<1>2. PoursFrom(g, ss, n) => g = G(g)
  BY DEF PoursFrom, G
<1>. QED
  BY <1>1, <1>2 DEF Pours

LEMMA PoursSame ==
  ASSUME NEW n \in Nat, NEW g, NEW h, NEW ss, NEW tt,
         Pours(g, ss, n), Pours(h, tt, n), \A k \in 1 .. n : ss[k] = tt[k]
  PROVE  \A k \in 1 .. n : g[k] = h[k]
<1>. DEFINE P == {k \in 0 .. n : k = 0 \/ g[k] = h[k]}
<1>1. 0 \in P
  OBVIOUS
<1>2. ASSUME NEW k \in 1 .. n, k - 1 \in P PROVE k \in P
  <2>1. k \in 0 .. n /\ ss[k] = tt[k] /\ (k = 1 \/ k - 1 # 0)
    OBVIOUS
  <2>2. k - 1 = 0 \/ g[k - 1] = h[k - 1]
    BY <1>2
  <2>3. g[k] = (IF k = 1 THEN ss[k] ELSE g[k - 1] \o ss[k])
        /\ h[k] = (IF k = 1 THEN tt[k] ELSE h[k - 1] \o tt[k])
    BY DEF Pours
  <2>4. g[k] = h[k]
    BY ONLY <2>1, <2>2, <2>3, Zenon
  <2>. QED
    BY <2>1, <2>4, Zenon
<1>3. \A k \in 0 .. n : k \in P
  <2>. HIDE DEF P
  <2>. QED
    BY <1>1, <1>2, Climbs
<1>4. \A k \in 1 .. n : k \in 0 .. n /\ k # 0
  OBVIOUS
<1>. QED
  BY <1>3, <1>4

LEMMA PoursExist ==
  ASSUME NEW X, NEW ss \in Seq(X)
  PROVE  \E g : PoursFrom(g, ss, Len(ss))
<1>. DEFINE P == {r \in Seq(X) : \E g : PoursFrom(g, r, Len(r))}
<1>1. <<>> \in P
  <2>. DEFINE g == [k \in 1 .. 0 |-> <<>>]
  <2>1. PoursFrom(g, <<>>, 0)
    BY DEF PoursFrom
  <2>2. Len(<<>>) = 0 /\ <<>> \in Seq(X)
    OBVIOUS
  <2>3. PoursFrom(g, <<>>, Len(<<>>))
    BY <2>1, <2>2, Zenon
  <2>. HIDE DEF g
  <2>. QED
    BY <2>2, <2>3, Zenon
<1>2. ASSUME NEW r \in Seq(X), r \in P, NEW x \in X PROVE Append(r, x) \in P
  <2>. DEFINE q == Append(r, x)
              n == Len(r)
  <2>. HIDE DEF q, n
  <2>1. /\ q \in Seq(X) /\ n \in Nat /\ Len(q) = n + 1
        /\ \A i \in 1 .. n : q[i] = r[i]
        /\ q[n + 1] = x
    BY AppendFacts DEF q, n
  <2>2. PICK f : PoursFrom(f, r, n)
    BY <1>2 DEF n
  <2>3. Pours(f, r, n)
    BY <2>1, <2>2, PoursAre
  <2>. DEFINE last == IF n = 0 THEN x ELSE f[n] \o x
              g == [k \in 1 .. n + 1 |-> IF k = n + 1 THEN last ELSE f[k]]
  <2>. HIDE DEF last
  <2>4. g[n + 1] = last /\ \A k \in 1 .. n : g[k] = f[k]
    BY <2>1
  <2>5. ASSUME NEW k \in 1 .. n + 1
        PROVE  g[k] = IF k = 1 THEN q[k] ELSE g[k - 1] \o q[k]
    <3>. HIDE DEF g
    <3>1. CASE k \in 1 .. n
      <4>1. k = 1 \/ k - 1 \in 1 .. n
        BY <2>1, <3>1
      <4>2. g[k] = f[k] /\ (k = 1 \/ g[k - 1] = f[k - 1]) /\ q[k] = r[k]
        BY ONLY <2>1, <2>4, <3>1, <4>1
      <4>3. f[k] = IF k = 1 THEN r[k] ELSE f[k - 1] \o r[k]
        BY ONLY <2>3, <3>1 DEF Pours
      <4>. QED
        BY ONLY <4>2, <4>3, Zenon
    <3>2. CASE k = n + 1
      <4>1. k - 1 = n /\ (n = 0 <=> k = 1) /\ (n = 0 \/ n \in 1 .. n)
        BY <2>1, <3>2
      <4>2. g[k] = last /\ (n = 0 \/ g[k - 1] = f[n]) /\ q[k] = x
        BY ONLY <2>1, <2>4, <3>2, <4>1
      <4>3. last = IF n = 0 THEN x ELSE f[n] \o x
        BY DEF last
      <4>. QED
        BY ONLY <4>1, <4>2, <4>3, Zenon
    <3>. QED
      BY <2>1, <3>1, <3>2
  <2>6. PoursFrom(g, q, n + 1)
    <3>1. g = [k \in 1 .. n + 1 |-> g[k]]
      OBVIOUS
    <3>. HIDE DEF g
    <3>. QED
      BY ONLY <2>5, <3>1 DEF PoursFrom
  <2>. HIDE DEF g
  <2>7. PoursFrom(g, q, Len(q))
    BY <2>1, <2>6, Zenon
  <2>. QED
    BY <2>1, <2>7, Zenon DEF q
<1>. HIDE DEF P
<1>3. ss \in P
  BY <1>1, <1>2, Grows DEF Grown
<1>. QED
  BY <1>3 DEF P

LEMMA FlatPours ==
  ASSUME NEW X, NEW ss \in Seq(X)
  PROVE  \E g : Pours(g, ss, Len(ss))
                /\ FlattenSeq(ss) = IF Len(ss) = 0 THEN ss ELSE g[Len(ss)]
<1>. DEFINE g == CHOOSE f : PoursFrom(f, ss, Len(ss))
<1>1. PoursFrom(g, ss, Len(ss))
  BY PoursExist
<1>2. FlattenSeq(ss) = IF Len(ss) = 0 THEN ss ELSE g[Len(ss)]
  BY DEF FlattenSeq, PoursFrom
<1>. HIDE DEF g
<1>3. Len(ss) \in Nat
  OBVIOUS
<1>4. Pours(g, ss, Len(ss))
  BY <1>1, <1>3, PoursAre
<1>. QED
  BY <1>2, <1>4

LEMMA FlatNothing == FlattenSeq(<<>>) = <<>>
BY DEF FlattenSeq

LEMMA FlatAppend ==
  ASSUME NEW X, NEW ss \in Seq(Seq(X)), NEW s \in Seq(X)
  PROVE  FlattenSeq(Append(ss, s)) = FlattenSeq(ss) \o s
<1>. DEFINE tt == Append(ss, s)
            n == Len(ss)
<1>. HIDE DEF tt, n
<1>1. /\ tt \in Seq(Seq(X)) /\ n \in Nat /\ Len(tt) = n + 1
      /\ \A i \in 1 .. n : tt[i] = ss[i]
      /\ tt[n + 1] = s
  BY AppendFacts DEF tt, n
<1>2. PICK g : Pours(g, ss, n) /\ FlattenSeq(ss) = IF n = 0 THEN ss ELSE g[n]
  BY FlatPours DEF n
<1>3. PICK h : Pours(h, tt, n + 1) /\ FlattenSeq(tt) = h[n + 1]
  <2>1. PICK f : Pours(f, tt, Len(tt)) /\ FlattenSeq(tt) = IF Len(tt) = 0 THEN tt ELSE f[Len(tt)]
    BY <1>1, FlatPours
  <2>2. Len(tt) # 0
    BY <1>1
  <2>. QED
    BY <1>1, <2>1, <2>2
<1>4. n + 1 \in 1 .. n + 1 /\ (n + 1) - 1 = n /\ (n = 0 <=> n + 1 = 1)
  BY <1>1
<1>5. h[n + 1] = IF n = 0 THEN s ELSE h[n] \o s
  BY ONLY <1>1, <1>3, <1>4 DEF Pours
<1>6. CASE n = 0
  <2>1. ss = <<>> /\ <<>> \o s = s
    BY <1>6 DEF n
  <2>. QED
    BY <1>2, <1>3, <1>5, <1>6, <2>1 DEF tt
<1>7. CASE n # 0
  <2>1. Pours(h, tt, n) /\ n \in 1 .. n
    BY <1>1, <1>3, <1>7 DEF Pours
  <2>2. h[n] = g[n]
    BY ONLY <1>1, <1>2, <2>1, PoursSame
  <2>3. FlattenSeq(tt) = FlattenSeq(ss) \o s
    BY ONLY <1>2, <1>3, <1>5, <1>7, <2>2, Zenon
  <2>. QED
    BY <2>3 DEF tt
<1>. QED
  BY <1>6, <1>7

LEMMA FlatType ==
  ASSUME NEW X, NEW ss \in Seq(Seq(X))
  PROVE  FlattenSeq(ss) \in Seq(X)
<1>. DEFINE P == {r \in Seq(Seq(X)) : FlattenSeq(r) \in Seq(X)}
<1>1. <<>> \in P
  <2>1. <<>> \in Seq(Seq(X)) /\ FlattenSeq(<<>>) = <<>> /\ <<>> \in Seq(X)
    BY FlatNothing
  <2>. QED
    BY <2>1, Zenon
<1>2. ASSUME NEW r \in Seq(Seq(X)), r \in P, NEW s \in Seq(X) PROVE Append(r, s) \in P
  <2>. DEFINE q == Append(r, s)
              c == FlattenSeq(r)
  <2>. HIDE DEF q, c
  <2>1. q \in Seq(Seq(X))
    BY DEF q
  <2>2. c \in Seq(X)
    BY <1>2 DEF c
  <2>3. FlattenSeq(q) = c \o s
    BY FlatAppend DEF q, c
  <2>4. FlattenSeq(q) \in Seq(X)
    BY <2>2, <2>3
  <2>. QED
    BY <2>1, <2>4, Zenon DEF q
<1>. HIDE DEF P
<1>3. ss \in P
  BY <1>1, <1>2, Grows DEF Grown
<1>. QED
  BY <1>3 DEF P

LEMMA FlatConcat ==
  ASSUME NEW X, NEW ss \in Seq(Seq(X)), NEW tt \in Seq(Seq(X))
  PROVE  FlattenSeq(ss \o tt) = FlattenSeq(ss) \o FlattenSeq(tt)
<1>. DEFINE a == FlattenSeq(ss)
            P == {r \in Seq(Seq(X)) : FlattenSeq(ss \o r) = a \o FlattenSeq(r)}
<1>0. a \in Seq(X)
  BY FlatType
<1>1. <<>> \in P
  <2>. HIDE DEF a
  <2>1. <<>> \in Seq(Seq(X)) /\ ss \o <<>> = ss /\ a \o <<>> = a
    BY <1>0, Joined
  <2>2. FlattenSeq(<<>>) = <<>> /\ FlattenSeq(ss) = a
    BY FlatNothing DEF a
  <2>3. FlattenSeq(ss \o <<>>) = a \o FlattenSeq(<<>>)
    BY ONLY <2>1, <2>2
  <2>. QED
    BY <2>1, <2>3, Zenon DEF a
<1>2. ASSUME NEW r \in Seq(Seq(X)), r \in P, NEW s \in Seq(X) PROVE Append(r, s) \in P
  <2>. DEFINE q == ss \o r
              c == FlattenSeq(r)
  <2>. HIDE DEF q, c, a
  <2>1. ss \o Append(r, s) = Append(q, s) /\ Append(r, s) \in Seq(Seq(X))
    BY ConcatAppend DEF q
  <2>2. q \in Seq(Seq(X)) /\ c \in Seq(X)
    BY Joined, FlatType DEF q, c
  <2>3. FlattenSeq(Append(q, s)) = FlattenSeq(q) \o s
    BY ONLY <2>2, s \in Seq(X), FlatAppend
  <2>4. FlattenSeq(Append(r, s)) = c \o s
    BY FlatAppend DEF c
  <2>5. FlattenSeq(q) = a \o c
    BY <1>2 DEF q, c, a
  <2>6. (a \o c) \o s = a \o (c \o s)
    <3>1. a \in Seq(X) /\ c \in Seq(X) /\ s \in Seq(X)
      BY <1>0, <2>2
    <3>2. (a \o c) \o s = a \o (c \o s)
      BY ONLY <3>1
    <3>. QED
      BY <3>2
  <2>7. FlattenSeq(ss \o Append(r, s)) = a \o FlattenSeq(Append(r, s))
    BY ONLY <2>1, <2>3, <2>4, <2>5, <2>6
  <2>. QED
    BY ONLY <2>1, <2>7, Zenon DEF a
<1>. HIDE DEF P
<1>3. tt \in P
  BY <1>1, <1>2, Grows DEF Grown
<1>. QED
  BY <1>3 DEF P

LEMMA FlatOne ==
  ASSUME NEW X, NEW s \in Seq(X)
  PROVE  FlattenSeq(<<s>>) = s
<1>1. <<s>> = Append(<<>>, s) /\ <<>> \in Seq(Seq(X)) /\ <<>> \o s = s
  OBVIOUS
<1>2. FlattenSeq(Append(<<>>, s)) = FlattenSeq(<<>>) \o s
  BY ONLY <1>1, s \in Seq(X), FlatAppend
<1>. QED
  BY ONLY <1>1, <1>2, FlatNothing

-----------------------------------------------------------------------------
(* Messages of a conversation, behind its opening, and their entries.      *)

Chat == Spoken \cup {"question", "image", "result"}

ChatBlock == [kind : {"text", "image", "tool_use", "tool_result"}, text : Saying(Chat)]

ChatMessage ==
  [role : {"user", "assistant", "tool"}, blocks : Seq(ChatBlock), calls : Seq(Saying({"call"}))]

ChatEntry == [role : {"user", "assistant", "tool"}, content : Seq(Saying(Chat))]

LEMMA SayingFacts ==
  /\ \A a, b : a \subseteq b => Saying(a) \subseteq Saying(b)
  /\ \A a, b : a \cap b = {} => Saying(a) \cap Saying(b) = {}
  /\ \A a, what, names : Text(what, names) \in Saying(a) <=> what \in a /\ names \in Seq(Nat \X Nat)
BY DEF Saying, Text

LEMMA ChatFacts ==
  /\ Chat \subseteq Whats /\ Spoken \subseteq Chat /\ "tools" \notin Chat /\ "result" \notin Spoken
  /\ {"call"} \subseteq Spoken
BY DEF Chat, Spoken, Whats

LEMMA BlockIn ==
  ASSUME NEW K, NEW b \in ChatBlock
  PROVE  b \in Blocks(K) <=> b.kind \in K
<1>1. b = [kind |-> b.kind, text |-> b.text] /\ b.text \in Saying(Chat)
  BY DEF ChatBlock
<1>2. b.text \in Saying(Whats)
  BY <1>1, SayingFacts, ChatFacts
<1>. QED
  BY <1>1, <1>2 DEF Blocks

\* The texts of the blocks of some kinds.
Speech(K, blocks) == Texts(Of(blocks, Blocks(K)))

TextOf == [b \in ChatBlock |-> b.text]

LEMMA TextOfFacts == MapsTo(TextOf, ChatBlock, Saying(Chat)) /\ \A b \in ChatBlock : TextOf[b] = b.text
BY DEF MapsTo, TextOf, ChatBlock

LEMMA TextsMap ==
  ASSUME NEW s \in Seq(ChatBlock)
  PROVE  Texts(s) = Map(TextOf, s)
<1>1. \A i \in DOMAIN s : s[i] \in ChatBlock
  OBVIOUS
<1>. QED
  BY <1>1, TextOfFacts DEF Texts, Map

LEMMA SpeechNone ==
  ASSUME NEW K
  PROVE  Speech(K, <<>>) = <<>>
<1>1. Of(<<>>, Blocks(K)) = <<>>
  BY OfNothing
<1>2. <<>> \in Seq(ChatBlock)
  OBVIOUS
<1>. QED
  BY <1>1, <1>2, TextsMap, MapNone DEF Speech

LEMMA SpeechType ==
  ASSUME NEW K, NEW s \in Seq(ChatBlock)
  PROVE  Speech(K, s) \in Seq(Saying(Chat))
<1>. DEFINE c == Of(s, Blocks(K))
<1>. HIDE DEF c
<1>1. c \in Seq(ChatBlock)
  BY OfStays DEF c
<1>. QED
  BY <1>1, TextsMap, MapFacts, TextOfFacts DEF Speech, c

LEMMA SpeechAppend ==
  ASSUME NEW K, NEW s \in Seq(ChatBlock), NEW b \in ChatBlock
  PROVE  Speech(K, Append(s, b))
           = IF b.kind \in K THEN Append(Speech(K, s), b.text) ELSE Speech(K, s)
<1>. DEFINE c == Of(s, Blocks(K))
            d == Of(Append(s, b), Blocks(K))
<1>. HIDE DEF c, d
<1>1. c \in Seq(ChatBlock)
  BY OfStays DEF c
<1>2. d = IF b.kind \in K THEN Append(c, b) ELSE c
  BY OfAppend, BlockIn DEF c, d
<1>3. Speech(K, Append(s, b)) = Texts(d) /\ Speech(K, s) = Texts(c)
  BY DEF Speech, c, d
<1>4. CASE b.kind \in K
  <2>1. d \in Seq(ChatBlock) /\ d = Append(c, b)
    BY <1>1, <1>2, <1>4
  <2>2. Texts(d) = Map(TextOf, Append(c, b)) /\ Texts(c) = Map(TextOf, c)
    BY <1>1, <2>1, TextsMap
  <2>3. Map(TextOf, Append(c, b)) = Append(Map(TextOf, c), b.text)
    BY <1>1, TextOfFacts, MapAppend
  <2>. QED
    BY <1>3, <1>4, <2>2, <2>3
<1>5. CASE b.kind \notin K
  BY <1>2, <1>3, <1>5
<1>. QED
  BY <1>4, <1>5

LEMMA SpeechOne ==
  ASSUME NEW K, NEW b \in ChatBlock
  PROVE  Speech(K, <<b>>) = IF b.kind \in K THEN <<b.text>> ELSE <<>>
<1>. DEFINE e == <<>>
<1>1. <<b>> = Append(e, b) /\ <<b.text>> = Append(e, b.text) /\ e \in Seq(ChatBlock)
  OBVIOUS
<1>2. Speech(K, e) = e
  BY SpeechNone
<1>. HIDE DEF e
<1>3. Speech(K, Append(e, b)) = IF b.kind \in K THEN Append(e, b.text) ELSE e
  BY <1>1, <1>2, SpeechAppend
<1>. QED
  BY ONLY <1>1, <1>3 DEF e

\* Blocks of kinds that count: all their texts.
LEMMA SpeechAll ==
  ASSUME NEW K, NEW s \in Seq(ChatBlock), \A i \in 1 .. Len(s) : s[i].kind \in K
  PROVE  Speech(K, s) = Texts(s)
<1>1. \A i \in 1 .. Len(s) : s[i] \in Blocks(K)
  BY BlockIn
<1>2. s \in Seq(Blocks(K))
  BY <1>1
<1>3. Of(s, Blocks(K)) = s
  BY <1>2, OfAll
<1>. QED
  BY <1>3 DEF Speech

\* What becomes of a message.
Content(protocol, m) ==
  IF protocol = "openai" THEN IntoText(m.blocks) \o m.calls ELSE IntoQwen3Text(m.blocks)

Turn(protocol) == [m \in ChatMessage |-> Entry(m.role, Content(protocol, m))]

Lines(protocol, tail) == Map(Turn(protocol), tail)

LEMMA ContentType ==
  ASSUME NEW protocol, NEW m \in ChatMessage
  PROVE  Content(protocol, m) \in Seq(Saying(Chat))
<1>1. m.blocks \in Seq(ChatBlock) /\ m.calls \in Seq(Saying({"call"}))
  BY DEF ChatMessage
<1>2. IntoText(m.blocks) \in Seq(Saying(Chat))
  BY <1>1, SpeechType DEF IntoText, Speech
<1>3. IntoQwen3Text(m.blocks) \in Seq(Saying(Chat))
  BY <1>1, SpeechType DEF IntoQwen3Text, Speech
<1>4. m.calls \in Seq(Saying(Chat))
  <2>1. Saying({"call"}) \subseteq Saying(Chat)
    BY SayingFacts, ChatFacts
  <2>. QED
    BY <1>1, <2>1, Wider
<1>5. IntoText(m.blocks) \o m.calls \in Seq(Saying(Chat))
  BY ONLY <1>2, <1>4, Joined
<1>. QED
  BY <1>3, <1>5 DEF Content

LEMMA TurnFacts ==
  ASSUME NEW protocol
  PROVE  /\ MapsTo(Turn(protocol), ChatMessage, ChatEntry)
         /\ \A m \in ChatMessage : Turn(protocol)[m] = Entry(m.role, Content(protocol, m))
<1>1. \A m \in ChatMessage : m.role \in {"user", "assistant", "tool"}
  BY DEF ChatMessage
<1>2. \A m \in ChatMessage : Entry(m.role, Content(protocol, m)) \in ChatEntry
  BY <1>1, ContentType DEF Entry, ChatEntry
<1>. QED
  BY <1>2 DEF MapsTo, Turn

LEMMA LinesFacts ==
  ASSUME NEW protocol, NEW s \in Seq(ChatMessage), NEW t \in Seq(ChatMessage)
  PROVE  /\ Lines(protocol, s) \in Seq(ChatEntry)
         /\ Lines(protocol, s \o t) = Lines(protocol, s) \o Lines(protocol, t)
BY TurnFacts, MapFacts, MapConcat DEF Lines

LEMMA LinesOne ==
  ASSUME NEW protocol, NEW m \in ChatMessage
  PROVE  Lines(protocol, <<m>>) = <<Entry(m.role, Content(protocol, m))>>
<1>1. Map(Turn(protocol), <<m>>) = <<Turn(protocol)[m]>>
  BY TurnFacts, MapOne
<1>. QED
  BY <1>1, TurnFacts DEF Lines

-----------------------------------------------------------------------------
(* What entries say.                                                       *)

AnyEntry == [role : {"system", "user", "assistant", "tool"}, content : Seq(Saying(Whats))]

LEMMA EntriesAreAny == ChatEntry \subseteq AnyEntry
<1>1. Saying(Chat) \subseteq Saying(Whats)
  BY SayingFacts, ChatFacts
<1>2. \A s \in Seq(Saying(Chat)) : s \in Seq(Saying(Whats))
  BY <1>1, Wider
<1>. QED
  BY <1>2 DEF ChatEntry, AnyEntry

ContentOf == [e \in AnyEntry |-> e.content]

LEMMA ContentOfFacts ==
  /\ MapsTo(ContentOf, AnyEntry, Seq(Saying(Whats)))
  /\ \A e \in AnyEntry : ContentOf[e] = e.content /\ e.content \in Seq(Saying(Whats))
BY DEF MapsTo, ContentOf, AnyEntry

\* The contents of the entries of the model itself.
Own(entries) == LET own == Of(entries, Entries({"assistant"}))
                IN  [i \in DOMAIN own |-> own[i].content]

LEMMA EntryIn ==
  ASSUME NEW e \in AnyEntry
  PROVE  e \in Entries({"assistant"}) <=> e.role = "assistant"
BY DEF AnyEntry, Entries

LEMMA ContentsMap ==
  ASSUME NEW s \in Seq(AnyEntry)
  PROVE  [i \in DOMAIN s |-> s[i].content] = Map(ContentOf, s)
<1>1. \A i \in DOMAIN s : s[i] \in AnyEntry
  OBVIOUS
<1>. QED
  BY <1>1, ContentOfFacts DEF Map

LEMMA OwnMap ==
  ASSUME NEW s \in Seq(AnyEntry)
  PROVE  /\ Of(s, Entries({"assistant"})) \in Seq(AnyEntry)
         /\ Own(s) = Map(ContentOf, Of(s, Entries({"assistant"})))
<1>. DEFINE c == Of(s, Entries({"assistant"}))
<1>1. c \in Seq(AnyEntry)
  BY OfStays
<1>2. Own(s) = [i \in DOMAIN c |-> c[i].content]
  BY DEF Own
<1>. HIDE DEF c
<1>3. [i \in DOMAIN c |-> c[i].content] = Map(ContentOf, c)
  BY <1>1, ContentsMap
<1>. QED
  BY <1>1, <1>2, <1>3 DEF c

LEMMA OwnType ==
  ASSUME NEW s \in Seq(AnyEntry)
  PROVE  Own(s) \in Seq(Seq(Saying(Whats)))
BY OwnMap, MapFacts, ContentOfFacts

LEMMA OwnConcat ==
  ASSUME NEW s \in Seq(AnyEntry), NEW t \in Seq(AnyEntry)
  PROVE  Own(s \o t) = Own(s) \o Own(t)
<1>. DEFINE c == Of(s, Entries({"assistant"}))
            d == Of(t, Entries({"assistant"}))
<1>1. c \in Seq(AnyEntry) /\ d \in Seq(AnyEntry) /\ s \o t \in Seq(AnyEntry)
  BY OwnMap
<1>2. Own(s \o t) = Map(ContentOf, c \o d)
  <2>1. Own(s \o t) = Map(ContentOf, Of(s \o t, Entries({"assistant"})))
    BY <1>1, OwnMap
  <2>2. Of(s \o t, Entries({"assistant"})) = c \o d
    BY OfConcat
  <2>. QED
    BY <2>1, <2>2
<1>3. Map(ContentOf, c \o d) = Map(ContentOf, c) \o Map(ContentOf, d)
  <2>. HIDE DEF c, d
  <2>. QED
    BY <1>1, MapConcat, ContentOfFacts
<1>. QED
  BY <1>2, <1>3, OwnMap

LEMMA OwnOne ==
  ASSUME NEW e \in AnyEntry
  PROVE  Own(<<e>>) = IF e.role = "assistant" THEN <<e.content>> ELSE <<>>
<1>1. <<e>> \in Seq(AnyEntry)
  OBVIOUS
<1>2. Of(<<e>>, Entries({"assistant"})) = IF e.role = "assistant" THEN <<e>> ELSE <<>>
  BY OfOne, EntryIn
<1>3. Own(<<e>>) = Map(ContentOf, Of(<<e>>, Entries({"assistant"})))
  BY <1>1, OwnMap
<1>4. Map(ContentOf, <<>>) = <<>>
  BY MapNone
<1>5. Map(ContentOf, <<e>>) = <<ContentOf[e]>>
  BY MapOne, ContentOfFacts
<1>6. ContentOf[e] = e.content
  BY ContentOfFacts
<1>. QED
  BY ONLY <1>2, <1>3, <1>4, <1>5, <1>6

LEMMA OwnNone ==
  ASSUME NEW s \in Seq(AnyEntry), \A i \in 1 .. Len(s) : s[i].role # "assistant"
  PROVE  Own(s) = <<>>
<1>. DEFINE X == {e \in AnyEntry : e.role # "assistant"}
<1>1. s \in Seq(X)
  OBVIOUS
<1>2. X \cap Entries({"assistant"}) = {}
  BY EntryIn
<1>. HIDE DEF X
<1>3. Of(s, Entries({"assistant"})) = <<>>
  BY <1>1, <1>2, OfNone
<1>. QED
  BY <1>3, OwnMap, MapNone

LEMMA AllMap ==
  ASSUME NEW s \in Seq(AnyEntry)
  PROVE  /\ All(s) = FlattenSeq(Map(ContentOf, s))
         /\ Map(ContentOf, s) \in Seq(Seq(Saying(Whats)))
         /\ All(s) \in Seq(Saying(Whats))
<1>1. All(s) = FlattenSeq(Map(ContentOf, s))
  BY ContentsMap DEF All
<1>2. Map(ContentOf, s) \in Seq(Seq(Saying(Whats)))
  BY MapFacts, ContentOfFacts
<1>3. FlattenSeq(Map(ContentOf, s)) \in Seq(Saying(Whats))
  BY <1>2, FlatType
<1>. QED
  BY <1>1, <1>2, <1>3

LEMMA AllConcat ==
  ASSUME NEW s \in Seq(AnyEntry), NEW t \in Seq(AnyEntry)
  PROVE  All(s \o t) = All(s) \o All(t)
<1>. DEFINE a == Map(ContentOf, s)
            b == Map(ContentOf, t)
<1>1. s \o t \in Seq(AnyEntry)
  BY Joined
<1>2. Map(ContentOf, s \o t) = a \o b
  BY MapConcat, ContentOfFacts
<1>3. a \in Seq(Seq(Saying(Whats))) /\ b \in Seq(Seq(Saying(Whats)))
  BY AllMap
<1>4. FlattenSeq(a \o b) = FlattenSeq(a) \o FlattenSeq(b)
  <2>. HIDE DEF a, b
  <2>. QED
    BY <1>3, FlatConcat
<1>. QED
  BY <1>1, <1>2, <1>4, AllMap

LEMMA AllOne ==
  ASSUME NEW e \in AnyEntry
  PROVE  All(<<e>>) = e.content
<1>1. <<e>> \in Seq(AnyEntry)
  OBVIOUS
<1>2. Map(ContentOf, <<e>>) = <<ContentOf[e]>>
  BY MapOne, ContentOfFacts
<1>3. ContentOf[e] = e.content /\ e.content \in Seq(Saying(Whats))
  BY ContentOfFacts
<1>4. FlattenSeq(<<e.content>>) = e.content
  BY <1>3, FlatOne
<1>. QED
  BY <1>1, <1>2, <1>3, <1>4, AllMap

\* Entries of a conversation say only what is said there.
LEMMA AllChat ==
  ASSUME NEW s \in Seq(ChatEntry)
  PROVE  All(s) \in Seq(Saying(Chat))
<1>. DEFINE a == Map(ContentOf, s)
<1>1. s \in Seq(AnyEntry)
  BY EntriesAreAny, Wider
<1>2. \A i \in 1 .. Len(s) : s[i] \in ChatEntry /\ s[i] \in AnyEntry
  BY <1>1
<1>3. \A i \in 1 .. Len(s) : s[i].content \in Seq(Saying(Chat)) /\ ContentOf[s[i]] = s[i].content
  BY <1>2, ContentOfFacts DEF ChatEntry
<1>4. a \in Seq(Seq(Saying(Whats))) /\ Len(a) = Len(s) /\ \A i \in 1 .. Len(s) : a[i] = ContentOf[s[i]]
  BY <1>1, MapFacts, ContentOfFacts
<1>5. a \in Seq(Seq(Saying(Chat)))
  <2>. HIDE DEF a
  <2>1. \A i \in 1 .. Len(a) : a[i] \in Seq(Saying(Chat))
    BY <1>3, <1>4
  <2>. QED
    BY <1>4, <2>1, Retyped
<1>6. FlattenSeq(a) \in Seq(Saying(Chat))
  <2>. HIDE DEF a
  <2>. QED
    BY <1>5, FlatType
<1>. QED
  BY <1>1, <1>6, AllMap

-----------------------------------------------------------------------------
(* Names of texts, and the results of calls.                               *)

NamesOf(texts) == [i \in DOMAIN texts |-> texts[i].names]

NameOf == [x \in Saying(Whats) |-> x.names]

LEMMA NameOfFacts ==
  MapsTo(NameOf, Saying(Whats), Seq(Nat \X Nat)) /\ \A x \in Saying(Whats) : NameOf[x] = x.names
BY DEF MapsTo, NameOf, Saying

LEMMA NamesMap ==
  ASSUME NEW s \in Seq(Saying(Whats))
  PROVE  NamesOf(s) = Map(NameOf, s)
<1>1. \A i \in DOMAIN s : s[i] \in Saying(Whats)
  OBVIOUS
<1>. QED
  BY <1>1, NameOfFacts DEF NamesOf, Map

LEMMA NamesConcat ==
  ASSUME NEW s \in Seq(Saying(Whats)), NEW t \in Seq(Saying(Whats))
  PROVE  NamesOf(s \o t) = NamesOf(s) \o NamesOf(t)
<1>1. s \o t \in Seq(Saying(Whats))
  BY Joined
<1>. QED
  <2>1. NamesOf(s \o t) = Map(NameOf, s \o t) /\ NamesOf(s) = Map(NameOf, s)
        /\ NamesOf(t) = Map(NameOf, t)
    BY <1>1, NamesMap
  <2>2. Map(NameOf, s \o t) = Map(NameOf, s) \o Map(NameOf, t)
    BY MapConcat, NameOfFacts
  <2>. QED
    BY ONLY <2>1, <2>2

Results(calls) == [i \in DOMAIN calls |-> Text("result", calls[i].names)]

LEMMA ResultsFacts ==
  ASSUME NEW calls \in Seq(Saying({"call"}))
  PROVE  /\ Results(calls) \in Seq(Saying({"result"}))
         /\ NamesOf(Results(calls)) = NamesOf(calls)
<1>1. \A i \in 1 .. Len(calls) : calls[i] \in Saying({"call"})
  OBVIOUS
<1>2. \A i \in 1 .. Len(calls) : Text("result", calls[i].names) \in Saying({"result"})
  <2>1. \A i \in 1 .. Len(calls) : calls[i].names \in Seq(Nat \X Nat)
    BY <1>1 DEF Saying
  <2>. QED
    BY <2>1, SayingFacts
<1>3. DOMAIN calls = 1 .. Len(calls) /\ Len(calls) \in Nat
  OBVIOUS
<1>4. Results(calls) \in Seq(Saying({"result"}))
  BY <1>2, <1>3 DEF Results
<1>5. \A i \in DOMAIN calls : Text("result", calls[i].names).names = calls[i].names
  BY DEF Text
<1>6. NamesOf(Results(calls)) = NamesOf(calls)
  BY <1>5 DEF NamesOf, Results
<1>. QED
  BY <1>4, <1>6

-----------------------------------------------------------------------------
(* A prompt: a lead, and a line for each message behind the opening.       *)

\* What stands before a system text that is late.
Greeting == Entry("user", <<Text("question", <<<<0, 0>>>>)>>)

\* A system text that came as a message.
Top(st) ==
  IF st.system = "none" THEN <<>>
  ELSE IF st.system = "late" THEN <<Greeting>> \o <<Entry("system", <<System>>)>>
  ELSE <<Entry(IF st.system = "system" THEN "system" ELSE "user", <<System>>)>>

SystemText(st) ==
  (IF st.system = "system" THEN <<System>> ELSE <<>>)
    \o (IF st.tools = "some" THEN <<Tools>> ELSE <<>>)

Lead(st) ==
  IF st.protocol = "openai"
  THEN IF st.tools = "some"
       THEN IF st.system = "system" THEN <<Entry("system", <<System, Tools>>)>>
            ELSE IF st.system = "late" THEN <<Greeting>> \o <<Entry("system", <<System, Tools>>)>>
            ELSE <<Entry("system", <<Helper, Tools>>)>> \o Top(st)
       ELSE Top(st)
  ELSE IF SystemText(st) # <<>> THEN <<Entry("system", SystemText(st))>> ELSE <<>>

\* Before roles are known.
RawEntry == [role : {"system", "developer", "user", "assistant", "tool"},
             content : Seq(Saying(Whats))]

Mapped(entries) == [i \in DOMAIN entries |->
                      [entries[i] EXCEPT !.role = Role(@, {"system", "assistant", "tool"})]]

Settled == [e \in RawEntry |-> [e EXCEPT !.role = Role(@, {"system", "assistant", "tool"})]]

LEMMA SettledFacts ==
  /\ MapsTo(Settled, RawEntry, AnyEntry)
  /\ \A e \in AnyEntry : e \in RawEntry /\ Settled[e] = e
  /\ \A c \in Seq(Saying(Whats)) :
       Entry("developer", c) \in RawEntry /\ Settled[Entry("developer", c)] = Entry("user", c)
<1>1. \A e \in RawEntry : /\ [e EXCEPT !.role = Role(@, {"system", "assistant", "tool"})] \in AnyEntry
                          /\ Settled[e] = [e EXCEPT !.role = Role(@, {"system", "assistant", "tool"})]
  BY DEF Settled, RawEntry, AnyEntry, Role
<1>2. MapsTo(Settled, RawEntry, AnyEntry)
  BY <1>1 DEF MapsTo, Settled
<1>3. ASSUME NEW e \in AnyEntry PROVE e \in RawEntry /\ Settled[e] = e
  <2>1. e \in RawEntry
    BY DEF AnyEntry, RawEntry
  <2>2. [e EXCEPT !.role = Role(@, {"system", "assistant", "tool"})] = e
    BY DEF AnyEntry, Role
  <2>. QED
    BY <1>1, <2>1, <2>2
<1>4. ASSUME NEW c \in Seq(Saying(Whats))
      PROVE  Entry("developer", c) \in RawEntry /\ Settled[Entry("developer", c)] = Entry("user", c)
  <2>1. Entry("developer", c) \in RawEntry
    BY DEF Entry, RawEntry
  <2>2. [Entry("developer", c) EXCEPT !.role = Role(@, {"system", "assistant", "tool"})] = Entry("user", c)
    BY DEF Entry, Role
  <2>. QED
    BY <1>1, <2>1, <2>2
<1>. QED
  BY <1>2, <1>3, <1>4

LEMMA MappedMap ==
  ASSUME NEW s \in Seq(RawEntry)
  PROVE  Mapped(s) = Map(Settled, s)
<1>1. \A i \in DOMAIN s : s[i] \in RawEntry
  OBVIOUS
<1>2. \A e \in RawEntry : Settled[e] = [e EXCEPT !.role = Role(@, {"system", "assistant", "tool"})]
  BY DEF Settled
<1>. QED
  BY <1>1, <1>2 DEF Mapped, Map

LEMMA MappedSame ==
  ASSUME NEW s \in Seq(AnyEntry)
  PROVE  Mapped(s) = s /\ s \in Seq(RawEntry)
<1>1. s \in Seq(RawEntry)
  BY SettledFacts, Wider
<1>2. Map(Settled, s) \in Seq(AnyEntry) /\ Len(Map(Settled, s)) = Len(s)
      /\ \A i \in 1 .. Len(s) : Map(Settled, s)[i] = Settled[s[i]]
  BY <1>1, MapFacts, SettledFacts
<1>3. \A i \in 1 .. Len(s) : Settled[s[i]] = s[i]
  BY SettledFacts
<1>4. Map(Settled, s) = s
  <2>. DEFINE m == Map(Settled, s)
  <2>. HIDE DEF m
  <2>1. m \in Seq(AnyEntry) /\ Len(m) = Len(s) /\ \A i \in 1 .. Len(m) : m[i] = s[i]
    BY <1>2, <1>3 DEF m
  <2>2. m = s
    BY ONLY <2>1, s \in Seq(AnyEntry), SeqEqual
  <2>. QED
    BY <2>2 DEF m
<1>. QED
  BY <1>1, <1>4, MappedMap

LEMMA InjectNew ==
  ASSUME NEW s \in Seq(RawEntry), \A i \in 1 .. Len(s) : s[i].role # "system"
  PROVE  Inject(s) = <<Entry("system", <<Helper, Tools>>)>> \o s
<1>1. {i \in DOMAIN s : s[i].role = "system"} = {}
  OBVIOUS
<1>. QED
  BY <1>1 DEF Inject

LEMMA FixedTexts ==
  /\ Tools \in Saying(Whats) /\ Helper \in Saying(Whats) /\ System \in Saying(Whats)
  /\ Tools # Helper /\ Tools # System
<1>1. "tools" \in Whats /\ "helper" \in Whats /\ "system" \in Whats
  BY DEF Whats
<1>2. <<>> \in Seq(Nat \X Nat)
  OBVIOUS
<1>3. Tools # Helper /\ Tools # System
  BY DEF Tools, Helper, System, Text
<1>. QED
  BY <1>1, <1>2, <1>3, SayingFacts DEF Tools, Helper, System

LEMMA EntryExcept ==
  ASSUME NEW role, NEW c, NEW d
  PROVE  [Entry(role, c) EXCEPT !.content = d] = Entry(role, d)
BY DEF Entry

LEMMA InjectFront ==
  ASSUME NEW c \in Seq(Saying(Whats)), NEW s \in Seq(ChatEntry)
  PROVE  Inject(<<Entry("system", c)>> \o s) = <<Entry("system", Append(c, Tools))>> \o s
<1>. DEFINE es == <<Entry("system", c)>> \o s
            ts == <<Entry("system", Append(c, Tools))>> \o s
            systems == {i \in DOMAIN es : es[i].role = "system"}
            first == CHOOSE i \in systems : \A j \in systems : i <= j
            us == [es EXCEPT ![1].content = Append(@, Tools)]
<1>1. Tools \in Saying(Whats)
  BY FixedTexts
<1>2. Entry("system", c) \in AnyEntry /\ Entry("system", Append(c, Tools)) \in AnyEntry
  BY <1>1 DEF Entry, AnyEntry
<1>3. s \in Seq(AnyEntry) /\ Len(s) \in Nat
  BY EntriesAreAny, Wider
<1>4. /\ es \in Seq(AnyEntry) /\ Len(es) = Len(s) + 1
      /\ es[1] = Entry("system", c)
      /\ \A i \in 1 .. Len(s) : es[i + 1] = s[i]
  BY <1>2, <1>3
<1>5. /\ ts \in Seq(AnyEntry) /\ Len(ts) = Len(s) + 1
      /\ ts[1] = Entry("system", Append(c, Tools))
      /\ \A i \in 1 .. Len(s) : ts[i + 1] = s[i]
  BY <1>2, <1>3
<1>6. \A i \in 1 .. Len(s) : s[i].role # "system"
  <2>1. \A e \in ChatEntry : e.role # "system"
    BY DEF ChatEntry
  <2>. QED
    BY <2>1
<1>7. \A i \in 1 .. Len(s) + 1 : i = 1 \/ (i - 1 \in 1 .. Len(s) /\ i = (i - 1) + 1)
  BY <1>3
<1>8. systems = {1}
  <2>. HIDE DEF es
  <2>1. DOMAIN es = 1 .. Len(s) + 1 /\ 1 \in 1 .. Len(s) + 1
    BY <1>3, <1>4
  <2>2. es[1].role = "system"
    BY <1>4 DEF Entry
  <2>3. ASSUME NEW i \in 1 .. Len(s) + 1, es[i].role = "system" PROVE i = 1
    <3>. SUFFICES ASSUME i # 1 PROVE FALSE
      OBVIOUS
    <3>1. i - 1 \in 1 .. Len(s) /\ i = (i - 1) + 1
      BY <1>7
    <3>2. es[i] = s[i - 1]
      BY <1>4, <3>1
    <3>. QED
      BY <1>6, <2>3, <3>1, <3>2
  <2>. QED
    BY <2>1, <2>2, <2>3
<1>9. first = 1
  <2>. HIDE DEF systems
  <2>. QED
    BY <1>8
<1>10. Inject(es) = us
  <2>1. Inject(es) = IF systems # {} THEN [es EXCEPT ![first].content = Append(@, Tools)]
                                    ELSE <<Entry("system", <<Helper, Tools>>)>> \o es
    BY DEF Inject
  <2>. HIDE DEF systems, first, es
  <2>. QED
    BY <1>8, <1>9, <2>1
<1>11. us = ts
  <2>. HIDE DEF es, ts
  <2>1. DOMAIN us = 1 .. Len(s) + 1 /\ DOMAIN ts = 1 .. Len(s) + 1 /\ 1 \in 1 .. Len(s) + 1
    BY <1>3, <1>4, <1>5
  <2>2. us[1] = [es[1] EXCEPT !.content = Append(@, Tools)] /\ \A i \in 2 .. Len(s) + 1 : us[i] = es[i]
    BY <1>3, <2>1
  <2>3. [es[1] EXCEPT !.content = Append(@, Tools)] = ts[1]
    <3>1. es[1].content = c
      BY <1>4 DEF Entry
    <3>2. [Entry("system", c) EXCEPT !.content = Append(c, Tools)] = Entry("system", Append(c, Tools))
      BY EntryExcept
    <3>. QED
      BY <1>4, <1>5, <3>1, <3>2
  <2>4. ASSUME NEW i \in 1 .. Len(s) + 1, i # 1 PROVE es[i] = ts[i]
    BY <1>4, <1>5, <1>7, <2>4
  <2>5. ts = [i \in 1 .. Len(s) + 1 |-> ts[i]]
    BY <1>5, <2>1
  <2>6. us = [i \in 1 .. Len(s) + 1 |-> us[i]]
    BY <2>1
  <2>7. ASSUME NEW i \in 1 .. Len(s) + 1 PROVE us[i] = ts[i]
    <3>1. i = 1 \/ i \in 2 .. Len(s) + 1
      BY <1>3
    <3>. HIDE DEF us
    <3>. QED
      BY <2>2, <2>3, <2>4, <3>1
  <2>. HIDE DEF us
  <2>. QED
    BY <2>5, <2>6, <2>7
<1>. QED
  BY <1>10, <1>11

LEMMA InjectBehind ==
  ASSUME NEW e \in AnyEntry, e.role # "system", NEW c \in Seq(Saying(Whats)), NEW s \in Seq(ChatEntry)
  PROVE  Inject(<<e>> \o (<<Entry("system", c)>> \o s))
           = <<e>> \o (<<Entry("system", Append(c, Tools))>> \o s)
<1>. DEFINE es == <<e>> \o (<<Entry("system", c)>> \o s)
            ts == <<e>> \o (<<Entry("system", Append(c, Tools))>> \o s)
            n == Len(s) + 2
            systems == {i \in DOMAIN es : es[i].role = "system"}
            first == CHOOSE i \in systems : \A j \in systems : i <= j
            us == [es EXCEPT ![2].content = Append(@, Tools)]
<1>1. Entry("system", c) \in AnyEntry /\ Entry("system", Append(c, Tools)) \in AnyEntry
  BY FixedTexts DEF Entry, AnyEntry
<1>2. s \in Seq(AnyEntry) /\ Len(s) \in Nat /\ \A i \in 1 .. Len(s) : s[i].role # "system"
  <2>1. \A x \in ChatEntry : x.role # "system"
    BY DEF ChatEntry
  <2>. QED
    BY <2>1, EntriesAreAny, Wider
<1>3. ASSUME NEW f \in AnyEntry
      PROVE  LET x == <<e>> \o (<<f>> \o s)
             IN  /\ x \in Seq(AnyEntry) /\ DOMAIN x = 1 .. n
                 /\ x[1] = e /\ x[2] = f
                 /\ \A i \in 1 .. Len(s) : x[i + 2] = s[i]
  <2>. DEFINE y == <<f>> \o s
              x == <<e>> \o y
  <2>1. y \in Seq(AnyEntry) /\ Len(y) = Len(s) + 1 /\ y[1] = f
        /\ \A i \in 1 .. Len(s) : y[i + 1] = s[i]
    BY <1>2
  <2>. HIDE DEF y
  <2>2. x \in Seq(AnyEntry) /\ Len(x) = Len(y) + 1 /\ x[1] = e
        /\ \A i \in 1 .. Len(y) : x[i + 1] = y[i]
    BY <2>1
  <2>. HIDE DEF x
  <2>3. DOMAIN x = 1 .. n
    BY <1>2, <2>1, <2>2
  <2>4. x[2] = f
    BY <1>2, <2>1, <2>2
  <2>5. ASSUME NEW i \in 1 .. Len(s) PROVE x[i + 2] = s[i]
    <3>1. i + 1 \in 1 .. Len(y) /\ (i + 1) + 1 = i + 2
      BY <1>2, <2>1
    <3>. QED
      BY <2>1, <2>2, <3>1
  <2>. QED
    BY <2>2, <2>3, <2>4, <2>5 DEF x, y
<1>4. /\ es \in Seq(AnyEntry) /\ DOMAIN es = 1 .. n /\ es[1] = e /\ es[2] = Entry("system", c)
      /\ \A i \in 1 .. Len(s) : es[i + 2] = s[i]
  <2>. HIDE DEF n
  <2>. QED
    BY <1>1, <1>3
<1>5. /\ ts \in Seq(AnyEntry) /\ DOMAIN ts = 1 .. n
      /\ ts[1] = e /\ ts[2] = Entry("system", Append(c, Tools))
      /\ \A i \in 1 .. Len(s) : ts[i + 2] = s[i]
  <2>. HIDE DEF n
  <2>. QED
    BY <1>1, <1>3
<1>6. \A i \in 1 .. n : i = 1 \/ i = 2 \/ (i - 2 \in 1 .. Len(s) /\ i = (i - 2) + 2)
  BY <1>2
<1>7. 1 \in 1 .. n /\ 2 \in 1 .. n
  BY <1>2
<1>. HIDE DEF es, ts, n
<1>8. systems = {2}
  <2>1. es[2].role = "system"
    BY <1>4 DEF Entry
  <2>2. ASSUME NEW i \in 1 .. n, es[i].role = "system" PROVE i = 2
    <3>1. i # 1
      BY <1>4, <2>2
    <3>2. ASSUME i - 2 \in 1 .. Len(s), i = (i - 2) + 2 PROVE FALSE
      BY <1>2, <1>4, <2>2, <3>2
    <3>. QED
      BY <1>6, <3>1, <3>2
  <2>. QED
    BY <1>4, <1>7, <2>1, <2>2
<1>9. first = 2
  <2>. HIDE DEF systems
  <2>. QED
    BY <1>8
<1>10. Inject(es) = us
  <2>1. Inject(es) = IF systems # {} THEN [es EXCEPT ![first].content = Append(@, Tools)]
                                    ELSE <<Entry("system", <<Helper, Tools>>)>> \o es
    BY DEF Inject
  <2>. HIDE DEF systems, first
  <2>. QED
    BY <1>8, <1>9, <2>1
<1>11. us = ts
  <2>1. us[2] = [es[2] EXCEPT !.content = Append(@, Tools)] /\ DOMAIN us = 1 .. n
        /\ \A i \in 1 .. n : i # 2 => us[i] = es[i]
    BY <1>4, <1>7
  <2>2. [es[2] EXCEPT !.content = Append(@, Tools)] = ts[2]
    <3>1. es[2].content = c
      BY <1>4 DEF Entry
    <3>2. [Entry("system", c) EXCEPT !.content = Append(c, Tools)] = Entry("system", Append(c, Tools))
      BY EntryExcept
    <3>. QED
      BY <1>4, <1>5, <3>1, <3>2
  <2>3. ASSUME NEW i \in 1 .. n, i # 2 PROVE es[i] = ts[i]
    BY <1>4, <1>5, <1>6, <2>3
  <2>4. ts = [i \in 1 .. n |-> ts[i]]
    BY <1>5
  <2>5. us = [i \in 1 .. n |-> us[i]]
    BY <1>4
  <2>. HIDE DEF us
  <2>6. \A i \in 1 .. n : us[i] = ts[i]
    BY <2>1, <2>2, <2>3
  <2>. QED
    BY <2>4, <2>5, <2>6
<1>. QED
  BY <1>10, <1>11 DEF es, ts

LEMMA MappedFront ==
  ASSUME NEW e \in RawEntry, NEW s \in Seq(RawEntry)
  PROVE  /\ <<e>> \o s \in Seq(RawEntry)
         /\ Mapped(<<e>> \o s) = <<Settled[e]>> \o Mapped(s)
<1>1. <<e>> \in Seq(RawEntry)
  OBVIOUS
<1>2. <<e>> \o s \in Seq(RawEntry)
  BY <1>1, Joined
<1>3. Map(Settled, <<e>> \o s) = Map(Settled, <<e>>) \o Map(Settled, s)
  <2>. DEFINE one == <<e>>
  <2>. HIDE DEF one
  <2>1. one \in Seq(RawEntry)
    BY <1>1 DEF one
  <2>2. MapsTo(Settled, RawEntry, AnyEntry)
    BY SettledFacts
  <2>3. Map(Settled, one \o s) = Map(Settled, one) \o Map(Settled, s)
    BY ONLY <2>1, <2>2, s \in Seq(RawEntry), MapConcat
  <2>. QED
    BY <2>3 DEF one
<1>4. Map(Settled, <<e>>) = <<Settled[e]>>
  BY MapOne, SettledFacts
<1>. QED
  BY <1>2, <1>3, <1>4, MappedMap

\* The entry of a message in prepare_messages, before its role is known.
RawOf(m) == Entry(m.role, IntoText(m.blocks) \o m.calls)
Raws(ms) == [i \in DOMAIN ms |-> RawOf(ms[i])]

LEMMA RawsOfChat ==
  ASSUME NEW tail \in Seq(ChatMessage)
  PROVE  Raws(tail) = Lines("openai", tail)
<1>1. \A i \in DOMAIN tail : tail[i] \in ChatMessage
  OBVIOUS
<1>2. \A m \in ChatMessage : Turn("openai")[m] = RawOf(m)
  BY TurnFacts DEF Content, RawOf
<1>. QED
  BY <1>1, <1>2 DEF Raws, Lines, Map

LEMMA RawOfTop ==
  ASSUME NEW role
  PROVE  RawOf(Message(role, <<Block("text", System)>>, <<>>)) = Entry(role, <<System>>)
<1>. DEFINE b == Block("text", System)
<1>1. b \in Blocks({"text"}) /\ b.text = System
  BY FixedTexts DEF Block, Blocks
<1>2. Of(<<b>>, Blocks({"text"})) = <<b>>
  BY <1>1, OfOne
<1>3. Texts(<<b>>) = <<b.text>>
  <2>. HIDE DEF b
  <2>. QED
    BY DEF Texts
<1>4. IntoText(<<b>>) = <<System>>
  BY <1>1, <1>2, <1>3 DEF IntoText
<1>5. <<System>> \o <<>> = <<System>>
  OBVIOUS
<1>. HIDE DEF b
<1>6. RawOf(Message(role, <<b>>, <<>>)) = Entry(role, IntoText(<<b>>) \o <<>>)
  BY DEF RawOf, Message
<1>7. RawOf(Message(role, <<b>>, <<>>)) = Entry(role, <<System>>)
  BY <1>4, <1>5, <1>6
<1>. QED
  BY <1>7 DEF b

LEMMA RawsFront ==
  ASSUME NEW m, NEW X, NEW tail \in Seq(X)
  PROVE  Raws(<<m>> \o tail) = <<RawOf(m)>> \o Raws(tail)
<1>. DEFINE M == X \cup {m}
            f == [x \in M |-> RawOf(x)]
            R == {RawOf(x) : x \in M}
<1>1. MapsTo(f, M, R) /\ \A x \in M : f[x] = RawOf(x)
  BY DEF MapsTo
<1>2. m \in M /\ <<m>> \in Seq(M) /\ X \subseteq M
  OBVIOUS
<1>3. tail \in Seq(M)
  <2>. HIDE DEF M
  <2>. QED
    BY <1>2, Wider
<1>. HIDE DEF M, f, R
<1>4. \A s \in Seq(M) : Raws(s) = Map(f, s)
  <2>. TAKE s \in Seq(M)
  <2>1. \A i \in DOMAIN s : s[i] \in M
    OBVIOUS
  <2>. QED
    BY <1>1, <2>1 DEF Raws, Map
<1>5. <<m>> \o tail \in Seq(M)
  BY <1>2, <1>3, Joined
<1>6. Map(f, <<m>> \o tail) = Map(f, <<m>>) \o Map(f, tail)
  <2>. DEFINE one == <<m>>
  <2>. HIDE DEF one
  <2>1. one \in Seq(M)
    BY <1>2 DEF one
  <2>2. Map(f, one \o tail) = Map(f, one) \o Map(f, tail)
    BY ONLY <1>1, <1>3, <2>1, MapConcat
  <2>. QED
    BY <2>2 DEF one
<1>7. Map(f, <<m>>) = <<RawOf(m)>>
  BY <1>1, <1>2, MapOne
<1>. QED
  BY <1>3, <1>4, <1>5, <1>6, <1>7

LEMMA PrepareRaws ==
  ASSUME NEW ms
  PROVE  PrepareMessages(ms) = Mapped(IF setting.tools = "some" THEN Inject(Raws(ms)) ELSE Raws(ms))
BY DEF PrepareMessages, Mapped, Raws, RawOf

LEMMA LinesAny ==
  ASSUME NEW protocol, NEW tail \in Seq(ChatMessage)
  PROVE  /\ Lines(protocol, tail) \in Seq(ChatEntry)
         /\ Lines(protocol, tail) \in Seq(AnyEntry)
         /\ Lines(protocol, tail) \in Seq(RawEntry)
         /\ Mapped(Lines(protocol, tail)) = Lines(protocol, tail)
         /\ \A i \in 1 .. Len(Lines(protocol, tail)) : Lines(protocol, tail)[i].role # "system"
<1>. DEFINE L == Lines(protocol, tail)
<1>1. L \in Seq(ChatEntry)
  BY LinesFacts
<1>. HIDE DEF L
<1>2. L \in Seq(AnyEntry)
  BY <1>1, EntriesAreAny, Wider
<1>3. Mapped(L) = L /\ L \in Seq(RawEntry)
  BY <1>2, MappedSame
<1>4. \A i \in 1 .. Len(L) : L[i].role # "system"
  <2>1. \A e \in ChatEntry : e.role # "system"
    BY DEF ChatEntry
  <2>. QED
    BY <1>1, <2>1
<1>. QED
  BY <1>1, <1>2, <1>3, <1>4 DEF L

LEMMA SystemEntry ==
  ASSUME NEW c \in Seq(Saying(Whats)), NEW role \in {"system", "user"}
  PROVE  Entry(role, c) \in AnyEntry /\ Entry(role, c) \in RawEntry
         /\ Settled[Entry(role, c)] = Entry(role, c)
<1>1. Entry(role, c) \in AnyEntry
  BY DEF Entry, AnyEntry
<1>. QED
  BY <1>1, SettledFacts

LEMMA OneAndTwo ==
  ASSUME NEW X, NEW x \in X, NEW y \in X
  PROVE  /\ <<x>> \in Seq(X) /\ <<x, y>> \in Seq(X)
         /\ Append(<<x>>, y) = <<x, y>> /\ <<x>> \o <<y>> = <<x, y>>
<1>1. <<x>> \in Seq(X) /\ <<y>> \in Seq(X)
  OBVIOUS
<1>2. <<x, y>> \in Seq(X)
  OBVIOUS
<1>3. Append(<<x>>, y) = <<x, y>>
  <2>. DEFINE one == <<x>>
              u == Append(one, y)
              v == <<x, y>>
  <2>1. one \in Seq(X) /\ Len(one) = 1 /\ one[1] = x
    OBVIOUS
  <2>2. v \in Seq(X) /\ Len(v) = 2 /\ v[1] = x /\ v[2] = y
    OBVIOUS
  <2>. HIDE DEF one, v
  <2>3. u \in Seq(X) /\ Len(u) = 2 /\ u[1] = x /\ u[2] = y
    <3>1. /\ u \in Seq(X) /\ Len(u) = Len(one) + 1
          /\ \A i \in 1 .. Len(one) : u[i] = one[i]
          /\ u[Len(one) + 1] = y
      <4>1. one \in Seq(X)
        BY <2>1
      <4>. QED
        BY ONLY <4>1, y \in X, AppendFacts
    <3>. HIDE DEF u
    <3>2. Len(one) + 1 = 2 /\ 1 \in 1 .. Len(one)
      BY <2>1
    <3>3. u[2] = y
      BY ONLY <3>1, <3>2
    <3>. QED
      BY <2>1, <3>1, <3>2, <3>3
  <2>. HIDE DEF u
  <2>4. \A i \in 1 .. Len(u) : u[i] = v[i]
    BY <2>2, <2>3
  <2>5. u = v
    BY ONLY <2>2, <2>3, <2>4, SeqEqual
  <2>. QED
    BY <2>5 DEF u, v, one
<1>4. <<x>> \o <<y>> = <<x, y>>
  <2>. DEFINE one == <<x>>
              e == <<>>
  <2>1. Append(e, y) = <<y>> /\ e \in Seq(X)
    OBVIOUS
  <2>2. one \in Seq(X) /\ one \o e = one
    BY <1>1, Joined
  <2>. HIDE DEF one, e
  <2>3. one \o Append(e, y) = Append(one, y)
    BY <2>1, <2>2, ConcatAppend
  <2>. QED
    BY <1>3, <2>1, <2>3 DEF one
<1>. QED
  BY <1>1, <1>2, <1>3, <1>4

LEMMA QuestionIs ==
  ASSUME NEW protocol, NEW turn \in Nat
  PROVE  /\ Question(turn) \in ChatMessage /\ Question(turn).role = "user"
         /\ Text("question", <<<<turn, 0>>>>) \in Saying({"question"})
         /\ Content(protocol, Question(turn)) = <<Text("question", <<<<turn, 0>>>>)>>
<1>. DEFINE q == Text("question", <<<<turn, 0>>>>)
            i == Text("image", <<>>)
            b == Block("text", q)
            c == Block("image", i)
            m == Question(turn)
<1>1. <<<<turn, 0>>>> \in Seq(Nat \X Nat) /\ <<>> \in Seq(Nat \X Nat)
  OBVIOUS
<1>2. q \in Saying(Chat) /\ i \in Saying(Chat) /\ q \in Saying({"question"})
  BY <1>1, SayingFacts DEF Chat
<1>. HIDE DEF q, i
<1>3. b \in ChatBlock /\ b.kind = "text" /\ b.text = q /\ c \in ChatBlock /\ c.kind = "image"
  BY <1>2 DEF Block, ChatBlock
<1>4. m = Message("user", <<b, c>>, <<>>)
  BY DEF Question, q, i
<1>. HIDE DEF b, c
<1>5. <<b, c>> \in Seq(ChatBlock) /\ Append(<<b>>, c) = <<b, c>> /\ <<b>> \in Seq(ChatBlock)
  BY <1>3, OneAndTwo
<1>6. ASSUME NEW K, "text" \in K, "image" \notin K PROVE Speech(K, <<b, c>>) = <<q>>
  <2>. DEFINE one == <<b>>
  <2>1. Speech(K, one) = <<q>>
    BY <1>3, <1>6, SpeechOne
  <2>2. one \in Seq(ChatBlock)
    BY <1>5
  <2>. HIDE DEF one
  <2>3. Speech(K, Append(one, c)) = Speech(K, one)
    BY <1>3, <1>6, <2>2, SpeechAppend
  <2>. QED
    BY <1>5, <2>1, <2>3 DEF one
<1>. DEFINE bs == <<b, c>>
<1>. HIDE DEF bs, m
<1>7. m \in ChatMessage /\ m.role = "user" /\ m.blocks = bs /\ m.calls = <<>>
  <2>1. bs \in Seq(ChatBlock) /\ <<>> \in Seq(Saying({"call"}))
    BY <1>5 DEF bs
  <2>. QED
    BY <1>4, <2>1 DEF Message, ChatMessage, bs
<1>8. IntoText(bs) = <<q>> /\ IntoQwen3Text(bs) = <<q>>
  BY <1>6 DEF IntoText, IntoQwen3Text, Speech, bs
<1>9. <<q>> \o <<>> = <<q>>
  OBVIOUS
<1>10. Content(protocol, m) = <<q>>
  BY <1>7, <1>8, <1>9 DEF Content
<1>. QED
  BY <1>2, <1>7, <1>10 DEF m, q

LEMMA LeadTexts ==
  /\ <<System>> \in Seq(Saying(Whats)) /\ <<Helper, Tools>> \in Seq(Saying(Whats))
  /\ <<System, Tools>> \in Seq(Saying(Whats)) /\ <<Tools>> \in Seq(Saying(Whats))
  /\ Append(<<System>>, Tools) = <<System, Tools>>
<1>. DEFINE T == Saying(Whats)
<1>1. Tools \in T /\ Helper \in T /\ System \in T
  BY FixedTexts
<1>. HIDE DEF T
<1>2. /\ <<System>> \in Seq(T) /\ <<Helper, Tools>> \in Seq(T) /\ <<System, Tools>> \in Seq(T)
      /\ <<Tools>> \in Seq(T) /\ Append(<<System>>, Tools) = <<System, Tools>>
  BY <1>1, OneAndTwo
<1>. QED
  BY <1>2 DEF T

LEMMA Grouped ==
  ASSUME NEW X, NEW x \in X, NEW y \in X, NEW s \in Seq(X)
  PROVE  (<<x>> \o <<y>>) \o s = <<x>> \o (<<y>> \o s)
OBVIOUS

LEMMA GreetingIs ==
  /\ Greeting \in AnyEntry /\ Greeting \in RawEntry /\ Settled[Greeting] = Greeting
  /\ Greeting.role = "user" /\ Greeting.content = <<Text("question", <<<<0, 0>>>>)>>
<1>. DEFINE q == Text("question", <<<<0, 0>>>>)
<1>1. q \in Saying(Whats)
  <2>1. <<<<0, 0>>>> \in Seq(Nat \X Nat) /\ "question" \in Whats
    BY DEF Whats
  <2>. QED
    BY <2>1, SayingFacts
<1>2. Greeting = Entry("user", <<q>>)
  BY DEF Greeting
<1>. HIDE DEF q
<1>3. <<q>> \in Seq(Saying(Whats))
  BY <1>1
<1>4. Greeting.role = "user" /\ Greeting.content = <<q>>
  BY <1>2 DEF Entry
<1>. QED
  BY <1>2, <1>3, <1>4, SystemEntry DEF q

LEMMA PrepareOpenai ==
  ASSUME setting \in Settings, setting.protocol = "openai", NEW tail \in Seq(ChatMessage)
  PROVE  PrepareMessages(Opening \o tail) = Lead(setting) \o Lines("openai", tail)
<1>. DEFINE L == Lines("openai", tail)
            N == Entry("system", <<Helper, Tools>>)
            D == Entry("developer", <<System>>)
            U == Entry("user", <<System>>)
            S == Entry("system", <<System>>)
            ST == Entry("system", <<System, Tools>>)
            G == Greeting
            Q == Question(0)
            m == Message(setting.system, <<Block("text", System)>>, <<>>)
            l == Message("system", <<Block("text", System)>>, <<>>)
<1>0. setting.system \in {"none", "system", "developer", "late"}
  BY DEF Settings
<1>1. /\ L \in Seq(ChatEntry) /\ L \in Seq(AnyEntry) /\ L \in Seq(RawEntry) /\ Mapped(L) = L
      /\ \A i \in 1 .. Len(L) : L[i].role # "system"
  BY LinesAny
<1>2. /\ N \in RawEntry /\ Settled[N] = N /\ N \in AnyEntry
      /\ D \in RawEntry /\ Settled[D] = U /\ U \in AnyEntry
      /\ S \in RawEntry /\ Settled[S] = S
      /\ ST \in RawEntry /\ Settled[ST] = ST
  BY LeadTexts, SystemEntry, SettledFacts
<1>3. Raws(tail) = L
  BY RawsOfChat
<1>4. Raws(<<m>> \o tail) = <<Entry(setting.system, <<System>>)>> \o L
  BY <1>3, RawsFront, RawOfTop
<1>5. <<>> \o tail = tail /\ <<>> \o L = L
  BY <1>1, Joined
<1>6. CASE setting.system = "none"
  <2>1. Opening \o tail = tail
    BY <1>5, <1>6 DEF Opening
  <2>2. Top(setting) = <<>> /\ <<N>> \o <<>> = <<N>>
    BY <1>6 DEF Top
  <2>3. CASE setting.tools # "some"
    <3>1. PrepareMessages(tail) = L
      BY <1>1, <1>3, <2>3, PrepareRaws
    <3>2. Lead(setting) = <<>>
      BY <2>2, <2>3 DEF Lead
    <3>. QED
      BY <1>5, <2>1, <3>1, <3>2
  <2>4. CASE setting.tools = "some"
    <3>1. PrepareMessages(tail) = Mapped(Inject(L))
      BY <1>3, <2>4, PrepareRaws
    <3>2. Inject(L) = <<N>> \o L
      BY <1>1, InjectNew
    <3>3. Mapped(<<N>> \o L) = <<N>> \o L
      BY <1>1, <1>2, MappedFront
    <3>4. Lead(setting) = <<N>>
      BY <1>6, <2>2, <2>4 DEF Lead
    <3>. QED
      BY <2>1, <3>1, <3>2, <3>3, <3>4
  <2>. QED
    BY <2>3, <2>4
<1>7. CASE setting.system = "system"
  <2>1. Opening \o tail = <<m>> \o tail
    BY <1>7 DEF Opening
  <2>2. Raws(<<m>> \o tail) = <<S>> \o L
    BY <1>4, <1>7
  <2>3. CASE setting.tools # "some"
    <3>1. PrepareMessages(<<m>> \o tail) = Mapped(<<S>> \o L)
      BY <2>2, <2>3, PrepareRaws
    <3>2. Mapped(<<S>> \o L) = <<S>> \o L
      BY <1>1, <1>2, MappedFront
    <3>3. Lead(setting) = <<S>>
      BY <1>7, <2>3 DEF Lead, Top
    <3>. QED
      BY <2>1, <3>1, <3>2, <3>3
  <2>4. CASE setting.tools = "some"
    <3>1. PrepareMessages(<<m>> \o tail) = Mapped(Inject(<<S>> \o L))
      BY <2>2, <2>4, PrepareRaws
    <3>2. Inject(<<S>> \o L) = <<ST>> \o L
      BY <1>1, InjectFront, LeadTexts
    <3>3. Mapped(<<ST>> \o L) = <<ST>> \o L
      BY <1>1, <1>2, MappedFront
    <3>4. Lead(setting) = <<ST>>
      BY <1>7, <2>4 DEF Lead
    <3>. QED
      BY <2>1, <3>1, <3>2, <3>3, <3>4
  <2>. QED
    BY <2>3, <2>4
<1>8. CASE setting.system = "developer"
  <2>1. Opening \o tail = <<m>> \o tail
    BY <1>8 DEF Opening
  <2>2. Raws(<<m>> \o tail) = <<D>> \o L
    BY <1>4, <1>8
  <2>3. /\ <<D>> \o L \in Seq(RawEntry)
        /\ Mapped(<<D>> \o L) = <<U>> \o L
    BY <1>1, <1>2, MappedFront
  <2>4. Top(setting) = <<U>>
    BY <1>8 DEF Top
  <2>5. CASE setting.tools # "some"
    <3>1. PrepareMessages(<<m>> \o tail) = Mapped(<<D>> \o L)
      BY <2>2, <2>5, PrepareRaws
    <3>2. Lead(setting) = <<U>>
      BY <2>4, <2>5 DEF Lead
    <3>. QED
      BY <2>1, <2>3, <3>1, <3>2
  <2>6. CASE setting.tools = "some"
    <3>1. PrepareMessages(<<m>> \o tail) = Mapped(Inject(<<D>> \o L))
      BY <2>2, <2>6, PrepareRaws
    <3>2. \A i \in 1 .. Len(<<D>> \o L) : (<<D>> \o L)[i].role # "system"
      <4>1. D.role # "system"
        BY DEF Entry
      <4>. HIDE DEF D, L
      <4>2. Len(L) \in Nat /\ Len(<<D>> \o L) = Len(L) + 1 /\ (<<D>> \o L)[1] = D
            /\ \A i \in 1 .. Len(L) : (<<D>> \o L)[i + 1] = L[i]
        BY <1>1, <1>2
      <4>3. \A i \in 1 .. Len(L) + 1 : i = 1 \/ (i - 1 \in 1 .. Len(L) /\ i = (i - 1) + 1)
        BY <4>2
      <4>. QED
        BY <1>1, <4>1, <4>2, <4>3
    <3>3. Inject(<<D>> \o L) = <<N>> \o (<<D>> \o L)
      BY <2>3, <3>2, InjectNew
    <3>4. Mapped(<<N>> \o (<<D>> \o L)) = <<N>> \o (<<U>> \o L)
      BY <1>2, <2>3, MappedFront
    <3>5. Lead(setting) = <<N>> \o <<U>>
      BY <1>8, <2>4, <2>6 DEF Lead
    <3>6. (<<N>> \o <<U>>) \o L = <<N>> \o (<<U>> \o L)
      <4>. HIDE DEF N, U, L
      <4>. QED
        BY <1>1, <1>2, Grouped
    <3>. QED
      BY <2>1, <3>1, <3>3, <3>4, <3>5, <3>6
  <2>. QED
    BY <2>5, <2>6
<1>9. CASE setting.system = "late"
  <2>1. Opening \o tail = <<Q>> \o (<<l>> \o tail)
    <3>1. Opening = <<Q>> \o <<l>>
      BY <1>9 DEF Opening
    <3>. DEFINE X == ChatMessage \cup {Q, l}
    <3>2. Q \in X /\ l \in X /\ ChatMessage \subseteq X
      OBVIOUS
    <3>. HIDE DEF X, Q, l
    <3>3. tail \in Seq(X)
      BY <3>2, Wider
    <3>. QED
      BY <3>1, <3>2, <3>3, Grouped
  <2>2. Raws(<<Q>> \o (<<l>> \o tail)) = <<G>> \o (<<S>> \o L)
    <3>1. Raws(<<l>> \o tail) = <<S>> \o L
      BY <1>3, RawsFront, RawOfTop
    <3>2. RawOf(Q) = G
      <4>1. Q.role = "user" /\ Content("openai", Q) = <<Text("question", <<<<0, 0>>>>)>>
        BY QuestionIs
      <4>. QED
        BY <4>1 DEF RawOf, Content, Greeting
    <3>. DEFINE X == ChatMessage \cup {l}
                ms == <<l>> \o tail
    <3>3. ms \in Seq(X)
      <4>1. l \in X /\ ChatMessage \subseteq X
        OBVIOUS
      <4>. HIDE DEF X, l
      <4>2. tail \in Seq(X) /\ <<l>> \in Seq(X)
        BY <4>1, Wider
      <4>. QED
        BY <4>2, Joined
    <3>. HIDE DEF ms, X
    <3>4. Raws(<<Q>> \o ms) = <<RawOf(Q)>> \o Raws(ms)
      BY <3>3, RawsFront
    <3>. QED
      BY <3>1, <3>2, <3>4 DEF ms
  <2>3. G \in AnyEntry /\ G \in RawEntry /\ Settled[G] = G /\ G.role # "system"
    BY GreetingIs
  <2>4. /\ <<S>> \o L \in Seq(RawEntry) /\ Mapped(<<S>> \o L) = <<S>> \o L
        /\ <<ST>> \o L \in Seq(RawEntry) /\ Mapped(<<ST>> \o L) = <<ST>> \o L
    BY <1>1, <1>2, MappedFront
  <2>5. S \in AnyEntry /\ ST \in AnyEntry
    BY LeadTexts, SystemEntry
  <2>6. CASE setting.tools # "some"
    <3>1. PrepareMessages(<<Q>> \o (<<l>> \o tail)) = Mapped(<<G>> \o (<<S>> \o L))
      BY <2>2, <2>6, PrepareRaws
    <3>2. Mapped(<<G>> \o (<<S>> \o L)) = <<G>> \o (<<S>> \o L)
      BY <2>3, <2>4, MappedFront
    <3>3. Lead(setting) = <<G>> \o <<S>>
      BY <1>9, <2>6 DEF Lead, Top
    <3>4. (<<G>> \o <<S>>) \o L = <<G>> \o (<<S>> \o L)
      <4>. HIDE DEF G, S, L
      <4>. QED
        BY <1>1, <2>3, <2>5, Grouped
    <3>. QED
      BY <2>1, <3>1, <3>2, <3>3, <3>4
  <2>7. CASE setting.tools = "some"
    <3>1. PrepareMessages(<<Q>> \o (<<l>> \o tail)) = Mapped(Inject(<<G>> \o (<<S>> \o L)))
      BY <2>2, <2>7, PrepareRaws
    <3>2. Inject(<<G>> \o (<<S>> \o L)) = <<G>> \o (<<ST>> \o L)
      <4>1. <<System>> \in Seq(Saying(Whats)) /\ Append(<<System>>, Tools) = <<System, Tools>>
        BY LeadTexts
      <4>2. Inject(<<G>> \o (<<S>> \o L))
              = <<G>> \o (<<Entry("system", Append(<<System>>, Tools))>> \o L)
        <5>. HIDE DEF G, L
        <5>. QED
          BY <1>1, <2>3, <4>1, InjectBehind
      <4>. QED
        BY <4>1, <4>2
    <3>3. Mapped(<<G>> \o (<<ST>> \o L)) = <<G>> \o (<<ST>> \o L)
      BY <2>3, <2>4, MappedFront
    <3>4. Lead(setting) = <<G>> \o <<ST>>
      BY <1>9, <2>7 DEF Lead
    <3>5. (<<G>> \o <<ST>>) \o L = <<G>> \o (<<ST>> \o L)
      <4>. HIDE DEF G, ST, L
      <4>. QED
        BY <1>1, <2>3, <2>5, Grouped
    <3>. QED
      BY <2>1, <3>1, <3>2, <3>3, <3>4, <3>5
  <2>. QED
    BY <2>6, <2>7
<1>. QED
  BY <1>0, <1>6, <1>7, <1>8, <1>9

LEMMA PrepareAnthropic ==
  ASSUME setting.protocol = "anthropic", NEW tail \in Seq(ChatMessage)
  PROVE  ToOpenaiMessages(tail) = Lead(setting) \o Lines("anthropic", tail)
<1>. DEFINE es == [i \in DOMAIN tail |-> Entry(Role(tail[i].role, {"assistant", "tool"}),
                                               IntoQwen3Text(tail[i].blocks))]
<1>1. \A i \in DOMAIN tail : tail[i] \in ChatMessage
  OBVIOUS
<1>2. \A x \in ChatMessage : Turn("anthropic")[x]
                               = Entry(Role(x.role, {"assistant", "tool"}), IntoQwen3Text(x.blocks))
  <2>. TAKE x \in ChatMessage
  <2>1. Role(x.role, {"assistant", "tool"}) = x.role
    BY DEF Role, ChatMessage
  <2>2. Content("anthropic", x) = IntoQwen3Text(x.blocks)
    BY DEF Content
  <2>. QED
    BY <2>1, <2>2, TurnFacts
<1>3. es = Lines("anthropic", tail)
  BY <1>1, <1>2 DEF Lines, Map
<1>4. ToOpenaiMessages(tail)
        = (IF SystemText(setting) # <<>> THEN <<Entry("system", SystemText(setting))>> ELSE <<>>) \o es
  BY DEF ToOpenaiMessages, SystemText
<1>. QED
  BY <1>3, <1>4 DEF Lead

\* Settings decide on the lead, each message gets its line.
LEMMA PrepareIs ==
  ASSUME setting \in Settings, NEW tail \in Seq(ChatMessage)
  PROVE  Prepare(Opening \o tail) = Lead(setting) \o Lines(setting.protocol, tail)
<1>1. CASE setting.protocol = "openai"
  BY <1>1, PrepareOpenai DEF Prepare
<1>2. CASE setting.protocol = "anthropic"
  <2>1. Opening \o tail = tail
    BY <1>2 DEF Opening
  <2>. QED
    BY <1>2, <2>1, PrepareAnthropic DEF Prepare
<1>. QED
  BY <1>1, <1>2 DEF Settings

-----------------------------------------------------------------------------
(* What a lead says.                                                       *)

\* The first system entry has the tools.
Announces(entries) ==
  \E i \in DOMAIN entries :
    /\ entries[i].role = "system" /\ Contains(entries[i].content, Tools)
    /\ \A k \in 1 .. i - 1 : entries[k].role # "system"

LEMMA AnnouncesFirst ==
  ASSUME NEW X, NEW s \in Seq(X), NEW t \in Seq(X), Announces(s)
  PROVE  Announces(s \o t)
<1>. DEFINE u == s \o t
<1>1. Len(s) \in Nat /\ Len(t) \in Nat /\ Len(u) = Len(s) + Len(t)
      /\ DOMAIN u = 1 .. Len(u) /\ \A i \in 1 .. Len(s) : u[i] = s[i]
  OBVIOUS
<1>. HIDE DEF u
<1>2. PICK i \in DOMAIN s : /\ s[i].role = "system" /\ Contains(s[i].content, Tools)
                            /\ \A k \in 1 .. i - 1 : s[k].role # "system"
  BY DEF Announces
<1>3. i \in 1 .. Len(s) /\ i \in DOMAIN u /\ \A k \in 1 .. i - 1 : k \in 1 .. Len(s)
  BY <1>1
<1>4. Announces(u)
  BY <1>1, <1>2, <1>3 DEF Announces
<1>. QED
  BY <1>4 DEF u

LEMMA AnnouncesBehind ==
  ASSUME NEW X, NEW e \in X, e.role # "system", NEW t \in Seq(X), Announces(t)
  PROVE  Announces(<<e>> \o t)
<1>. DEFINE u == <<e>> \o t
<1>1. Len(t) \in Nat /\ Len(u) = Len(t) + 1 /\ DOMAIN u = 1 .. Len(t) + 1 /\ u[1] = e
      /\ \A i \in 1 .. Len(t) : u[i + 1] = t[i]
  OBVIOUS
<1>. HIDE DEF u
<1>2. PICK i \in DOMAIN t : /\ t[i].role = "system" /\ Contains(t[i].content, Tools)
                            /\ \A k \in 1 .. i - 1 : t[k].role # "system"
  BY DEF Announces
<1>3. i \in 1 .. Len(t) /\ i + 1 \in DOMAIN u /\ u[i + 1] = t[i]
  BY <1>1
<1>4. \A k \in 1 .. (i + 1) - 1 : u[k].role # "system"
  <2>. TAKE k \in 1 .. (i + 1) - 1
  <2>1. CASE k = 1
    BY <1>1, <2>1
  <2>2. CASE k # 1
    <3>1. k - 1 \in 1 .. i - 1 /\ k - 1 \in 1 .. Len(t) /\ (k - 1) + 1 = k
      BY <1>3, <2>2
    <3>. QED
      BY <1>1, <1>2, <3>1
  <2>. QED
    BY <2>1, <2>2
<1>5. Announces(u)
  BY <1>2, <1>3, <1>4 DEF Announces
<1>. QED
  BY <1>5 DEF u

\* No words of the model, no results, and the tools n times.
Leads(lead, n) ==
  /\ lead \in Seq(AnyEntry)
  /\ Own(lead) = <<>>
  /\ Of(All(lead), Saying({"result"})) = <<>>
  /\ Len(Of(All(lead), {Tools})) = n
  /\ n = 1 => Announces(lead)

Framing == Saying({"tools", "helper", "system", "question"})

LEMMA FramingFacts ==
  /\ Tools \in Framing /\ Helper \in Framing /\ System \in Framing
  /\ Framing \subseteq Saying(Whats)
  /\ Framing \cap Saying({"result"}) = {}
<1>1. <<>> \in Seq(Nat \X Nat)
  OBVIOUS
<1>2. {"tools", "helper", "system", "question"} \subseteq Whats
  BY DEF Whats
<1>3. {"tools", "helper", "system", "question"} \cap {"result"} = {}
  OBVIOUS
<1>4. Tools \in Framing /\ Helper \in Framing /\ System \in Framing
  BY <1>1, SayingFacts DEF Tools, Helper, System, Framing
<1>. QED
  BY <1>2, <1>3, <1>4, SayingFacts DEF Framing

\* A content of one or two such texts, the tools last or not at all.
LEMMA FramingOne ==
  ASSUME NEW x \in Framing
  PROVE  /\ <<x>> \in Seq(Framing)
         /\ Of(<<x>>, {Tools}) = IF x = Tools THEN <<x>> ELSE <<>>
<1>1. <<x>> \in Seq(Framing)
  OBVIOUS
<1>2. Of(<<x>>, {Tools}) = IF x \in {Tools} THEN <<x>> ELSE <<>>
  BY OfOne
<1>3. x \in {Tools} <=> x = Tools
  OBVIOUS
<1>. QED
  BY <1>1, <1>2, <1>3, Zenon

LEMMA FramingTwo ==
  ASSUME NEW x \in Framing, x # Tools
  PROVE  /\ <<x, Tools>> \in Seq(Framing)
         /\ Of(<<x, Tools>>, {Tools}) = <<Tools>>
         /\ Contains(<<x, Tools>>, Tools)
<1>1. Tools \in Framing
  BY FramingFacts
<1>2. <<x, Tools>> \in Seq(Framing) /\ Append(<<x>>, Tools) = <<x, Tools>> /\ <<x>> \in Seq(Framing)
  BY <1>1, OneAndTwo
<1>3. Of(<<x>>, {Tools}) = <<>>
  BY FramingOne
<1>4. Append(<<>>, Tools) = <<Tools>>
  OBVIOUS
<1>5. Of(Append(<<x>>, Tools), {Tools}) = Append(Of(<<x>>, {Tools}), Tools)
  <2>. DEFINE one == <<x>>
  <2>. HIDE DEF one
  <2>1. one \in Seq(Framing)
    BY <1>2 DEF one
  <2>2. Of(Append(one, Tools), {Tools}) = Append(Of(one, {Tools}), Tools)
    BY <1>1, <2>1, OfAppend
  <2>. QED
    BY <2>2 DEF one
<1>6. Contains(<<x, Tools>>, Tools)
  <2>1. <<x, Tools>>[2] = Tools /\ 2 \in 1 .. Len(<<x, Tools>>)
    OBVIOUS
  <2>. QED
    BY <2>1 DEF Contains
<1>. QED
  BY <1>2, <1>3, <1>4, <1>5, <1>6

LEMMA LeadOfOne ==
  ASSUME NEW role \in {"system", "user"}, NEW c \in Seq(Framing), NEW n \in Nat,
         Len(Of(c, {Tools})) = n, n = 1 => role = "system" /\ Contains(c, Tools)
  PROVE  Leads(<<Entry(role, c)>>, n)
<1>. DEFINE e == Entry(role, c)
<1>1. c \in Seq(Saying(Whats))
  BY FramingFacts, Wider
<1>2. e \in AnyEntry
  BY <1>1, SystemEntry
<1>3. e.role = role /\ e.content = c /\ role # "assistant"
  BY DEF Entry
<1>. HIDE DEF e
<1>4. Own(<<e>>) = <<>> /\ All(<<e>>) = c
  BY <1>2, <1>3, OwnOne, AllOne
<1>5. Of(c, Saying({"result"})) = <<>>
  BY FramingFacts, OfNone
<1>6. <<e>> \in Seq(AnyEntry) /\ Len(<<e>>) = 1 /\ <<e>>[1] = e
  BY <1>2
<1>. DEFINE L == <<e>>
<1>. HIDE DEF L
<1>7. L \in Seq(AnyEntry) /\ Len(L) = 1 /\ L[1] = e /\ Own(L) = <<>> /\ All(L) = c
  BY <1>4, <1>6 DEF L
<1>8. n = 1 => Announces(L)
  <2>1. 1 \in DOMAIN L /\ 1 .. 1 - 1 = {}
    BY <1>7
  <2>. QED
    BY <1>3, <1>7, <2>1 DEF Announces
<1>9. Leads(L, n)
  BY <1>5, <1>7, <1>8 DEF Leads
<1>. QED
  BY <1>9 DEF L, e

LEMMA LeadOfNone == Leads(<<>>, 0)
<1>1. <<>> \in Seq(AnyEntry) /\ <<>> \in Seq(Saying(Whats)) /\ Len(<<>>) = 0
  OBVIOUS
<1>2. Own(<<>>) = <<>>
  BY <1>1, OwnMap, OfNothing, MapNone
<1>3. All(<<>>) = <<>>
  BY <1>1, AllMap, MapNone, FlatNothing
<1>4. Of(<<>>, Saying({"result"})) = <<>> /\ Of(<<>>, {Tools}) = <<>>
  BY OfNothing
<1>. QED
  BY <1>1, <1>2, <1>3, <1>4 DEF Leads

LEMMA LeadOfTwo ==
  ASSUME NEW s, NEW t, NEW n \in Nat, NEW k \in Nat, Leads(s, n), Leads(t, k),
         n + k = 1 => Announces(s \o t)
  PROVE  Leads(s \o t, n + k)
<1>1. s \in Seq(AnyEntry) /\ t \in Seq(AnyEntry) /\ s \o t \in Seq(AnyEntry)
  BY Joined DEF Leads
<1>2. Own(s \o t) = <<>>
  <2>1. Own(s \o t) = <<>> \o <<>>
    BY <1>1, OwnConcat DEF Leads
  <2>. QED
    BY <2>1
<1>. DEFINE a == All(s)
            b == All(t)
<1>3. a \in Seq(Saying(Whats)) /\ b \in Seq(Saying(Whats)) /\ All(s \o t) = a \o b
  BY <1>1, AllMap, AllConcat
<1>4. Of(a \o b, Saying({"result"})) = <<>>
  <2>. HIDE DEF a, b
  <2>1. Of(a \o b, Saying({"result"})) = Of(a, Saying({"result"})) \o Of(b, Saying({"result"}))
    BY <1>3, OfConcat
  <2>2. Of(a, Saying({"result"})) = <<>> /\ Of(b, Saying({"result"})) = <<>>
    BY DEF Leads, a, b
  <2>3. <<>> \o <<>> = <<>>
    OBVIOUS
  <2>. QED
    BY ONLY <2>1, <2>2, <2>3
<1>5. Len(Of(a \o b, {Tools})) = n + k
  <2>. HIDE DEF a, b
  <2>1. Of(a \o b, {Tools}) = Of(a, {Tools}) \o Of(b, {Tools})
    BY <1>3, OfConcat
  <2>2. Of(a, {Tools}) \in Seq(Saying(Whats)) /\ Of(b, {Tools}) \in Seq(Saying(Whats))
    BY <1>3, OfStays
  <2>3. Len(Of(a, {Tools})) = n /\ Len(Of(b, {Tools})) = k
    BY DEF Leads, a, b
  <2>. DEFINE c == Of(a, {Tools})
              d == Of(b, {Tools})
  <2>. HIDE DEF c, d
  <2>4. Len(c \o d) = Len(c) + Len(d)
    BY <2>2 DEF c, d
  <2>. QED
    BY <2>1, <2>3, <2>4 DEF c, d
<1>. QED
  BY <1>1, <1>2, <1>3, <1>4, <1>5 DEF Leads

LEMMA LeadFacts ==
  ASSUME NEW st \in Settings
  PROVE  Leads(Lead(st), IF st.tools = "some" THEN 1 ELSE 0)
<1>. DEFINE n == IF st.tools = "some" THEN 1 ELSE 0
            L == Lead(st)
<1>1. st.system \in {"none", "system", "developer", "late"} /\ st.protocol \in {"openai", "anthropic"}
  BY DEF Settings
<1>2. Len(<<>>) = 0 /\ Len(<<Tools>>) = 1 /\ Len(Of(<<>>, {Tools})) = 0
  BY OfNothing
<1>3. System \in Framing /\ Helper \in Framing /\ Tools \in Framing /\ System # Tools /\ Helper # Tools
  BY FramingFacts, FixedTexts
<1>4. ASSUME NEW role \in {"system", "user"}, NEW x \in Framing, x # Tools
      PROVE  Leads(<<Entry(role, <<x>>)>>, 0)
  <2>1. <<x>> \in Seq(Framing) /\ Len(Of(<<x>>, {Tools})) = 0
    BY <1>2, <1>4, FramingOne
  <2>. DEFINE c == <<x>>
  <2>. HIDE DEF n, L, c
  <2>2. c \in Seq(Framing) /\ Len(Of(c, {Tools})) = 0 /\ 0 \in Nat /\ 0 # 1
    BY <2>1 DEF c
  <2>3. Leads(<<Entry(role, c)>>, 0)
    BY <2>2, LeadOfOne
  <2>. QED
    BY <2>3 DEF c
<1>5. ASSUME NEW x \in Framing, x # Tools PROVE Leads(<<Entry("system", <<x, Tools>>)>>, 1)
  <2>1. /\ <<x, Tools>> \in Seq(Framing) /\ Len(Of(<<x, Tools>>, {Tools})) = 1
        /\ Contains(<<x, Tools>>, Tools)
    BY <1>2, <1>5, FramingTwo
  <2>. HIDE DEF n, L
  <2>. QED
    BY <2>1, LeadOfOne
<1>6. Leads(<<Entry("system", <<Tools>>)>>, 1)
  <2>1. <<Tools>> \in Seq(Framing) /\ Len(Of(<<Tools>>, {Tools})) = 1
    BY <1>2, <1>3, FramingOne
  <2>2. Contains(<<Tools>>, Tools)
    BY DEF Contains
  <2>. HIDE DEF n, L
  <2>. QED
    BY <2>1, <2>2, LeadOfOne
<1>7. Leads(<<Greeting>>, 0)
  <2>. DEFINE q == Text("question", <<<<0, 0>>>>)
  <2>1. q \in Framing /\ q # Tools
    <3>1. <<<<0, 0>>>> \in Seq(Nat \X Nat)
      OBVIOUS
    <3>2. q.what # Tools.what
      BY DEF Text, Tools
    <3>. QED
      BY <3>1, <3>2, SayingFacts DEF Framing
  <2>2. Greeting = Entry("user", <<q>>)
    BY DEF Greeting
  <2>. HIDE DEF q
  <2>. QED
    BY <1>4, <2>1, <2>2
<1>8. ASSUME NEW f \in AnyEntry, NEW k \in {0, 1}, Leads(<<f>>, k)
      PROVE  Leads(<<Greeting>> \o <<f>>, k)
  <2>. DEFINE one == <<Greeting>>
              two == <<f>>
  <2>1. two \in Seq(AnyEntry) /\ Greeting \in AnyEntry /\ Greeting.role # "system"
    BY GreetingIs
  <2>. HIDE DEF two
  <2>2. Leads(two, k)
    BY <1>8 DEF two
  <2>3. k = 1 => Announces(one \o two)
    BY <2>1, <2>2, AnnouncesBehind DEF Leads
  <2>. HIDE DEF one, n, L
  <2>4. Leads(one, 0) /\ 0 + k = k /\ k \in Nat /\ 0 \in Nat
    BY <1>7 DEF one
  <2>5. Leads(one \o two, 0 + k)
    BY ONLY <2>2, <2>3, <2>4, LeadOfTwo
  <2>. QED
    BY <2>4, <2>5 DEF one, two
<1>9. \A c \in Seq(Saying(Whats)) : Entry("system", c) \in AnyEntry
  BY SystemEntry
<1>10. Leads(Top(st), 0)
  <2>1. CASE st.system = "none"
    BY <2>1, LeadOfNone DEF Top
  <2>2. CASE st.system = "late"
    <3>1. Entry("system", <<System>>) \in AnyEntry /\ Leads(<<Entry("system", <<System>>)>>, 0)
      BY <1>3, <1>4, <1>9, LeadTexts
    <3>. DEFINE f == Entry("system", <<System>>)
    <3>2. Top(st) = <<Greeting>> \o <<f>>
      BY <2>2 DEF Top
    <3>. HIDE DEF f, n, L
    <3>. QED
      BY <1>8, <3>1, <3>2 DEF f
  <2>3. CASE st.system \in {"system", "developer"}
    <3>1. Top(st) = <<Entry("system", <<System>>)>> \/ Top(st) = <<Entry("user", <<System>>)>>
      BY <2>3 DEF Top
    <3>2. Leads(<<Entry("system", <<System>>)>>, 0) /\ Leads(<<Entry("user", <<System>>)>>, 0)
      BY <1>3, <1>4
    <3>. QED
      BY <3>1, <3>2
  <2>. QED
    BY <1>1, <2>1, <2>2, <2>3
<1>11. CASE st.protocol = "openai"
  <2>1. CASE st.tools # "some"
    BY <1>10, <1>11, <2>1 DEF Lead
  <2>2. CASE st.tools = "some" /\ st.system = "system"
    <3>1. Lead(st) = <<Entry("system", <<System, Tools>>)>>
      BY <1>11, <2>2 DEF Lead
    <3>. QED
      BY <1>3, <1>5, <2>2, <3>1
  <2>4. CASE st.tools = "some" /\ st.system = "late"
    <3>. DEFINE f == Entry("system", <<System, Tools>>)
    <3>1. Lead(st) = <<Greeting>> \o <<f>>
      BY <1>11, <2>4 DEF Lead
    <3>2. Leads(<<f>>, 1) /\ f \in AnyEntry
      BY <1>3, <1>5, <1>9, LeadTexts
    <3>. HIDE DEF f, n, L
    <3>3. Leads(<<Greeting>> \o <<f>>, 1)
      BY <1>8, <3>2
    <3>. QED
      BY <2>4, <3>1, <3>3 DEF n, L
  <2>3. CASE st.tools = "some" /\ st.system \notin {"system", "late"}
    <3>1. Lead(st) = <<Entry("system", <<Helper, Tools>>)>> \o Top(st)
      BY <1>11, <2>3 DEF Lead
    <3>2. Leads(<<Entry("system", <<Helper, Tools>>)>>, 1)
      BY <1>3, <1>5
    <3>3. Leads(<<Entry("system", <<Helper, Tools>>)>> \o Top(st), 1)
      <4>. DEFINE one == <<Entry("system", <<Helper, Tools>>)>>
                  top == Top(st)
      <4>. HIDE DEF one, top, n, L
      <4>1. Leads(one, 1) /\ Leads(top, 0) /\ 1 \in Nat /\ 0 \in Nat /\ 1 + 0 = 1
        BY <1>10, <3>2 DEF one, top
      <4>2. Announces(one \o top)
        BY <4>1, AnnouncesFirst DEF Leads
      <4>3. Leads(one \o top, 1 + 0)
        BY ONLY <4>1, <4>2, LeadOfTwo
      <4>. QED
        BY <4>1, <4>3 DEF one, top
    <3>. QED
      BY <2>3, <3>1, <3>3
  <2>. QED
    BY <2>1, <2>2, <2>3, <2>4
<1>12. CASE st.protocol = "anthropic"
  <2>1. Lead(st) = IF SystemText(st) # <<>> THEN <<Entry("system", SystemText(st))>> ELSE <<>>
    BY <1>12 DEF Lead
  <2>2. <<System>> \o <<Tools>> = <<System, Tools>>
    BY <1>3, OneAndTwo
  <2>3. <<>> \o <<>> = <<>> /\ <<System>> \o <<>> = <<System>> /\ <<>> \o <<Tools>> = <<Tools>>
    OBVIOUS
  <2>4. CASE st.tools = "some"
    <3>1. SystemText(st) = <<System, Tools>> \/ SystemText(st) = <<Tools>>
      BY <2>2, <2>3, <2>4 DEF SystemText
    <3>2. <<System, Tools>> # <<>> /\ <<Tools>> # <<>>
      OBVIOUS
    <3>3. Leads(Lead(st), 1)
      BY <1>3, <1>5, <1>6, <2>1, <3>1, <3>2
    <3>. QED
      BY <2>4, <3>3
  <2>5. CASE st.tools # "some"
    <3>1. SystemText(st) = <<System>> \/ SystemText(st) = <<>>
      BY <2>3, <2>5 DEF SystemText
    <3>2. <<System>> # <<>>
      OBVIOUS
    <3>3. Leads(Lead(st), 0)
      BY <1>3, <1>4, LeadOfNone, <2>1, <3>1, <3>2
    <3>. QED
      BY <2>5, <3>3
  <2>. QED
    BY <2>4, <2>5
<1>. QED
  BY <1>1, <1>11, <1>12

\* What a prompt shows, is what its lines show.
LEMMA PromptShows ==
  ASSUME NEW st \in Settings, NEW lines \in Seq(ChatEntry)
  PROVE  /\ Own(Lead(st) \o lines) = Own(lines)
         /\ Of(All(Lead(st) \o lines), Saying({"result"})) = Of(All(lines), Saying({"result"}))
         /\ Leads(Lead(st), IF st.tools = "some" THEN 1 ELSE 0)
         /\ Len(Of(All(Lead(st) \o lines), {Tools})) = IF st.tools = "some" THEN 1 ELSE 0
         /\ st.tools = "some" => Announces(Lead(st) \o lines)
<1>. DEFINE n == IF st.tools = "some" THEN 1 ELSE 0
            L == Lead(st)
            a == All(L)
            b == All(lines)
<1>1. Leads(L, n)
  BY LeadFacts
<1>. HIDE DEF L
<1>2. L \in Seq(AnyEntry) /\ lines \in Seq(AnyEntry) /\ n \in Nat
  BY <1>1, EntriesAreAny, Wider DEF Leads
<1>3. Own(L \o lines) = Own(lines)
  <2>1. Own(L \o lines) = Own(L) \o Own(lines) /\ Own(L) = <<>>
    BY <1>1, <1>2, OwnConcat DEF Leads
  <2>2. Own(lines) \in Seq(Seq(Saying(Whats)))
    BY <1>2, OwnType
  <2>3. <<>> \o Own(lines) = Own(lines)
    BY <2>2, Joined
  <2>. QED
    BY <2>1, <2>3
<1>4. a \in Seq(Saying(Whats)) /\ b \in Seq(Saying(Whats)) /\ b \in Seq(Saying(Chat))
      /\ All(L \o lines) = a \o b
  BY <1>2, AllMap, AllConcat, AllChat
<1>. HIDE DEF a, b, n
<1>5. ASSUME NEW S PROVE Of(a \o b, S) = Of(a, S) \o Of(b, S)
  BY <1>4, OfConcat
<1>6. Of(a \o b, Saying({"result"})) = Of(b, Saying({"result"}))
  <2>1. Of(a, Saying({"result"})) = <<>>
    BY <1>1 DEF Leads, a
  <2>2. Of(b, Saying({"result"})) \in Seq(Saying(Whats))
    BY <1>4, OfStays
  <2>3. <<>> \o Of(b, Saying({"result"})) = Of(b, Saying({"result"}))
    BY <2>2, Joined
  <2>. QED
    BY <1>5, <2>1, <2>3
<1>7. Len(Of(a \o b, {Tools})) = n
  <2>1. Saying(Chat) \cap {Tools} = {}
    BY SayingFacts, ChatFacts DEF Tools
  <2>2. Of(b, {Tools}) = <<>>
    BY <1>4, <2>1, OfNone
  <2>3. Of(a, {Tools}) \in Seq(Saying(Whats))
    BY <1>4, OfStays
  <2>4. Of(a, {Tools}) \o <<>> = Of(a, {Tools})
    BY <2>3, Joined
  <2>5. Len(Of(a, {Tools})) = n
    BY <1>1 DEF Leads, a
  <2>. QED
    BY <1>5, <2>2, <2>4, <2>5
<1>8. n = 1 => Announces(L \o lines)
  BY <1>1, <1>2, AnnouncesFirst DEF Leads
<1>9. /\ Own(L \o lines) = Own(lines)
      /\ Of(All(L \o lines), Saying({"result"})) = Of(All(lines), Saying({"result"}))
      /\ Leads(L, n)
      /\ Len(Of(All(L \o lines), {Tools})) = n
      /\ n = 1 => Announces(L \o lines)
  BY <1>1, <1>3, <1>4, <1>6, <1>7, <1>8 DEF b
<1>. QED
  BY <1>9 DEF L, n

-----------------------------------------------------------------------------
(* Answers, and what comes back of them.                                   *)

Answer == Seq(Saying(Spoken))

LEMMA AnswerFacts ==
  /\ Saying(Spoken) \subseteq Saying(Whats) /\ Saying({"call"}) \subseteq Saying(Spoken)
  /\ Saying(Spoken) \cap Saying({"result"}) = {}
  /\ Saying({"call"}) \cap Saying(Whats \ {"call"}) = {}
  /\ Saying({"call"}) \cap Saying({"result"}) = {}
  /\ \A x \in Saying(Whats) : /\ x \in Saying({"call"}) <=> x.what = "call"
                              /\ x \in Saying(Whats \ {"call"}) <=> x.what # "call"
<1>1. Spoken \subseteq Whats /\ {"call"} \subseteq Spoken /\ Spoken \cap {"result"} = {}
      /\ {"call"} \cap (Whats \ {"call"}) = {} /\ {"call"} \cap {"result"} = {}
  BY DEF Whats, Spoken
<1>2. \A x \in Saying(Whats) : /\ x \in Saying({"call"}) <=> x.what = "call"
                               /\ x \in Saying(Whats \ {"call"}) <=> x.what # "call"
  BY DEF Saying
<1>. QED
  BY <1>1, <1>2, SayingFacts

LEMMA CallsAppend ==
  ASSUME NEW answer \in Answer, NEW x \in Saying(Spoken)
  PROVE  /\ CallsOf(Append(answer, x))
              = IF x.what = "call" THEN Append(CallsOf(answer), x) ELSE CallsOf(answer)
         /\ NotCalls(Append(answer, x))
              = IF x.what = "call" THEN NotCalls(answer) ELSE Append(NotCalls(answer), x)
<1>1. x \in Saying(Whats) /\ answer \in Seq(Saying(Spoken))
  BY AnswerFacts DEF Answer
<1>2. CallsOf(Append(answer, x))
        = IF x \in Saying({"call"}) THEN Append(CallsOf(answer), x) ELSE CallsOf(answer)
  BY <1>1, OfAppend DEF CallsOf
<1>3. NotCalls(Append(answer, x))
        = IF x \in Saying(Whats \ {"call"}) THEN Append(NotCalls(answer), x) ELSE NotCalls(answer)
  BY <1>1, OfAppend DEF NotCalls
<1>4. (x \in Saying({"call"}) <=> x.what = "call")
      /\ (x \in Saying(Whats \ {"call"}) <=> x.what # "call")
  BY <1>1, AnswerFacts
<1>. QED
  BY ONLY <1>2, <1>3, <1>4

LEMMA CallsType ==
  ASSUME NEW answer \in Answer
  PROVE  /\ CallsOf(answer) \in Seq(Saying({"call"}))
         /\ NotCalls(answer) \in Seq(Saying(Spoken)) /\ NotCalls(answer) \in Seq(Saying(Whats \ {"call"}))
<1>1. answer \in Seq(Saying(Spoken))
  BY DEF Answer
<1>2. Of(answer, Saying({"call"})) \in Seq(Saying(Spoken) \cap Saying({"call"}))
      /\ Of(answer, Saying(Whats \ {"call"})) \in Seq(Saying(Spoken) \cap Saying(Whats \ {"call"}))
  BY <1>1, OfType
<1>3. CallsOf(answer) \in Seq(Saying({"call"}))
  <2>1. Saying(Spoken) \cap Saying({"call"}) \subseteq Saying({"call"})
    OBVIOUS
  <2>. QED
    BY <1>2, <2>1, Wider DEF CallsOf
<1>4. NotCalls(answer) \in Seq(Saying(Spoken))
  BY <1>1, OfStays DEF NotCalls
<1>5. NotCalls(answer) \in Seq(Saying(Whats \ {"call"}))
  <2>1. Saying(Spoken) \cap Saying(Whats \ {"call"}) \subseteq Saying(Whats \ {"call"})
    OBVIOUS
  <2>. QED
    BY <1>2, <2>1, Wider DEF NotCalls
<1>. QED
  BY <1>3, <1>4, <1>5

\* A content shows an answer.
Fits(st, content, answer) ==
  IF st.protocol = "openai" /\ st.stream
  THEN /\ NotCalls(content) = NotCalls(answer)
       /\ Len(CallsOf(answer)) <= 1 => CallsOf(content) = CallsOf(answer)
  ELSE content = answer

\* A client has an answer.
Tells(st, message, answer) ==
  /\ message \in [blocks : Seq(ChatBlock), calls : Seq(Saying({"call"}))]
  /\ st.protocol = "openai" /\ st.stream =>
       /\ IntoText(message.blocks) = NotCalls(answer)
       /\ Len(CallsOf(answer)) <= 1 => message.calls = CallsOf(answer)
  /\ st.protocol = "openai" /\ ~st.stream =>
       IntoText(message.blocks) = answer /\ message.calls = <<>>
  /\ st.protocol # "openai" =>
       /\ IntoQwen3Text(message.blocks) = answer
       /\ st.stream => Speech({"tool_use"}, message.blocks) = CallsOf(answer)

\* The gateway turns it into a content that shows the answer.
LEMMA AnswerLine ==
  ASSUME NEW st, NEW r, NEW answer \in Answer, Tells(st, r, answer)
  PROVE  LET m == Message("assistant", r.blocks, r.calls)
         IN  /\ m \in ChatMessage /\ m.role = "assistant"
             /\ Fits(st, Content(st.protocol, m), answer)
             /\ Of(Content(st.protocol, m), Saying({"result"})) = <<>>
<1>. DEFINE m == Message("assistant", r.blocks, r.calls)
            c == Content(st.protocol, m)
<1>1. m \in ChatMessage /\ m.role = "assistant" /\ m.blocks = r.blocks /\ m.calls = r.calls
  BY DEF Message, ChatMessage, Tells
<1>. HIDE DEF m
<1>2. r.calls \in Seq(Saying({"call"})) /\ r.calls \in Answer /\ answer \in Answer
  <2>1. r.calls \in Seq(Saying({"call"}))
    BY DEF Tells
  <2>. QED
    BY <2>1, AnswerFacts, Wider DEF Answer
<1>3. ASSUME NEW s \in Answer PROVE Of(s, Saying({"result"})) = <<>>
  BY AnswerFacts, OfNone DEF Answer
<1>4. CASE st.protocol = "openai" /\ st.stream
  <2>. DEFINE a == NotCalls(answer)
              d == r.calls
  <2>1. c = a \o d
    BY <1>1, <1>4 DEF Content, Tells
  <2>2. a \in Seq(Saying(Spoken)) /\ a \in Seq(Saying(Whats \ {"call"}))
        /\ d \in Seq(Saying({"call"})) /\ d \in Seq(Saying(Spoken))
    BY <1>2, CallsType DEF Answer
  <2>. HIDE DEF a, d
  <2>3. \A S : Of(a \o d, S) = Of(a, S) \o Of(d, S)
    BY <2>2, OfConcat
  <2>4. Of(a, Saying(Whats \ {"call"})) = a /\ Of(d, Saying({"call"})) = d
    BY <2>2, OfAll
  <2>5. Of(d, Saying(Whats \ {"call"})) = <<>>
    <3>1. Saying({"call"}) \cap Saying(Whats \ {"call"}) = {}
      BY AnswerFacts
    <3>. QED
      BY ONLY <2>2, <3>1, OfNone
  <2>6. Of(a, Saying({"call"})) = <<>>
    <3>1. Saying(Whats \ {"call"}) \cap Saying({"call"}) = {}
      BY AnswerFacts
    <3>. QED
      BY ONLY <2>2, <3>1, OfNone
  <2>7. a \o <<>> = a /\ <<>> \o d = d
    BY <2>2, Joined
  <2>8. NotCalls(a \o d) = a
    BY <2>3, <2>4, <2>5, <2>7 DEF NotCalls
  <2>9. CallsOf(a \o d) = d
    BY <2>3, <2>4, <2>6, <2>7 DEF CallsOf
  <2>10. Len(CallsOf(answer)) <= 1 => d = CallsOf(answer)
    BY <1>4 DEF Tells, d
  <2>11. Fits(st, c, answer)
    <3>. HIDE DEF c
    <3>. QED
      BY <1>4, <2>1, <2>8, <2>9, <2>10 DEF Fits, a
  <2>12. Of(c, Saying({"result"})) = <<>>
    <3>1. a \o d \in Answer
      BY <2>2, Joined DEF Answer
    <3>. QED
      BY <1>3, <2>1, <3>1
  <2>. QED
    BY <1>1, <2>11, <2>12 DEF m
<1>5. CASE ~(st.protocol = "openai" /\ st.stream)
  <2>1. c = answer
    <3>1. answer \o <<>> = answer
      BY Joined DEF Answer
    <3>. QED
      BY <1>1, <1>5, <3>1 DEF Content, Tells
  <2>2. Fits(st, c, answer)
    <3>. HIDE DEF c
    <3>. QED
      BY <1>5, <2>1 DEF Fits
  <2>. QED
    BY <1>1, <1>3, <2>1, <2>2 DEF m
<1>. QED
  BY <1>4, <1>5

LEMMA BlockFacts ==
  ASSUME NEW kind \in {"text", "tool_use", "tool_result"}, NEW x \in Saying(Chat)
  PROVE  Block(kind, x) \in ChatBlock /\ Block(kind, x).kind = kind /\ Block(kind, x).text = x
BY DEF Block, ChatBlock

LEMMA HearsCallType ==
  ASSUME NEW calls \in Seq(Saying({"call"})), NEW x \in Saying({"call"})
  PROVE  /\ HearsCall(calls, x) \in Seq(Saying({"call"}))
         /\ calls = <<>> => HearsCall(calls, x) = Append(calls, x)
<1>1. CallIndex(calls) + 1 = 1
  BY DEF CallIndex
<1>2. calls = <<>> => 1 \notin DOMAIN calls
  OBVIOUS
<1>3. HearsCall(calls, x) = IF 1 \in DOMAIN calls THEN [calls EXCEPT ![1].names = @ \o x.names]
                                                  ELSE Append(calls, x)
  BY <1>1 DEF HearsCall
<1>4. CASE 1 \in DOMAIN calls
  <2>. DEFINE n == calls[1].names \o x.names
              y == [calls[1] EXCEPT !.names = n]
  <2>1. calls[1] \in Saying({"call"})
    BY <1>4
  <2>2. calls[1].names \in Seq(Nat \X Nat) /\ x.names \in Seq(Nat \X Nat)
    BY <2>1 DEF Saying
  <2>3. n \in Seq(Nat \X Nat)
    BY <2>2, Joined
  <2>. HIDE DEF n
  <2>4. y \in Saying({"call"})
    BY <2>1, <2>3 DEF Saying
  <2>. HIDE DEF y
  <2>5. [calls EXCEPT ![1] = y] \in Seq(Saying({"call"}))
    BY <2>4, <1>4
  <2>6. HearsCall(calls, x) = [calls EXCEPT ![1] = y]
    BY <1>3, <1>4 DEF y, n
  <2>. QED
    BY <1>2, <1>4, <2>5, <2>6
<1>5. CASE 1 \notin DOMAIN calls
  BY <1>3, <1>5
<1>. QED
  BY <1>4, <1>5

LEMMA ReplyWith ==
  ASSUME NEW r \in [blocks : Seq(ChatBlock), calls : Seq(Saying({"call"}))],
         NEW b \in ChatBlock
  PROVE  LET h == [r EXCEPT !.blocks = Append(@, b)]
         IN  /\ h \in [blocks : Seq(ChatBlock), calls : Seq(Saying({"call"}))]
             /\ h.blocks = Append(r.blocks, b) /\ h.calls = r.calls
<1>. DEFINE more == Append(r.blocks, b)
<1>1. more \in Seq(ChatBlock)
  BY AppendFacts
<1>. HIDE DEF more
<1>2. LET h == [r EXCEPT !.blocks = more]
      IN  /\ h \in [blocks : Seq(ChatBlock), calls : Seq(Saying({"call"}))]
          /\ h.blocks = more /\ h.calls = r.calls
  BY <1>1
<1>. QED
  BY <1>2 DEF more

\* What the emitter passes on as it is, the client adds to what it has.
LEMMA HeardAsIs ==
  ASSUME setting \in Settings, NEW r, NEW answer \in Answer, Tells(setting, r, answer),
         NEW x \in Saying(Spoken), setting.stream => x.what \notin {"garbled", "thinking"}
  PROVE  Tells(setting, Hears(r, x), Append(answer, x))
<1>. DEFINE more == Append(answer, x)
            h == Hears(r, x)
<1>0. setting.protocol \in {"openai", "anthropic"} /\ setting.stream \in BOOLEAN
  BY DEF Settings
<1>1. r \in [blocks : Seq(ChatBlock), calls : Seq(Saying({"call"}))]
  BY DEF Tells
<1>2. r.blocks \in Seq(ChatBlock) /\ r.calls \in Seq(Saying({"call"}))
  BY <1>1
<1>3. /\ CallsOf(more) = IF x.what = "call" THEN Append(CallsOf(answer), x) ELSE CallsOf(answer)
      /\ NotCalls(more) = IF x.what = "call" THEN NotCalls(answer) ELSE Append(NotCalls(answer), x)
  BY CallsAppend
<1>4. x \in Saying(Chat) /\ x \in Saying(Whats)
  BY SayingFacts, ChatFacts
<1>5. CallsOf(answer) \in Seq(Saying({"call"}))
  BY CallsType
<1>. HIDE DEF more
<1>6. CASE setting.stream /\ x.what = "call" /\ setting.protocol = "openai"
  <2>1. h = [r EXCEPT !.calls = HearsCall(@, x)]
    BY <1>6 DEF Hears
  <2>2. x \in Saying({"call"})
    BY <1>4, <1>6, AnswerFacts
  <2>3. HearsCall(r.calls, x) \in Seq(Saying({"call"}))
        /\ (r.calls = <<>> => HearsCall(r.calls, x) = Append(r.calls, x))
    BY <1>2, <2>2, HearsCallType
  <2>4. h \in [blocks : Seq(ChatBlock), calls : Seq(Saying({"call"}))]
        /\ h.blocks = r.blocks /\ h.calls = HearsCall(r.calls, x)
    BY <1>1, <2>1, <2>3
  <2>. HIDE DEF h
  <2>5. IntoText(h.blocks) = NotCalls(more)
    BY <1>3, <1>6, <2>4 DEF Tells
  <2>6. ASSUME Len(CallsOf(more)) <= 1 PROVE h.calls = CallsOf(more)
    <3>. DEFINE cs == CallsOf(answer)
    <3>. HIDE DEF cs
    <3>1. cs \in Seq(Saying({"call"})) /\ CallsOf(more) = Append(cs, x) /\ Len(Append(cs, x)) <= 1
      BY <1>3, <1>5, <1>6, <2>6 DEF cs
    <3>2. cs = <<>> /\ Len(cs) <= 1
      BY <3>1
    <3>3. r.calls = cs
      BY <1>6, <3>2 DEF Tells, cs
    <3>. QED
      BY <2>3, <2>4, <3>1, <3>2, <3>3
  <2>. QED
    BY <1>6, <2>4, <2>5, <2>6 DEF Tells, h, more
<1>7. CASE setting.stream /\ x.what = "call" /\ setting.protocol = "anthropic"
  <2>. DEFINE b == Block("tool_use", x)
              K == {"text", "tool_use", "tool_result"}
  <2>1. b \in ChatBlock /\ b.kind = "tool_use" /\ b.text = x
    BY <1>4, BlockFacts
  <2>2. h = [r EXCEPT !.blocks = Append(@, b)]
    BY <1>7 DEF Hears
  <2>. HIDE DEF b
  <2>3. h \in [blocks : Seq(ChatBlock), calls : Seq(Saying({"call"}))]
        /\ h.blocks = Append(r.blocks, b)
    BY <1>1, <1>2, <2>1, <2>2, ReplyWith
  <2>. HIDE DEF h
  <2>4. IntoQwen3Text(h.blocks) = more
    <3>1. Speech(K, h.blocks) = Append(Speech(K, r.blocks), x)
      BY <1>2, <2>1, <2>3, SpeechAppend
    <3>2. Speech(K, r.blocks) = answer
      BY <1>7 DEF Tells, Speech, IntoQwen3Text
    <3>. QED
      BY <3>1, <3>2 DEF more, Speech, IntoQwen3Text
  <2>5. Speech({"tool_use"}, h.blocks) = CallsOf(more)
    <3>1. Speech({"tool_use"}, h.blocks) = Append(Speech({"tool_use"}, r.blocks), x)
      BY <1>2, <2>1, <2>3, SpeechAppend
    <3>2. Speech({"tool_use"}, r.blocks) = CallsOf(answer)
      BY <1>7 DEF Tells
    <3>. QED
      BY <1>3, <1>7, <3>1, <3>2
  <2>. QED
    BY <1>7, <2>3, <2>4, <2>5 DEF Tells, h, more
<1>8. CASE ~(setting.stream /\ x.what = "call")
  <2>. DEFINE b == Block("text", x)
              K == {"text", "tool_use", "tool_result"}
  <2>1. b \in ChatBlock /\ b.kind = "text" /\ b.text = x
    BY <1>4, BlockFacts
  <2>2. h = [r EXCEPT !.blocks = Append(@, b)]
    BY <1>8 DEF Hears, Plain
  <2>. HIDE DEF b
  <2>3. h \in [blocks : Seq(ChatBlock), calls : Seq(Saying({"call"}))]
        /\ h.blocks = Append(r.blocks, b) /\ h.calls = r.calls
    BY <1>1, <1>2, <2>1, <2>2, ReplyWith
  <2>. HIDE DEF h
  <2>4. Speech(K, h.blocks) = Append(Speech(K, r.blocks), x)
    BY <1>2, <2>1, <2>3, SpeechAppend
  <2>5. Speech({"text"}, h.blocks) = Append(Speech({"text"}, r.blocks), x)
    BY <1>2, <2>1, <2>3, SpeechAppend
  <2>6. Speech({"tool_use"}, h.blocks) = Speech({"tool_use"}, r.blocks)
    BY <1>2, <2>1, <2>3, SpeechAppend
  <2>7. \A bs : IntoText(bs) = Speech({"text"}, bs) /\ IntoQwen3Text(bs) = Speech(K, bs)
    BY DEF Speech, IntoText, IntoQwen3Text
  <2>8. setting.stream => CallsOf(more) = CallsOf(answer) /\ NotCalls(more) = Append(NotCalls(answer), x)
    BY <1>3, <1>8
  <2>. HIDE DEF K
  <2>9. setting.protocol = "openai" /\ setting.stream =>
          /\ IntoText(h.blocks) = NotCalls(more)
          /\ Len(CallsOf(more)) <= 1 => h.calls = CallsOf(more)
    BY <2>3, <2>5, <2>7, <2>8 DEF Tells
  <2>10. setting.protocol = "openai" /\ ~setting.stream =>
          IntoText(h.blocks) = more /\ h.calls = <<>>
    BY <2>3, <2>5, <2>7 DEF Tells, more
  <2>11. setting.protocol # "openai" =>
           /\ IntoQwen3Text(h.blocks) = more
           /\ setting.stream => Speech({"tool_use"}, h.blocks) = CallsOf(more)
    BY <2>4, <2>6, <2>7, <2>8 DEF Tells, more
  <2>12. Tells(setting, h, more)
    BY <2>3, <2>9, <2>10, <2>11 DEF Tells
  <2>. QED
    BY <2>12 DEF h, more
<1>. QED
  BY <1>0, <1>6, <1>7, <1>8

\* Answers as a client may get them.
PlainOf == [x \in Saying(Spoken) |-> Plain(x)]

LEMMA PlainFacts ==
  /\ MapsTo(PlainOf, Saying(Spoken), Saying(Spoken))
  /\ \A x \in Saying(Spoken) :
       /\ PlainOf[x] = Plain(x) /\ Plain(x) \in Saying(Spoken)
       /\ Plain(x).what = IF x.what = "thinking" THEN "text" ELSE x.what
       /\ x.what # "thinking" => Plain(x) = x
       /\ Plain(Plain(x)) = Plain(x)
<1>1. ASSUME NEW x \in Saying(Spoken)
      PROVE  /\ Plain(x) \in Saying(Spoken)
             /\ Plain(x).what = IF x.what = "thinking" THEN "text" ELSE x.what
             /\ x.what # "thinking" => Plain(x) = x
             /\ Plain(Plain(x)) = Plain(x)
  <2>1. CASE x.what = "thinking"
    <3>1. Plain(x) = Text("text", x.names) /\ x.names \in Seq(Nat \X Nat)
      BY <2>1 DEF Plain, Saying
    <3>2. Plain(x) \in Saying(Spoken) /\ Plain(x).what = "text"
      BY <3>1 DEF Text, Saying, Spoken
    <3>. QED
      BY <2>1, <3>2 DEF Plain
  <2>2. CASE x.what # "thinking"
    BY <2>2 DEF Plain
  <2>. QED
    BY <2>1, <2>2
<1>. QED
  BY <1>1 DEF MapsTo, PlainOf

LEMMA RelayedNothing == Relayed(<<>>) = <<>>
<1>. DEFINE e == Of(<<>>, Saying(Spoken \ {"garbled"}))
<1>1. e = <<>>
  BY OfNothing
<1>2. Relayed(<<>>) = IF setting.stream THEN [i \in DOMAIN e |-> Plain(e[i])] ELSE <<>>
  BY DEF Relayed
<1>. HIDE DEF e
<1>3. [i \in DOMAIN e |-> Plain(e[i])] = <<>>
  BY <1>1
<1>. QED
  BY <1>2, <1>3

LEMMA RelayedMore ==
  ASSUME NEW answer \in Answer, NEW x \in Saying(Spoken)
  PROVE  Relayed(Append(answer, x))
           = IF ~setting.stream THEN Append(answer, x)
             ELSE IF x.what = "garbled" THEN Relayed(answer)
             ELSE Append(Relayed(answer), Plain(x))
<1>. DEFINE S == Saying(Spoken \ {"garbled"})
            a == Of(answer, S)
            b == Of(Append(answer, x), S)
<1>1. x \in S <=> x.what # "garbled"
  BY DEF Saying
<1>. HIDE DEF S
<1>2. b = IF x.what # "garbled" THEN Append(a, x) ELSE a
  BY <1>1, OfAppend DEF Answer
<1>3. a \in Seq(Saying(Spoken)) /\ b \in Seq(Saying(Spoken))
  <2>1. a \in Seq(Saying(Spoken))
    BY OfStays DEF Answer
  <2>. HIDE DEF a, b
  <2>. QED
    BY <1>2, <2>1
<1>4. setting.stream => Relayed(answer) = [i \in DOMAIN a |-> Plain(a[i])]
                        /\ Relayed(Append(answer, x)) = [i \in DOMAIN b |-> Plain(b[i])]
  BY DEF Relayed, S
<1>5. ~setting.stream => Relayed(Append(answer, x)) = Append(answer, x)
  BY DEF Relayed
<1>. HIDE DEF a, b
<1>6. ASSUME NEW s \in Seq(Saying(Spoken)) PROVE [i \in DOMAIN s |-> Plain(s[i])] = Map(PlainOf, s)
  <2>1. \A i \in DOMAIN s : s[i] \in Saying(Spoken)
    OBVIOUS
  <2>. QED
    BY <2>1, PlainFacts DEF Map
<1>7. Map(PlainOf, Append(a, x)) = Append(Map(PlainOf, a), Plain(x))
  BY <1>3, PlainFacts, MapAppend
<1>8. setting.stream => Relayed(answer) = Map(PlainOf, a)
                        /\ Relayed(Append(answer, x)) = Map(PlainOf, b)
  BY <1>3, <1>4, <1>6
<1>. QED
  BY <1>2, <1>5, <1>7, <1>8

LEMMA RelayedFacts ==
  ASSUME NEW answer \in Answer
  PROVE  Relayed(answer) \in Answer /\ CallsOf(Relayed(answer)) = CallsOf(answer)
<1>. DEFINE T == Saying(Spoken)
            P == {r \in Seq(T) : Relayed(r) \in Seq(T) /\ CallsOf(Relayed(r)) = CallsOf(r)}
<1>1. <<>> \in P
  <2>1. <<>> \in Seq(T) /\ Relayed(<<>>) = <<>>
    BY RelayedNothing
  <2>. QED
    BY <2>1, Zenon
<1>2. ASSUME NEW r \in Seq(T), r \in P, NEW x \in T PROVE Append(r, x) \in P
  <2>. DEFINE u == Append(r, x)
              q == Relayed(r)
  <2>1. r \in Answer /\ u \in Seq(T) /\ q \in Seq(T) /\ q \in Answer /\ CallsOf(q) = CallsOf(r)
    BY <1>2 DEF Answer
  <2>2. Relayed(u) = IF ~setting.stream THEN u
                     ELSE IF x.what = "garbled" THEN q ELSE Append(q, Plain(x))
    BY <2>1, RelayedMore
  <2>3. Plain(x) \in T /\ (x.what = "call" => Plain(x) = x) /\ (x.what # "call" => Plain(x).what # "call")
    <3>1. /\ Plain(x) \in T /\ Plain(x).what = IF x.what = "thinking" THEN "text" ELSE x.what
          /\ x.what # "thinking" => Plain(x) = x
      BY PlainFacts
    <3>. QED
      BY <3>1
  <2>4. CallsOf(u) = IF x.what = "call" THEN Append(CallsOf(r), x) ELSE CallsOf(r)
    BY <2>1, CallsAppend
  <2>5. CallsOf(Append(q, Plain(x)))
          = IF Plain(x).what = "call" THEN Append(CallsOf(q), Plain(x)) ELSE CallsOf(q)
    BY <2>1, <2>3, CallsAppend
  <2>. HIDE DEF u, q
  <2>6. CallsOf(Append(q, Plain(x))) = CallsOf(u)
    BY <2>1, <2>3, <2>4, <2>5
  <2>7. Append(q, Plain(x)) \in Seq(T)
    <3>. DEFINE y == Plain(x)
    <3>. HIDE DEF y, T
    <3>. QED
      BY <2>1, <2>3 DEF y
  <2>8. Relayed(u) \in Seq(T) /\ CallsOf(Relayed(u)) = CallsOf(u)
    <3>1. x.what = "garbled" => CallsOf(q) = CallsOf(u)
      BY <2>1, <2>4
    <3>. QED
      BY <2>1, <2>2, <2>6, <2>7, <3>1
  <2>. QED
    BY <2>1, <2>8 DEF u
<1>. HIDE DEF P
<1>3. answer \in P
  BY <1>1, <1>2, Grows DEF Grown, Answer
<1>. QED
  BY <1>3 DEF P, Answer

\* A stream drops what does not parse and the marks of thinking; what it passes on, the
\* client adds to what it has.
LEMMA Heard ==
  ASSUME setting \in Settings, NEW r, NEW answer \in Answer, Tells(setting, r, Relayed(answer)),
         NEW x \in Saying(Spoken)
  PROVE  Tells(setting, Hears(r, x), Relayed(Append(answer, x)))
<1>1. Relayed(answer) \in Answer
  BY RelayedFacts
<1>2. CASE ~setting.stream
  <2>1. Relayed(answer) = answer /\ Relayed(Append(answer, x)) = Append(answer, x)
    BY <1>2 DEF Relayed
  <2>. QED
    BY <1>2, <2>1, HeardAsIs
<1>3. CASE setting.stream /\ x.what = "garbled"
  <2>1. Hears(r, x) = r
    BY <1>3 DEF Hears
  <2>2. Relayed(Append(answer, x)) = Relayed(answer)
    BY <1>3, RelayedMore
  <2>. QED
    BY <2>1, <2>2
<1>4. CASE setting.stream /\ x.what # "garbled"
  <2>. DEFINE y == Plain(x)
              a == Relayed(answer)
  <2>1. y \in Saying(Spoken) /\ y.what \notin {"garbled", "thinking"}
    BY <1>4, PlainFacts
  <2>2. Hears(r, x) = Hears(r, y)
    <3>1. CASE x.what # "thinking"
      BY <3>1, PlainFacts
    <3>2. CASE x.what = "thinking"
      <4>1. y.what = "text" /\ Plain(y) = y
        BY <3>2, PlainFacts
      <4>. HIDE DEF y
      <4>2. Hears(r, y) = [r EXCEPT !.blocks = Append(@, Block("text", y))]
        BY <1>4, <4>1 DEF Hears
      <4>3. Hears(r, x) = [r EXCEPT !.blocks = Append(@, Block("text", Plain(x)))]
        BY <1>4, <3>2 DEF Hears
      <4>. QED
        BY <4>2, <4>3 DEF y
    <3>. QED
      BY <3>1, <3>2
  <2>3. Relayed(Append(answer, x)) = Append(a, y)
    BY <1>4, RelayedMore
  <2>. HIDE DEF y, a
  <2>4. a \in Answer /\ Tells(setting, r, a)
    BY <1>1 DEF a
  <2>5. Tells(setting, Hears(r, y), Append(a, y))
    BY <2>1, <2>4, HeardAsIs
  <2>. QED
    BY <2>2, <2>3, <2>5
<1>. QED
  BY <1>2, <1>3, <1>4

LEMMA NoReplyTells ==
  ASSUME NEW st
  PROVE  Tells(st, NoReply, <<>>)
<1>1. <<>> \in Seq(ChatBlock) /\ <<>> \in Seq(Saying({"call"}))
  OBVIOUS
<1>2. NoReply \in [blocks : Seq(ChatBlock), calls : Seq(Saying({"call"}))]
      /\ NoReply.blocks = <<>> /\ NoReply.calls = <<>>
  BY <1>1 DEF NoReply
<1>3. IntoText(<<>>) = <<>> /\ IntoQwen3Text(<<>>) = <<>> /\ Speech({"tool_use"}, <<>>) = <<>>
  BY SpeechNone DEF IntoText, IntoQwen3Text, Speech
<1>4. CallsOf(<<>>) = <<>> /\ NotCalls(<<>>) = <<>>
  BY OfNothing DEF CallsOf, NotCalls
<1>. QED
  BY <1>2, <1>3, <1>4 DEF Tells

-----------------------------------------------------------------------------
(* What a client adds to its last answer.                                  *)

LEMMA FlatSingles ==
  ASSUME NEW X, NEW s \in Seq(X)
  PROVE  FlattenSeq([i \in DOMAIN s |-> <<s[i]>>]) = s
<1>. DEFINE one == [x \in X |-> <<x>>]
            P == {r \in Seq(X) : FlattenSeq(Map(one, r)) = r}
<1>0. MapsTo(one, X, Seq(X)) /\ \A x \in X : one[x] = <<x>>
  BY DEF MapsTo
<1>. HIDE DEF one
<1>1. <<>> \in P
  <2>1. <<>> \in Seq(X) /\ FlattenSeq(Map(one, <<>>)) = <<>>
    BY MapNone, FlatNothing
  <2>. QED
    BY <2>1, Zenon
<1>2. ASSUME NEW r \in Seq(X), r \in P, NEW x \in X PROVE Append(r, x) \in P
  <2>. DEFINE c == Map(one, r)
  <2>1. c \in Seq(Seq(X)) /\ <<x>> \in Seq(X)
    BY <1>0, MapFacts
  <2>2. Map(one, Append(r, x)) = Append(c, one[x])
    BY <1>0, MapAppend
  <2>3. FlattenSeq(c) = r
    BY <1>2
  <2>. HIDE DEF c
  <2>. DEFINE y == <<x>>
  <2>4. FlattenSeq(Append(c, y)) = FlattenSeq(c) \o y
    <3>. HIDE DEF y
    <3>1. y \in Seq(X)
      BY <2>1 DEF y
    <3>. QED
      BY <2>1, <3>1, FlatAppend
  <2>5. r \o y = Append(r, x)
    OBVIOUS
  <2>6. FlattenSeq(Map(one, Append(r, x))) = Append(r, x)
    BY <1>0, <2>2, <2>3, <2>4, <2>5
  <2>7. Append(r, x) \in Seq(X)
    OBVIOUS
  <2>. QED
    BY <2>6, <2>7, Zenon
<1>. HIDE DEF P
<1>3. s \in P
  BY <1>1, <1>2, Grows DEF Grown
<1>4. \A i \in DOMAIN s : s[i] \in X
  OBVIOUS
<1>5. Map(one, s) = [i \in DOMAIN s |-> <<s[i]>>]
  BY <1>0, <1>4 DEF Map
<1>. QED
  BY <1>3, <1>5 DEF P

\* Messages that hold these results, and no words of the model.
Adds(protocol, news, results) ==
  /\ news \in Seq(ChatMessage)
  /\ Own(Lines(protocol, news)) = <<>>
  /\ Of(All(Lines(protocol, news)), Saying({"result"})) = results

LEMMA OneAdds ==
  ASSUME NEW protocol, NEW m \in ChatMessage, m.role # "assistant", NEW content, NEW results,
         Content(protocol, m) = content, Of(content, Saying({"result"})) = results
  PROVE  Adds(protocol, <<m>>, results)
<1>. DEFINE e == Entry(m.role, content)
            L == <<e>>
            ms == <<m>>
<1>1. ms \in Seq(ChatMessage) /\ Lines(protocol, ms) = L
  BY LinesOne
<1>2. e.role = m.role /\ e.content = content
  BY DEF Entry
<1>3. e \in AnyEntry
  <2>1. e \in ChatEntry
    BY TurnFacts DEF MapsTo
  <2>. QED
    BY <2>1, EntriesAreAny
<1>. HIDE DEF e
<1>4. Own(L) = <<>> /\ All(L) = content
  BY <1>2, <1>3, OwnOne, AllOne
<1>. HIDE DEF L, ms
<1>5. Adds(protocol, ms, results)
  BY <1>1, <1>4 DEF Adds
<1>. QED
  BY <1>5 DEF ms

LEMMA QuestionAdds ==
  ASSUME NEW protocol, NEW turn \in Nat
  PROVE  Adds(protocol, <<Question(turn)>>, <<>>)
<1>. DEFINE q == Text("question", <<<<turn, 0>>>>)
            m == Question(turn)
<1>1. m \in ChatMessage /\ m.role = "user" /\ q \in Saying({"question"})
      /\ Content(protocol, m) = <<q>>
  BY QuestionIs
<1>. HIDE DEF q, m
<1>2. Of(<<q>>, Saying({"result"})) = <<>>
  <2>1. q \notin Saying({"result"})
    BY <1>1 DEF Saying
  <2>. QED
    BY <2>1, OfOne
<1>3. Adds(protocol, <<m>>, <<>>)
  BY <1>1, <1>2, OneAdds
<1>. QED
  BY <1>3 DEF m

LEMMA AnswersAdd ==
  ASSUME setting \in Settings, NEW calls \in Seq(Saying({"call"}))
  PROVE  Adds(setting.protocol, Answers(calls), Results(calls))
<1>. DEFINE rs == Results(calls)
            n == Len(calls)
<1>1. /\ n \in Nat /\ DOMAIN calls = 1 .. n
      /\ rs \in Seq(Saying({"result"})) /\ Len(rs) = n
      /\ \A i \in 1 .. n : rs[i] = Text("result", calls[i].names)
  <2>1. rs \in Seq(Saying({"result"}))
    BY ResultsFacts
  <2>. QED
    BY <2>1 DEF Results
<1>2. \A i \in 1 .. n : rs[i] \in Saying({"result"}) /\ rs[i] \in Saying(Chat)
  <2>1. Saying({"result"}) \subseteq Saying(Chat)
    BY SayingFacts DEF Chat
  <2>. HIDE DEF rs, n
  <2>. QED
    BY <1>1, <2>1
<1>. HIDE DEF rs, n
<1>3. Of(rs, Saying({"result"})) = rs
  BY <1>1, OfAll
<1>4. CASE setting.protocol = "openai"
  <2>. DEFINE ms == [i \in 1 .. n |-> Message("tool", <<Block("text", rs[i])>>, <<>>)]
              L == Lines("openai", ms)
  <2>1. Answers(calls) = ms
    <3>1. Answers(calls) = [i \in DOMAIN calls |->
                              Message("tool", <<Block("text", Text("result", calls[i].names))>>, <<>>)]
      BY <1>4 DEF Answers
    <3>. QED
      BY <1>1, <3>1
  <2>2. ASSUME NEW i \in 1 .. n
        PROVE  /\ ms[i] \in ChatMessage /\ ms[i].role = "tool"
               /\ Content("openai", ms[i]) = <<rs[i]>>
    <3>. DEFINE b == Block("text", rs[i])
                m == Message("tool", <<b>>, <<>>)
    <3>1. b \in ChatBlock /\ b.kind = "text" /\ b.text = rs[i]
      BY <1>2, BlockFacts
    <3>2. ms[i] = m
      OBVIOUS
    <3>. HIDE DEF b
    <3>3. m \in ChatMessage /\ m.role = "tool" /\ m.blocks = <<b>> /\ m.calls = <<>>
      BY <3>1 DEF Message, ChatMessage
    <3>4. IntoText(<<b>>) = <<rs[i]>>
      BY <3>1, SpeechOne DEF IntoText, Speech
    <3>5. <<rs[i]>> \o <<>> = <<rs[i]>>
      OBVIOUS
    <3>. HIDE DEF m, ms
    <3>6. Content("openai", m) = <<rs[i]>>
      BY <3>3, <3>4, <3>5 DEF Content
    <3>. QED
      BY <3>2, <3>3, <3>6
  <2>3. ms \in Seq(ChatMessage) /\ Len(ms) = n
    BY <1>1, <2>2
  <2>. HIDE DEF ms
  <2>4. /\ L \in Seq(ChatEntry) /\ Len(L) = n
        /\ \A i \in 1 .. n : L[i] = Turn("openai")[ms[i]]
    BY <2>3, TurnFacts, MapFacts DEF Lines
  <2>. HIDE DEF L
  <2>5. \A i \in 1 .. n : L[i] = Entry("tool", <<rs[i]>>)
    BY <2>2, <2>4, TurnFacts
  <2>6. \A i \in 1 .. n : L[i].role = "tool" /\ L[i].content = <<rs[i]>>
    <3>1. \A role, content : Entry(role, content).role = role /\ Entry(role, content).content = content
      BY DEF Entry
    <3>. HIDE DEF Results, Answers
    <3>. TAKE i \in 1 .. n
    <3>. DEFINE one == <<rs[i]>>
    <3>2. L[i] = Entry("tool", one)
      BY <2>5
    <3>. HIDE DEF one
    <3>3. L[i].role = "tool" /\ L[i].content = one
      BY ONLY <3>1, <3>2
    <3>. QED
      BY <3>3 DEF one
  <2>7. L \in Seq(AnyEntry)
    BY <2>4, EntriesAreAny, Wider
  <2>8. Own(L) = <<>>
    BY <2>4, <2>6, <2>7, OwnNone
  <2>9. All(L) = rs
    <3>1. DOMAIN L = 1 .. n /\ DOMAIN rs = 1 .. n
      BY <1>1, <2>4
    <3>2. All(L) = FlattenSeq([i \in 1 .. n |-> <<rs[i]>>])
      BY <2>6, <3>1 DEF All
    <3>3. FlattenSeq([i \in DOMAIN rs |-> <<rs[i]>>]) = rs
      BY <1>1, FlatSingles
    <3>. QED
      BY <3>1, <3>2, <3>3
  <2>10. Adds("openai", ms, rs)
    BY <1>3, <2>3, <2>8, <2>9 DEF Adds, L
  <2>. QED
    BY <1>4, <2>1, <2>10 DEF rs
<1>5. CASE setting.protocol = "anthropic"
  <2>. DEFINE bs == [i \in 1 .. n |-> Block("tool_result", rs[i])]
              m == Message("user", bs, <<>>)
              K == {"text", "tool_use", "tool_result"}
  <2>1. Answers(calls) = <<m>>
    <3>1. Answers(calls) = <<Message("user", [i \in DOMAIN calls |->
                              Block("tool_result", Text("result", calls[i].names))], <<>>)>>
      BY <1>5 DEF Answers
    <3>2. [i \in DOMAIN calls |-> Block("tool_result", Text("result", calls[i].names))] = bs
      BY <1>1
    <3>. QED
      BY <3>1, <3>2
  <2>2. \A i \in 1 .. n : bs[i] \in ChatBlock /\ bs[i].kind \in K /\ bs[i].text = rs[i]
    BY <1>2, BlockFacts
  <2>3. bs \in Seq(ChatBlock) /\ Len(bs) = n
    BY <1>1, <2>2
  <2>. HIDE DEF bs, K
  <2>4. Speech(K, bs) = Texts(bs)
    BY <2>2, <2>3, SpeechAll
  <2>5. Texts(bs) = rs
    <3>1. DOMAIN bs = 1 .. n /\ DOMAIN rs = 1 .. n
      BY <1>1, <2>3
    <3>2. Texts(bs) = [i \in 1 .. n |-> rs[i]]
      BY <2>2, <3>1 DEF Texts
    <3>3. rs = [i \in 1 .. n |-> rs[i]]
      BY <1>1, <3>1
    <3>. QED
      BY <3>2, <3>3
  <2>6. m \in ChatMessage /\ m.role = "user" /\ m.blocks = bs
    BY <2>3 DEF Message, ChatMessage
  <2>. HIDE DEF m
  <2>7. Content("anthropic", m) = rs
    BY <2>4, <2>5, <2>6 DEF Content, IntoQwen3Text, Speech, K
  <2>8. Adds("anthropic", <<m>>, rs)
    BY <1>3, <2>6, <2>7, OneAdds
  <2>. QED
    BY <1>5, <2>1, <2>8 DEF rs
<1>. QED
  BY <1>4, <1>5 DEF Settings

-----------------------------------------------------------------------------
(* The lines of a conversation, and the answers they come from.            *)

Apart(st, answers) ==
  st.protocol = "anthropic" \/ \A i \in 1 .. Len(answers) : Len(CallsOf(answers[i])) <= 1

Recalls(st, past, lines) ==
  /\ Len(Own(lines)) = Len(past)
  /\ \A i \in 1 .. Len(past) : Fits(st, Own(lines)[i], past[i])
  /\ st.stream /\ Apart(st, past) =>
       NamesOf(Of(All(lines), Saying({"result"}))) = NamesOf(CallsOf(FlattenSeq(past)))

LEMMA RecallsNothing ==
  ASSUME NEW st, NEW news, Adds(st.protocol, news, <<>>)
  PROVE  Recalls(st, <<>>, Lines(st.protocol, news))
<1>1. CallsOf(FlattenSeq(<<>>)) = <<>>
  BY FlatNothing, OfNothing DEF CallsOf
<1>2. Len(<<>>) = 0
  OBVIOUS
<1>. QED
  BY <1>1, <1>2 DEF Adds, Recalls

LEMMA ApartFewer ==
  ASSUME NEW st, NEW past \in Seq(Answer), NEW now \in Answer, Apart(st, Append(past, now))
  PROVE  /\ Apart(st, past)
         /\ st.protocol # "anthropic" => Len(CallsOf(now)) <= 1
<1>. DEFINE s == Append(past, now)
            n == Len(past)
<1>1. n \in Nat /\ Len(s) = n + 1 /\ s[n + 1] = now /\ \A i \in 1 .. n : s[i] = past[i]
  BY AppendFacts
<1>. HIDE DEF s
<1>2. CASE st.protocol = "anthropic"
  BY <1>2 DEF Apart
<1>3. CASE st.protocol # "anthropic"
  <2>1. \A i \in 1 .. n + 1 : Len(CallsOf(s[i])) <= 1
    BY <1>1, <1>3 DEF Apart, s
  <2>. QED
    BY <1>1, <2>1 DEF Apart
<1>. QED
  BY <1>2, <1>3

LEMMA CallsOfMore ==
  ASSUME NEW past \in Seq(Answer), NEW now \in Answer
  PROVE  /\ CallsOf(FlattenSeq(past)) \in Seq(Saying(Whats)) /\ CallsOf(now) \in Seq(Saying(Whats))
         /\ CallsOf(FlattenSeq(Append(past, now))) = CallsOf(FlattenSeq(past)) \o CallsOf(now)
<1>. DEFINE f == FlattenSeq(past)
<1>1. f \in Answer /\ FlattenSeq(Append(past, now)) = f \o now
  BY FlatType, FlatAppend DEF Answer
<1>. HIDE DEF f
<1>2. CallsOf(f \o now) = CallsOf(f) \o CallsOf(now)
  BY <1>1, OfConcat DEF CallsOf, Answer
<1>3. \A s \in Answer : CallsOf(s) \in Seq(Saying(Whats))
  <2>. TAKE s \in Answer
  <2>1. CallsOf(s) \in Seq(Saying({"call"}))
    BY CallsType
  <2>2. Saying({"call"}) \subseteq Saying(Whats)
    BY AnswerFacts
  <2>. QED
    BY <2>1, <2>2, Wider
<1>. QED
  BY <1>1, <1>2, <1>3 DEF f

LEMMA RecallsMore ==
  ASSUME NEW st, NEW past \in Seq(Answer), NEW now \in Answer,
         NEW tail \in Seq(ChatMessage), Recalls(st, past, Lines(st.protocol, tail)),
         NEW m \in ChatMessage, m.role = "assistant",
         Fits(st, Content(st.protocol, m), now),
         Of(Content(st.protocol, m), Saying({"result"})) = <<>>,
         NEW news, NEW results \in Seq(Saying(Whats)), Adds(st.protocol, news, results),
         st.stream /\ Apart(st, Append(past, now)) => NamesOf(results) = NamesOf(CallsOf(now))
  PROVE  /\ (tail \o <<m>>) \o news \in Seq(ChatMessage)
         /\ Recalls(st, Append(past, now), Lines(st.protocol, (tail \o <<m>>) \o news))
<1>. DEFINE p == st.protocol
            c == Content(p, m)
            one == <<m>>
            A == Lines(p, tail)
            B == Lines(p, one)
            C == Lines(p, news)
            L == Lines(p, (tail \o one) \o news)
            R == Saying({"result"})
<1>1. news \in Seq(ChatMessage) /\ one \in Seq(ChatMessage)
  BY DEF Adds
<1>2. B = <<Entry("assistant", c)>>
  BY LinesOne
<1>3. Entry("assistant", c) \in AnyEntry /\ c \in Seq(Saying(Whats))
      /\ Entry("assistant", c).role = "assistant" /\ Entry("assistant", c).content = c
  <2>1. Entry("assistant", c) \in ChatEntry
    <3>1. Turn(p)[m] = Entry("assistant", c)
      BY TurnFacts
    <3>2. Turn(p)[m] \in ChatEntry
      <4>1. MapsTo(Turn(p), ChatMessage, ChatEntry)
        BY TurnFacts
      <4>. QED
        BY <4>1 DEF MapsTo
    <3>. QED
      BY <3>1, <3>2
  <2>2. Entry("assistant", c).content = c /\ Entry("assistant", c).role = "assistant"
    BY DEF Entry
  <2>3. Entry("assistant", c) \in AnyEntry
    BY <2>1, EntriesAreAny
  <2>4. c \in Seq(Saying(Whats))
    BY <2>2, <2>3, ContentOfFacts
  <2>. QED
    BY <2>2, <2>3, <2>4
<1>4. Own(B) = <<c>> /\ All(B) = c
  <2>. DEFINE e == Entry("assistant", c)
  <2>. HIDE DEF e, c
  <2>1. Own(<<e>>) = <<c>> /\ All(<<e>>) = c
    BY <1>3, OwnOne, AllOne DEF e
  <2>. QED
    BY <1>2, <2>1 DEF e
<1>. HIDE DEF one
<1>5. tail \o one \in Seq(ChatMessage) /\ (tail \o one) \o news \in Seq(ChatMessage)
  BY <1>1, Joined
<1>6. L = (A \o B) \o C
  <2>1. L = Lines(p, tail \o one) \o C
    BY <1>1, <1>5, LinesFacts
  <2>2. Lines(p, tail \o one) = A \o B
    BY <1>1, LinesFacts
  <2>. QED
    BY <2>1, <2>2
<1>7. A \in Seq(AnyEntry) /\ B \in Seq(AnyEntry) /\ C \in Seq(AnyEntry) /\ A \o B \in Seq(AnyEntry)
  <2>1. A \in Seq(AnyEntry) /\ B \in Seq(AnyEntry) /\ C \in Seq(AnyEntry)
    BY <1>1, LinesAny
  <2>. HIDE DEF A, B, C
  <2>. QED
    BY <2>1, Joined
<1>8. Own(A) \in Seq(Seq(Saying(Whats))) /\ All(A) \in Seq(Saying(Whats)) /\ All(C) \in Seq(Saying(Whats))
  <2>. HIDE DEF A, C
  <2>. QED
    BY <1>7, OwnType, AllMap
<1>9. Len(Own(A)) = Len(past) /\ (\A i \in 1 .. Len(past) : Fits(st, Own(A)[i], past[i]))
      /\ (st.stream /\ Apart(st, past) => NamesOf(Of(All(A), R)) = NamesOf(CallsOf(FlattenSeq(past))))
  BY DEF Recalls
<1>10. Own(C) = <<>> /\ Of(All(C), R) = results
  BY DEF Adds
<1>11. Of(c, R) = <<>> /\ Fits(st, c, now)
  OBVIOUS
<1>. HIDE DEF A, B, C, L, R, p, c
<1>12. Own(L) = Append(Own(A), c)
  <2>1. Own((A \o B) \o C) = (Own(A) \o Own(B)) \o Own(C)
    <3>1. Own((A \o B) \o C) = Own(A \o B) \o Own(C)
      BY <1>7, OwnConcat
    <3>2. Own(A \o B) = Own(A) \o Own(B)
      BY <1>7, OwnConcat
    <3>. QED
      BY <3>1, <3>2
  <2>. DEFINE o == Own(A)
  <2>. HIDE DEF o
  <2>2. o \in Seq(Seq(Saying(Whats)))
    BY <1>8 DEF o
  <2>3. o \o <<c>> = Append(o, c) /\ Append(o, c) \o <<>> = Append(o, c)
    BY <1>3, <2>2
  <2>. QED
    BY <1>4, <1>6, <1>10, <2>1, <2>3 DEF o
<1>13. Of(All(L), R) = Of(All(A), R) \o results
  <2>1. All((A \o B) \o C) = (All(A) \o All(B)) \o All(C)
    <3>1. All((A \o B) \o C) = All(A \o B) \o All(C)
      BY <1>7, AllConcat
    <3>2. All(A \o B) = All(A) \o All(B)
      BY <1>7, AllConcat
    <3>. QED
      BY <3>1, <3>2
  <2>. DEFINE a == All(A)
              d == All(C)
              oa == Of(a, R)
  <2>2. a \in Seq(Saying(Whats)) /\ d \in Seq(Saying(Whats))
    BY <1>8
  <2>. HIDE DEF a, d, oa
  <2>4. c \in Seq(Saying(Whats)) /\ Of(c, R) = <<>>
    BY <1>3, <1>11
  <2>5. Of((a \o c) \o d, R) = Of(a, R) \o Of(d, R)
    <3>1. OfEnds(a, c, d, R)
      BY ONLY <2>2, <2>4, OfAround
    <3>. QED
      BY <3>1 DEF OfEnds
  <2>8. Of((a \o c) \o d, R) = oa \o results
    BY <1>10, <2>5 DEF oa, d
  <2>. QED
    BY <1>4, <1>6, <2>1, <2>8 DEF a, d, oa
<1>. DEFINE past2 == Append(past, now)
<1>14. Len(past) \in Nat /\ Len(past2) = Len(past) + 1 /\ past2[Len(past) + 1] = now
       /\ \A i \in 1 .. Len(past) : past2[i] = past[i]
  BY AppendFacts
<1>15. Len(Own(L)) = Len(past) + 1 /\ Own(L)[Len(past) + 1] = c
       /\ \A i \in 1 .. Len(past) : Own(L)[i] = Own(A)[i]
  <2>. DEFINE o == Own(A)
  <2>. HIDE DEF o
  <2>1. o \in Seq(Seq(Saying(Whats))) /\ Len(o) = Len(past)
    BY <1>8, <1>9 DEF o
  <2>. DEFINE q == Append(o, c)
  <2>2. Len(q) = Len(o) + 1 /\ q[Len(o) + 1] = c /\ \A i \in 1 .. Len(o) : q[i] = o[i]
    BY <1>3, <2>1, AppendFacts
  <2>. HIDE DEF q
  <2>3. Own(L) = q
    BY <1>12 DEF q, o
  <2>. QED
    BY <2>1, <2>2, <2>3 DEF o
<1>. HIDE DEF past2
<1>16. \A i \in 1 .. Len(past) + 1 : Fits(st, Own(L)[i], past2[i])
  <2>. TAKE i \in 1 .. Len(past) + 1
  <2>1. CASE i \in 1 .. Len(past)
    BY <1>9, <1>14, <1>15, <2>1
  <2>2. CASE i = Len(past) + 1
    BY <1>11, <1>14, <1>15, <2>2
  <2>. QED
    BY <1>14, <2>1, <2>2
<1>17. ASSUME st.stream, Apart(st, past2)
       PROVE  NamesOf(Of(All(L), R)) = NamesOf(CallsOf(FlattenSeq(past2)))
  <2>. DEFINE oa == Of(All(A), R)
              cf == CallsOf(FlattenSeq(past))
              cn == CallsOf(now)
  <2>1. Apart(st, past)
    BY <1>17, ApartFewer DEF past2
  <2>2. NamesOf(oa) = NamesOf(cf)
    BY <1>9, <1>17, <2>1
  <2>3. NamesOf(results) = NamesOf(cn)
    BY <1>17 DEF past2
  <2>4. cf \in Seq(Saying(Whats)) /\ cn \in Seq(Saying(Whats))
        /\ CallsOf(FlattenSeq(past2)) = cf \o cn
    BY CallsOfMore DEF past2
  <2>5. oa \in Seq(Saying(Whats))
    BY <1>8, OfStays
  <2>. HIDE DEF oa, cf, cn
  <2>6. NamesOf(cf \o cn) = NamesOf(cf) \o NamesOf(cn)
    BY <2>4, NamesConcat
  <2>7. NamesOf(oa \o results) = NamesOf(oa) \o NamesOf(results)
    BY <2>5, NamesConcat
  <2>. QED
    BY <1>13, <2>2, <2>3, <2>4, <2>6, <2>7 DEF oa
<1>18. Recalls(st, past2, L)
  BY <1>14, <1>15, <1>16, <1>17 DEF Recalls, R
<1>. QED
  BY <1>5, <1>18 DEF past2, L, one, p

-----------------------------------------------------------------------------
(* Answers as they are relayed.                                            *)

Relays(answers) == [i \in DOMAIN answers |-> Relayed(answers[i])]

RelayedOf == [a \in Answer |-> Relayed(a)]

LEMMA RelaysFacts ==
  ASSUME NEW past \in Seq(Answer)
  PROVE  /\ Relays(past) \in Seq(Answer) /\ Len(Relays(past)) = Len(past)
         /\ \A i \in 1 .. Len(past) : Relays(past)[i] = Relayed(past[i])
         /\ \A now \in Answer : Relays(Append(past, now)) = Append(Relays(past), Relayed(now))
<1>1. MapsTo(RelayedOf, Answer, Answer) /\ \A a \in Answer : RelayedOf[a] = Relayed(a)
  BY RelayedFacts DEF MapsTo, RelayedOf
<1>2. ASSUME NEW s \in Seq(Answer) PROVE Relays(s) = Map(RelayedOf, s)
  <2>1. \A i \in DOMAIN s : s[i] \in Answer
    OBVIOUS
  <2>. QED
    BY <1>1, <2>1 DEF Relays, Map
<1>3. /\ Relays(past) \in Seq(Answer) /\ Len(Relays(past)) = Len(past)
      /\ \A i \in 1 .. Len(past) : Relays(past)[i] = RelayedOf[past[i]]
  BY <1>1, <1>2, MapFacts
<1>4. \A i \in 1 .. Len(past) : past[i] \in Answer
  OBVIOUS
<1>5. ASSUME NEW now \in Answer
      PROVE  Relays(Append(past, now)) = Append(Relays(past), Relayed(now))
  <2>1. Append(past, now) \in Seq(Answer)
    BY AppendFacts
  <2>2. Map(RelayedOf, Append(past, now)) = Append(Map(RelayedOf, past), RelayedOf[now])
    BY <1>1, MapAppend
  <2>. QED
    BY <1>1, <1>2, <2>1, <2>2
<1>. QED
  BY <1>1, <1>3, <1>4, <1>5

\* The calls are those of the answers.
LEMMA RelaysCalls ==
  ASSUME NEW past \in Seq(Answer)
  PROVE  CallsOf(FlattenSeq(Relays(past))) = CallsOf(FlattenSeq(past))
<1>. DEFINE P == {r \in Seq(Answer) : CallsOf(FlattenSeq(Relays(r))) = CallsOf(FlattenSeq(r))}
<1>1. <<>> \in P
  <2>1. <<>> \in Seq(Answer) /\ Relays(<<>>) = <<>>
    BY DEF Relays
  <2>. QED
    BY <2>1, Zenon
<1>2. ASSUME NEW r \in Seq(Answer), r \in P, NEW x \in Answer PROVE Append(r, x) \in P
  <2>. DEFINE u == Append(r, x)
              q == Relays(r)
              y == Relayed(x)
  <2>1. q \in Seq(Answer) /\ y \in Answer /\ CallsOf(y) = CallsOf(x) /\ Relays(u) = Append(q, y)
    BY RelaysFacts, RelayedFacts
  <2>2. CallsOf(FlattenSeq(q)) = CallsOf(FlattenSeq(r))
    BY <1>2
  <2>. HIDE DEF q, y
  <2>3. CallsOf(FlattenSeq(Append(q, y))) = CallsOf(FlattenSeq(q)) \o CallsOf(y)
    BY <2>1, CallsOfMore
  <2>4. CallsOf(FlattenSeq(u)) = CallsOf(FlattenSeq(r)) \o CallsOf(x)
    BY CallsOfMore
  <2>5. u \in Seq(Answer)
    BY AppendFacts
  <2>. HIDE DEF u
  <2>6. CallsOf(FlattenSeq(Relays(u))) = CallsOf(FlattenSeq(u))
    BY <2>1, <2>2, <2>3, <2>4
  <2>7. u \in P
    BY <2>5, <2>6
  <2>. QED
    BY <2>7 DEF u
<1>. HIDE DEF P
<1>3. past \in P
  BY <1>1, <1>2, Grows DEF Grown
<1>. QED
  BY <1>3 DEF P

-----------------------------------------------------------------------------
(* The invariant, and its steps.                                           *)

Remembered(past, now, tail) ==
  /\ said = Append(past, now)
  /\ history = Opening \o tail
  /\ Recalls(setting, Relays(past), Lines(setting.protocol, tail))
  /\ Prompted => prompt = Lead(setting) \o Lines(setting.protocol, tail)
  /\ Tells(setting, reply, Relayed(now))
  /\ phase = "client" => (told = "tool_calls" <=> (setting.stream /\ CallsOf(now) # <<>>))

Inv ==
  /\ setting \in Settings
  /\ phase \in {"client", "model", "over"}
  /\ said = <<>> => history = <<>> /\ phase = "client" /\ told = "none"
  /\ said # <<>> => \E past \in Seq(Answer), now \in Answer, tail \in Seq(ChatMessage) :
                      Remembered(past, now, tail)

LEMMA Ends ==
  ASSUME NEW X, NEW s \in Seq(X), NEW x \in X, NEW y \in X
  PROVE  /\ Append(s, x) \in Seq(X) /\ Append(s, x) # <<>>
         /\ Len(s) \in Nat /\ Len(Append(s, x)) = Len(s) + 1
         /\ Front(Append(s, x)) = s /\ Last(Append(s, x)) = x
         /\ [Append(s, x) EXCEPT ![Len(Append(s, x))] = y] = Append(s, y)
<1>. DEFINE t == Append(s, x)
            u == Append(s, y)
            n == Len(s)
<1>1. /\ t \in Seq(X) /\ n \in Nat /\ Len(t) = n + 1
      /\ t[n + 1] = x /\ \A i \in 1 .. n : t[i] = s[i]
  BY AppendFacts
<1>2. /\ u \in Seq(X) /\ Len(u) = n + 1
      /\ u[n + 1] = y /\ \A i \in 1 .. n : u[i] = s[i]
  BY AppendFacts
<1>3. s = SubSeq(t, 1, n)
  BY <1>1
<1>. HIDE DEF t, u, n
<1>4. t # <<>>
  BY <1>1
<1>5. Front(t) = s /\ Last(t) = x
  <2>1. Len(t) - 1 = n
    BY <1>1
  <2>. QED
    BY <1>1, <1>3, <2>1 DEF Front, Last
<1>6. [t EXCEPT ![Len(t)] = y] = u
  <2>. DEFINE v == [t EXCEPT ![Len(t)] = y]
  <2>1. /\ v \in Seq(X) /\ Len(v) = n + 1 /\ v[n + 1] = y
        /\ \A i \in 1 .. n : v[i] = t[i]
    BY <1>1
  <2>. HIDE DEF v
  <2>2. \A i \in 1 .. n + 1 : v[i] = u[i]
    <3>. TAKE i \in 1 .. n + 1
    <3>1. CASE i \in 1 .. n
      BY <1>1, <1>2, <2>1, <3>1
    <3>2. CASE i = n + 1
      BY <1>2, <2>1, <3>2
    <3>. QED
      BY <1>1, <3>1, <3>2
  <2>3. v = u
    BY <1>2, <2>1, <2>2, SeqEqual
  <2>. QED
    BY <2>3 DEF v
<1>. QED
  BY <1>1, <1>4, <1>5, <1>6 DEF t, u, n

Regroups(o, s, t, u) == ((o \o s) \o t) \o u = o \o ((s \o t) \o u)

LEMMA Regrouped ==
  ASSUME NEW X, NEW o \in Seq(X), NEW s \in Seq(X), NEW t \in Seq(X), NEW u \in Seq(X)
  PROVE  Regroups(o, s, t, u)
<1>1. (o \o s) \o t = o \o (s \o t)
  BY ONLY o \in Seq(X), s \in Seq(X), t \in Seq(X)
<1>. DEFINE st == s \o t
<1>2. st \in Seq(X)
  BY Joined
<1>. HIDE DEF st
<1>3. (o \o st) \o u = o \o (st \o u)
  BY ONLY o \in Seq(X), <1>2, u \in Seq(X)
<1>. QED
  BY <1>1, <1>3 DEF st, Regroups

LEMMA History ==
  ASSUME NEW s \in Seq(ChatMessage), NEW t \in Seq(ChatMessage), NEW u \in Seq(ChatMessage)
  PROVE  /\ ((Opening \o s) \o t) \o u = Opening \o ((s \o t) \o u)
         /\ (<<>> \o Opening) \o t = Opening \o t
<1>. DEFINE m == Message(setting.system, <<Block("text", System)>>, <<>>)
            l == Message("system", <<Block("text", System)>>, <<>>)
            M == ChatMessage \cup {m, l}
            o == Opening
<1>1. o \in Seq(M)
  <2>1. Question(0) \in M
    BY QuestionIs
  <2>2. Opening = <<m>> \/ Opening = <<>> \/ Opening = <<Question(0)>> \o <<l>>
    BY DEF Opening
  <2>3. m \in M /\ l \in M
    OBVIOUS
  <2>. HIDE DEF m, l, M
  <2>4. <<m>> \in Seq(M) /\ <<>> \in Seq(M) /\ <<Question(0)>> \o <<l>> \in Seq(M)
    BY <2>1, <2>3
  <2>. QED
    BY <2>2, <2>4
<1>. HIDE DEF M, o
<1>2. s \in Seq(M) /\ t \in Seq(M) /\ u \in Seq(M)
  <2>1. ChatMessage \subseteq M
    BY DEF M
  <2>. QED
    BY <2>1, Wider
<1>3. ((o \o s) \o t) \o u = o \o ((s \o t) \o u)
  <2>1. Regroups(o, s, t, u)
    BY ONLY <1>1, <1>2, Regrouped
  <2>. QED
    BY ONLY <2>1 DEF Regroups
<1>4. <<>> \o o = o
  BY <1>1, Joined
<1>. QED
  BY <1>3, <1>4 DEF o

\* The next request: prompt and history are those of the messages behind the opening.
LEMMA Asked ==
  ASSUME Inv, Ask, NEW more \in Seq(ChatMessage), history' = Opening \o more,
         said \in Seq(Answer), Recalls(setting, Relays(said), Lines(setting.protocol, more))
  PROVE  Inv'
<1>1. said' = Append(said, <<>>) /\ reply' = NoReply /\ setting' = setting /\ told' = told
      /\ prompt' = Prepare(history') /\ phase' \in {"model", "over"}
  BY DEF Ask
<1>2. <<>> \in Answer
  BY DEF Answer
<1>3. prompt' = Lead(setting) \o Lines(setting.protocol, more)
  BY <1>1, PrepareIs DEF Inv
<1>4. Tells(setting, NoReply, Relayed(<<>>))
  BY NoReplyTells, RelayedNothing
<1>5. said' # <<>>
  <2>. DEFINE a == <<>>
  <2>. HIDE DEF a
  <2>1. a \in Answer
    BY <1>2 DEF a
  <2>2. Append(said, a) # <<>>
    BY <2>1, Ends DEF a
  <2>. QED
    BY <1>1, <2>2 DEF a
<1>6. Opening' = Opening
  BY <1>1 DEF Opening
<1>7. phase' # "client"
  BY <1>1
<1>. PICK past \in Seq(Answer), now \in Answer : past = said /\ now = <<>>
  BY <1>2
<1>8. Remembered(past, now, more)'
  <2>1. said' = Append(past, now) /\ Recalls(setting', Relays(past)', Lines(setting'.protocol, more))
    <3>1. Relays(past)' = Relays(past)
      BY <1>1 DEF Relays, Relayed
    <3>. QED
      BY <1>1, <3>1
  <2>2. history' = Opening' \o more /\ Tells(setting', reply', Relayed(now)')
    <3>1. Relayed(now)' = Relayed(now)
      BY <1>1 DEF Relayed
    <3>. QED
      BY <1>1, <1>4, <1>6, <3>1
  <2>3. prompt' = Lead(setting') \o Lines(setting'.protocol, more)
    BY <1>1, <1>3
  <2>. QED
    BY <1>7, <2>1, <2>2, <2>3 DEF Remembered
<1>9. setting' \in Settings /\ phase' \in {"client", "model", "over"}
  BY <1>1 DEF Inv
<1>10. \E p \in Seq(Answer), n \in Answer, t \in Seq(ChatMessage) : Remembered(p, n, t)'
  BY <1>8
<1>. QED
  BY <1>5, <1>9, <1>10 DEF Inv

LEMMA FirstAsk ==
  ASSUME Inv, Ask, said = <<>>
  PROVE  Inv'
<1>. DEFINE more == <<Question(1)>>
<1>1. history = <<>> /\ told = "none"
  BY DEF Inv
<1>2. Adds(setting.protocol, more, <<>>)
  BY QuestionAdds
<1>3. more \in Seq(ChatMessage)
  BY <1>2 DEF Adds
<1>4. history' = (<<>> \o Opening) \o more
  <2>1. Len(said) + 1 = 1
    OBVIOUS
  <2>. QED
    BY <1>1, <2>1 DEF Ask
<1>. HIDE DEF more
<1>5. history' = Opening \o more
  BY <1>3, <1>4, History
<1>6. Recalls(setting, Relays(said), Lines(setting.protocol, more))
  <2>1. Relays(said) = <<>>
    BY DEF Relays
  <2>. QED
    BY <1>2, <2>1, RecallsNothing
<1>7. said \in Seq(Answer)
  OBVIOUS
<1>. QED
  BY <1>3, <1>5, <1>6, <1>7, Asked

\* What a client brings back: the results of the calls it was told of.
LEMMA NewsAdd ==
  ASSUME setting \in Settings, phase = "client", NEW past \in Seq(Answer), NEW now \in Answer,
         Tells(setting, reply, now),
         told = "tool_calls" <=> (setting.stream /\ CallsOf(now) # <<>>),
         NEW turn \in Nat
  PROVE  LET news == IF told = "tool_calls" THEN Answers(Given) ELSE <<Question(turn)>>
         IN  \E results \in Seq(Saying(Whats)) :
               /\ Adds(setting.protocol, news, results)
               /\ setting.stream /\ Apart(setting, Append(past, now)) =>
                    NamesOf(results) = NamesOf(CallsOf(now))
<1>0. setting.protocol \in {"openai", "anthropic"}
  BY DEF Settings
<1>1. CASE told # "tool_calls"
  <2>1. Adds(setting.protocol, <<Question(turn)>>, <<>>)
    BY QuestionAdds
  <2>2. setting.stream => CallsOf(now) = <<>>
    BY <1>1
  <2>3. <<>> \in Seq(Saying(Whats))
    OBVIOUS
  <2>. QED
    BY <1>1, <2>1, <2>2, <2>3
<1>2. CASE told = "tool_calls"
  <2>1. setting.stream
    BY <1>2
  <2>2. Given \in Seq(Saying({"call"}))
        /\ (Apart(setting, Append(past, now)) => Given = CallsOf(now))
    <3>1. CASE setting.protocol = "openai"
      <4>1. Given = reply.calls /\ reply.calls \in Seq(Saying({"call"}))
        BY <3>1 DEF Given, Tells
      <4>2. ASSUME Apart(setting, Append(past, now)) PROVE Given = CallsOf(now)
        <5>1. Len(CallsOf(now)) <= 1
          BY <3>1, <4>2, ApartFewer
        <5>. QED
          BY <2>1, <3>1, <4>1, <5>1 DEF Tells
      <4>. QED
        BY <4>1, <4>2
    <3>2. CASE setting.protocol = "anthropic"
      <4>1. Given = Speech({"tool_use"}, reply.blocks)
        BY <3>2 DEF Given, Speech
      <4>2. Given = CallsOf(now)
        BY <2>1, <3>2, <4>1 DEF Tells
      <4>. QED
        BY <4>2, CallsType
    <3>. QED
      BY <1>0, <3>1, <3>2
  <2>. DEFINE rs == Results(Given)
  <2>3. Adds(setting.protocol, Answers(Given), rs)
    BY <2>2, AnswersAdd
  <2>4. rs \in Seq(Saying({"result"})) /\ NamesOf(rs) = NamesOf(Given)
    BY <2>2, ResultsFacts
  <2>5. rs \in Seq(Saying(Whats))
    <3>1. Saying({"result"}) \subseteq Saying(Whats)
      BY SayingFacts DEF Whats
    <3>. HIDE DEF rs
    <3>. QED
      BY <2>4, <3>1, Wider
  <2>. HIDE DEF rs
  <2>. QED
    BY <1>2, <2>2, <2>3, <2>4, <2>5
<1>. QED
  BY <1>1, <1>2

LEMMA LaterAsk ==
  ASSUME Inv, Ask, said # <<>>
  PROVE  Inv'
<1>1. PICK past \in Seq(Answer), now \in Answer, tail \in Seq(ChatMessage) : Remembered(past, now, tail)
  BY DEF Inv
<1>2. phase = "client" /\ setting \in Settings
  BY DEF Ask, Inv
<1>3. /\ said = Append(past, now) /\ history = Opening \o tail
      /\ Recalls(setting, Relays(past), Lines(setting.protocol, tail))
      /\ Tells(setting, reply, Relayed(now))
      /\ (told = "tool_calls" <=> (setting.stream /\ CallsOf(now) # <<>>))
  BY <1>1, <1>2 DEF Remembered
<1>. DEFINE was == Relays(past)
            is == Relayed(now)
<1>10. /\ was \in Seq(Answer) /\ is \in Answer /\ CallsOf(is) = CallsOf(now)
       /\ Relays(said) = Append(was, is)
  BY <1>3, RelaysFacts, RelayedFacts
<1>. HIDE DEF was, is
<1>11. /\ Recalls(setting, was, Lines(setting.protocol, tail)) /\ Tells(setting, reply, is)
       /\ (told = "tool_calls" <=> (setting.stream /\ CallsOf(is) # <<>>))
  BY <1>3, <1>10 DEF was, is
<1>4. said \in Seq(Answer) /\ Len(said) + 1 \in Nat
  <2>1. said \in Seq(Answer)
    BY <1>3, Ends
  <2>. QED
    BY <2>1
<1>. DEFINE m == Message("assistant", reply.blocks, reply.calls)
            one == <<m>>
            news == IF told = "tool_calls" THEN Answers(Given) ELSE <<Question(Len(said) + 1)>>
            more == (tail \o one) \o news
<1>5. PICK results \in Seq(Saying(Whats)) :
        /\ Adds(setting.protocol, news, results)
        /\ setting.stream /\ Apart(setting, Append(was, is)) =>
             NamesOf(results) = NamesOf(CallsOf(is))
  <2>. DEFINE turn == Len(said) + 1
  <2>1. turn \in Nat
    BY <1>4
  <2>. HIDE DEF turn
  <2>2. LET ns == IF told = "tool_calls" THEN Answers(Given) ELSE <<Question(turn)>>
        IN  \E results \in Seq(Saying(Whats)) :
               /\ Adds(setting.protocol, ns, results)
               /\ setting.stream /\ Apart(setting, Append(was, is)) =>
                    NamesOf(results) = NamesOf(CallsOf(is))
    BY <1>2, <1>10, <1>11, <2>1, NewsAdd
  <2>. QED
    BY <2>2 DEF turn
<1>6. history' = (history \o one) \o news
  BY DEF Ask
<1>7. /\ m \in ChatMessage /\ m.role = "assistant"
      /\ Fits(setting, Content(setting.protocol, m), is)
      /\ Of(Content(setting.protocol, m), Saying({"result"})) = <<>>
  BY <1>10, <1>11, AnswerLine
<1>. HIDE DEF m, news
<1>8. more \in Seq(ChatMessage) /\ Recalls(setting, Append(was, is), Lines(setting.protocol, more))
  BY <1>5, <1>7, <1>10, <1>11, RecallsMore
<1>9. history' = Opening \o more
  <2>1. one \in Seq(ChatMessage) /\ news \in Seq(ChatMessage)
    BY <1>5, <1>7 DEF Adds
  <2>. HIDE DEF one
  <2>2. ((Opening \o tail) \o one) \o news = Opening \o ((tail \o one) \o news)
    BY <2>1, History
  <2>. QED
    BY <1>3, <1>6, <2>2
<1>. HIDE DEF more
<1>. QED
  BY <1>4, <1>8, <1>9, <1>10, Asked

LEMMA SayStep ==
  ASSUME Inv, NEW what \in Spoken, Say(what)
  PROVE  Inv'
<1>1. phase = "model" /\ said # <<>> /\ setting \in Settings
  BY DEF Say, Inv
<1>2. PICK past \in Seq(Answer), now \in Answer, tail \in Seq(ChatMessage) : Remembered(past, now, tail)
  BY <1>1 DEF Inv
<1>3. /\ said = Append(past, now) /\ history = Opening \o tail
      /\ Recalls(setting, Relays(past), Lines(setting.protocol, tail))
      /\ prompt = Lead(setting) \o Lines(setting.protocol, tail)
      /\ Tells(setting, reply, Relayed(now))
  BY <1>1, <1>2 DEF Remembered, Prompted
<1>4. said \in Seq(Answer) /\ Len(said) \in Nat /\ Last(said) = now
      /\ \A a \in Answer : [said EXCEPT ![Len(said)] = a] = Append(past, a)
                           /\ Append(past, a) # <<>>
  <2>1. \A a \in Answer : /\ Append(past, now) \in Seq(Answer)
                          /\ Last(Append(past, now)) = now
                          /\ [Append(past, now) EXCEPT ![Len(Append(past, now))] = a] = Append(past, a)
                          /\ Append(past, a) # <<>>
    <3>. TAKE a \in Answer
    <3>1. /\ Append(past, now) \in Seq(Answer) /\ Last(Append(past, now)) = now
          /\ [Append(past, now) EXCEPT ![Len(Append(past, now))] = a] = Append(past, a)
      BY Ends
    <3>2. Append(past, a) # <<>>
      BY Ends
    <3>. QED
      BY <3>1, <3>2
  <2>2. said \in Seq(Answer)
    BY <1>3, <2>1
  <2>. QED
    BY <1>3, <2>1, <2>2
<1>. DEFINE text == Text(what, <<<<Len(said), Len(Last(said)) + 1>>>>)
            more == Append(now, text)
<1>5. text \in Saying(Spoken)
  <2>1. Len(Last(said)) + 1 \in Nat
    BY <1>4 DEF Answer
  <2>. DEFINE names == <<<<Len(said), Len(Last(said)) + 1>>>>
  <2>2. names \in Seq(Nat \X Nat)
    BY <1>4, <2>1
  <2>. HIDE DEF names
  <2>3. Text(what, names) \in Saying(Spoken)
    BY <2>2, SayingFacts
  <2>. QED
    BY <2>3 DEF names
<1>6. said' = [said EXCEPT ![Len(said)] = Append(@, text)] /\ reply' = Hears(reply, text)
      /\ setting' = setting /\ history' = history /\ prompt' = prompt /\ phase' = phase
  BY DEF Say
<1>. HIDE DEF text
<1>7. more \in Answer
  BY <1>5 DEF Answer
<1>8. said' = Append(past, more)
  <2>1. said[Len(said)] = now
    BY <1>4 DEF Last
  <2>2. said' = [said EXCEPT ![Len(said)] = more]
    BY <1>6, <2>1
  <2>. HIDE DEF more
  <2>. QED
    BY <1>4, <1>7, <2>2
<1>9. Tells(setting, Hears(reply, text), Relayed(more))
  BY <1>1, <1>3, <1>5, Heard
<1>. HIDE DEF more
<1>10. Opening' = Opening
  BY <1>6 DEF Opening
<1>. PICK next \in Answer : next = more
  BY <1>7
<1>11. Remembered(past, next, tail)'
  <2>1. said' = Append(past, next) /\ Tells(setting', reply', Relayed(next)')
    <3>1. Relayed(next)' = Relayed(next)
      BY <1>6 DEF Relayed
    <3>. QED
      BY <1>6, <1>8, <1>9, <3>1
  <2>2. phase' # "client"
    BY <1>1, <1>6
  <2>3. /\ history' = Opening' \o tail
        /\ Recalls(setting', Relays(past)', Lines(setting'.protocol, tail))
        /\ prompt' = Lead(setting') \o Lines(setting'.protocol, tail)
    <3>1. Relays(past)' = Relays(past)
      BY <1>6 DEF Relays, Relayed
    <3>. QED
      BY <1>3, <1>6, <1>10, <3>1
  <2>. QED
    BY <2>1, <2>2, <2>3 DEF Remembered
<1>12. \E p \in Seq(Answer), n \in Answer, t \in Seq(ChatMessage) : Remembered(p, n, t)'
  BY <1>11
<1>13. said' # <<>>
  BY <1>4, <1>7, <1>8
<1>. QED
  BY <1>1, <1>6, <1>12, <1>13 DEF Inv

LEMMA EndStep ==
  ASSUME Inv, NEW upstream \in {"stop", "length"}, End(upstream)
  PROVE  Inv'
<1>1. phase = "model" /\ said # <<>> /\ setting \in Settings
  BY DEF End, Inv
<1>2. PICK past \in Seq(Answer), now \in Answer, tail \in Seq(ChatMessage) : Remembered(past, now, tail)
  BY <1>1 DEF Inv
<1>3. /\ told' = Reason(upstream) /\ phase' = "client"
      /\ setting' = setting /\ history' = history /\ prompt' = prompt /\ said' = said /\ reply' = reply
  BY DEF End
<1>4. Last(said) = now
  BY <1>2, Ends DEF Remembered
<1>5. told' = "tool_calls" <=> (setting.stream /\ CallsOf(now) # <<>>)
  BY <1>3, <1>4 DEF Reason
<1>6. Opening' = Opening
  BY <1>3 DEF Opening
<1>7. Remembered(past, now, tail)'
  <2>1. Relays(past)' = Relays(past) /\ Relayed(now)' = Relayed(now)
    BY <1>3 DEF Relays, Relayed
  <2>. QED
    BY <1>2, <1>3, <1>5, <1>6, <2>1 DEF Remembered, Prompted
<1>. QED
  BY <1>1, <1>3, <1>7 DEF Inv

\* A conversation is kept together by Inv.
LEMMA Kept == Spec => []Inv
<1>1. Init => Inv
  BY DEF Init, Inv
<1>2. Inv /\ [Next]_vars => Inv'
  <2>. SUFFICES ASSUME Inv, [Next]_vars PROVE Inv'
    OBVIOUS
  <2>1. CASE Ask
    BY <2>1, FirstAsk, LaterAsk
  <2>2. CASE \E what \in Spoken : Say(what)
    BY <2>2, SayStep
  <2>3. CASE \E upstream \in {"stop", "length"} : End(upstream)
    BY <2>3, EndStep
  <2>4. CASE UNCHANGED vars
    <3>1. /\ setting' = setting /\ history' = history /\ prompt' = prompt /\ said' = said
          /\ reply' = reply /\ told' = told /\ phase' = phase
      BY <2>4 DEF vars
    <3>2. Opening' = Opening
      BY <3>1 DEF Opening
    <3>3. ASSUME NEW past, NEW now, NEW tail, Remembered(past, now, tail)
          PROVE  Remembered(past, now, tail)'
      <4>1. Relays(past)' = Relays(past) /\ Relayed(now)' = Relayed(now)
        BY <3>1 DEF Relays, Relayed
      <4>. QED
        BY <3>1, <3>2, <3>3, <4>1 DEF Remembered, Prompted
    <3>4. said # <<>> => \E past \in Seq(Answer), now \in Answer, tail \in Seq(ChatMessage) :
                           Remembered(past, now, tail)'
      BY <3>3 DEF Inv
    <3>. QED
      BY <3>1, <3>4 DEF Inv
  <2>. QED
    BY <2>1, <2>2, <2>3, <2>4 DEF Next
<1>. QED
  BY <1>1, <1>2, PTL DEF Spec

-----------------------------------------------------------------------------
(* The theorems.                                                           *)

\* When there is a prompt: what it is made of, and what it shows.
LEMMA PromptOf ==
  ASSUME Inv, Prompted
  PROVE  \E past \in Seq(Answer), lines \in Seq(ChatEntry) :
           /\ prompt = Lead(setting) \o lines
           /\ Earlier = past /\ Shown = Own(lines)
           /\ Recalls(setting, Relays(past), lines)
           /\ CallsApart => Apart(setting, Relays(past))
<1>1. phase # "client" /\ said # <<>> /\ setting \in Settings
  BY DEF Prompted, Inv
<1>2. PICK past \in Seq(Answer), now \in Answer, tail \in Seq(ChatMessage) : Remembered(past, now, tail)
  BY <1>1 DEF Inv
<1>. DEFINE lines == Lines(setting.protocol, tail)
<1>3. /\ said = Append(past, now) /\ prompt = Lead(setting) \o lines
      /\ Recalls(setting, Relays(past), lines) /\ lines \in Seq(ChatEntry)
  BY <1>2, LinesFacts DEF Remembered
<1>. HIDE DEF lines
<1>4. Earlier = past
  BY <1>3, Ends DEF Earlier
<1>5. Shown = Own(lines)
  <2>1. Shown = Own(prompt)
    BY DEF Shown, Own
  <2>. QED
    BY <1>1, <1>3, <2>1, PromptShows
<1>6. ASSUME CallsApart PROVE Apart(setting, Relays(past))
  <2>1. CASE setting.protocol = "anthropic"
    BY <2>1 DEF Apart
  <2>2. CASE setting.protocol # "anthropic"
    <3>1. \A i \in DOMAIN said : Len(CallsOf(said[i])) <= 1
      BY <1>6, <2>2 DEF CallsApart
    <3>2. \A i \in 1 .. Len(past) : i \in DOMAIN said /\ said[i] = past[i] /\ past[i] \in Answer
      BY <1>3
    <3>3. \A i \in 1 .. Len(past) : CallsOf(Relays(past)[i]) = CallsOf(past[i])
      BY <3>2, RelaysFacts, RelayedFacts
    <3>. QED
      BY <3>1, <3>2, <3>3, RelaysFacts DEF Apart
  <2>. QED
    BY <2>1, <2>2
<1>. QED
  BY <1>3, <1>4, <1>5, <1>6

\* Whatever a client and its protocol are, and however many answers there were: every
\* later prompt shows the model each of its answers as it was relayed, a whole answer as
\* it was written, a stream without the marks of thinking and without what did not parse,
\* with the parts of an OpenAI stream in the order of its message, and nothing else lost.
THEOREM WordsAreRemembered == Spec => []RemembersItsWords
<1>1. Inv => RemembersItsWords
  <2>. SUFFICES ASSUME Inv, Prompted
                PROVE  /\ Len(Shown) = Len(Earlier)
                       /\ \A i \in DOMAIN Earlier :
                            IF setting.protocol = "openai" /\ setting.stream
                            THEN /\ NotCalls(Shown[i]) = NotCalls(Relayed(Earlier[i]))
                                 /\ CallsApart => CallsOf(Shown[i]) = CallsOf(Earlier[i])
                            ELSE Shown[i] = Relayed(Earlier[i])
    BY DEF RemembersItsWords
  <2>1. PICK past \in Seq(Answer), lines \in Seq(ChatEntry) :
          /\ Earlier = past /\ Shown = Own(lines) /\ Recalls(setting, Relays(past), lines)
          /\ CallsApart => Apart(setting, Relays(past))
    BY PromptOf
  <2>2. /\ Len(Relays(past)) = Len(past)
        /\ \A i \in 1 .. Len(past) : /\ Relays(past)[i] = Relayed(past[i])
                                     /\ CallsOf(Relayed(past[i])) = CallsOf(past[i])
    <3>1. \A i \in 1 .. Len(past) : past[i] \in Answer
      OBVIOUS
    <3>. QED
      BY <3>1, RelaysFacts, RelayedFacts
  <2>3. /\ Len(Own(lines)) = Len(past)
        /\ \A i \in 1 .. Len(past) : Fits(setting, Own(lines)[i], Relayed(past[i]))
    BY <2>1, <2>2 DEF Recalls
  <2>4. ASSUME NEW i \in 1 .. Len(past)
        PROVE  IF setting.protocol = "openai" /\ setting.stream
               THEN /\ NotCalls(Own(lines)[i]) = NotCalls(Relayed(past[i]))
                    /\ CallsApart => CallsOf(Own(lines)[i]) = CallsOf(past[i])
               ELSE Own(lines)[i] = Relayed(past[i])
    <3>1. Fits(setting, Own(lines)[i], Relayed(past[i])) /\ CallsOf(Relayed(past[i])) = CallsOf(past[i])
      BY <2>2, <2>3
    <3>2. CallsApart /\ setting.protocol = "openai" => Len(CallsOf(past[i])) <= 1
      BY <2>1, <2>2 DEF Apart
    <3>. QED
      BY <3>1, <3>2 DEF Fits
  <2>5. DOMAIN past = 1 .. Len(past)
    OBVIOUS
  <2>. QED
    BY <2>1, <2>3, <2>4, <2>5
<1>. QED
  BY <1>1, Kept, PTL

\* In every prompt of a stream that kept its calls apart, the results come in the order
\* of the calls of all answers before it, one for each.
THEOREM CallsAreAnswered == Spec => []CallsAnswered
<1>1. Inv => CallsAnswered
  <2>. SUFFICES ASSUME Inv, Prompted, setting.stream, CallsApart
                PROVE  NamesOf(Of(All(prompt), Saying({"result"})))
                         = NamesOf(CallsOf(FlattenSeq(Earlier)))
    BY DEF CallsAnswered, NamesOf
  <2>1. PICK past \in Seq(Answer), lines \in Seq(ChatEntry) :
          /\ prompt = Lead(setting) \o lines /\ Earlier = past
          /\ Recalls(setting, Relays(past), lines) /\ Apart(setting, Relays(past))
    BY PromptOf
  <2>2. NamesOf(Of(All(lines), Saying({"result"}))) = NamesOf(CallsOf(FlattenSeq(past)))
    <3>1. NamesOf(Of(All(lines), Saying({"result"}))) = NamesOf(CallsOf(FlattenSeq(Relays(past))))
      BY <2>1 DEF Recalls
    <3>. QED
      BY <3>1, RelaysCalls
  <2>3. Of(All(Lead(setting) \o lines), Saying({"result"})) = Of(All(lines), Saying({"result"}))
    BY PromptShows DEF Inv
  <2>. QED
    BY <2>1, <2>2, <2>3
<1>. QED
  BY <1>1, Kept, PTL

\* Tools come once into a prompt, in its first system message, however long the
\* conversation is and wherever the client has its system text; without tools nothing
\* announces any.
THEOREM ToolsAreAnnounced == Spec => []ToolsAnnounced
<1>1. Inv => ToolsAnnounced
  <2>. SUFFICES ASSUME Inv, Prompted
                PROVE  /\ Len(Of(All(prompt), {Tools})) = IF setting.tools = "some" THEN 1 ELSE 0
                       /\ setting.tools = "some" => Announces(prompt)
    BY DEF ToolsAnnounced, Announces
  <2>1. PICK past \in Seq(Answer), lines \in Seq(ChatEntry) : prompt = Lead(setting) \o lines
    BY PromptOf
  <2>2. /\ Len(Of(All(Lead(setting) \o lines), {Tools})) = IF setting.tools = "some" THEN 1 ELSE 0
        /\ setting.tools = "some" => Announces(Lead(setting) \o lines)
    BY PromptShows DEF Inv
  <2>. QED
    BY <2>1, <2>2
<1>. QED
  BY <1>1, Kept, PTL

=============================================================================
