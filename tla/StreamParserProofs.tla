-------------------------- MODULE StreamParserProofs --------------------------
(***************************************************************************)
(* However a response is cut into tokens, the parser makes of it what its  *)
(* markup says: proved for responses of any length and any lookahead.      *)
(*                                                                         *)
(* Read is the meaning of the markup symbol by symbol, where a tag counts  *)
(* when its second half is read.  Between two steps the parser has done    *)
(* what ReadOf says of the symbols that have left its lookahead.           *)
(***************************************************************************)
EXTENDS StreamParser, SequenceTheorems, WellFoundedInduction, TLAPS

-----------------------------------------------------------------------------
(* Numbers and sequences.                                                  *)

LEMMA LeastOf ==
  ASSUME NEW S \in SUBSET Nat, S # {}
  PROVE  \E m \in S : \A t \in S : m <= t
<1>1. PICK m \in S : \A t \in S : <<t, m>> \notin OpToRel(<, Nat)
  BY NatLessThanWellFounded, WFMin
<1>2. \A t \in S : t \in Nat /\ m \in Nat /\ ~(t < m)
  BY <1>1 DEF OpToRel
<1> QED BY <1>2

\* Induction up to n, over a set.
LEMMA Climbs ==
  ASSUME NEW n \in Nat, NEW S, 0 \in S, \A k \in 1 .. n : k - 1 \in S => k \in S
  PROVE  \A k \in 0 .. n : k \in S
<1> DEFINE B == {k \in 0 .. n : k \notin S}
<1> SUFFICES ASSUME B # {} PROVE FALSE
  OBVIOUS
<1>1. PICK m \in B : \A t \in B : m <= t
  <2>1. B \in SUBSET Nat
    OBVIOUS
  <2> HIDE DEF B
  <2> QED BY <2>1, LeastOf
<1>2. m \in 1 .. n /\ m - 1 \in 0 .. n /\ ~(m <= m - 1)
  OBVIOUS
<1>3. m - 1 \in S
  BY <1>1, <1>2
<1> QED BY <1>1, <1>2, <1>3

Begins(s, t) == Len(s) <= Len(t) /\ \A i \in 1 .. Len(s) : s[i] = t[i]

LEMMA BeginsIsPrefix ==
  ASSUME NEW S, NEW s \in Seq(S), NEW t \in Seq(S), Begins(s, t)
  PROVE  IsPrefix(s, t)
<1>1. Len(s) \in Nat /\ Len(t) \in Nat /\ Len(s) <= Len(t)
  BY DEF Begins
<1>2. \A i \in 1 .. Len(s) : i \in 1 .. Len(t) /\ s[i] = t[i]
  BY <1>1 DEF Begins
<1>3. SubSeq(s, 1, Len(s)) = SubSeq(t, 1, Len(s))
  BY <1>1, <1>2
<1> QED BY <1>1, <1>3 DEF IsPrefix

LEMMA SliceOf ==
  ASSUME NEW S, NEW s \in Seq(S), NEW a \in Nat, NEW b \in Nat, 1 <= a, b <= Len(s)
  PROVE  /\ SubSeq(s, a, b) \in Seq(S)
         /\ Len(SubSeq(s, a, b)) = (IF a <= b THEN b - a + 1 ELSE 0)
         /\ \A i \in 1 .. b - a + 1 : SubSeq(s, a, b)[i] = s[a + i - 1]
<1>1. \A i \in a .. b : i \in 1 .. Len(s)
  OBVIOUS
<1>2. a \in Int /\ b \in Int /\ \A i \in a .. b : s[i] \in S
  BY <1>1
<1> QED BY ONLY <1>2, SubSeqProperties

Joins(s, a, b, c) == SubSeq(s, a, b) \o SubSeq(s, b + 1, c) = SubSeq(s, a, c)

LEMMA SlicesJoin ==
  ASSUME NEW S, NEW s \in Seq(S), NEW a \in Nat, NEW b \in Nat, NEW c \in Nat,
         1 <= a, a <= b + 1, b <= c, c <= Len(s)
  PROVE  Joins(s, a, b, c)
<1>1. a \in 1 .. Len(s) + 1 /\ b \in a - 1 .. Len(s) /\ c \in b .. Len(s)
  OBVIOUS
<1>2. SubSeq(s, a, b) \o SubSeq(s, b + 1, c) = SubSeq(s, a, c)
  BY ONLY <1>1, s \in Seq(S), ConcatAdjacentSubSeq
<1> QED BY ONLY <1>2 DEF Joins

-----------------------------------------------------------------------------
(* Symbols, words and tags.                                                *)

Symbols == {"x", "name", "<th", "ink>", "</th", "/ink>", "<ca", "ll>", "</ca", "/ll>"}
Tags    == {"think", "unthink", "call", "uncall"}
AllWords == {"x", "name"} \cup Tags

LEMMA SpellOf ==
  /\ Spell["x"] = <<"x">> /\ Spell["name"] = <<"name">>
  /\ Spell["think"] = <<"<th", "ink>">> /\ Spell["unthink"] = <<"</th", "/ink>">>
  /\ Spell["call"] = <<"<ca", "ll>">> /\ Spell["uncall"] = <<"</ca", "/ll>">>
BY DEF Spell

LEMMA OneOf ==
  ASSUME NEW S, NEW a \in S
  PROVE  <<a>> \in Seq(S) /\ Len(<<a>>) = 1 /\ <<a>>[1] = a
OBVIOUS

LEMMA PairOf ==
  ASSUME NEW S, NEW a \in S, NEW b \in S
  PROVE  <<a, b>> \in Seq(S) /\ Len(<<a, b>>) = 2 /\ <<a, b>>[1] = a /\ <<a, b>>[2] = b
OBVIOUS

\* The halves of the tags.
LEMMA HalvesOf ==
  /\ Spell["think"][1] = "<th" /\ Spell["think"][2] = "ink>"
  /\ Spell["unthink"][1] = "</th" /\ Spell["unthink"][2] = "/ink>"
  /\ Spell["call"][1] = "<ca" /\ Spell["call"][2] = "ll>"
  /\ Spell["uncall"][1] = "</ca" /\ Spell["uncall"][2] = "/ll>"
BY SpellOf

LEMMA WordOf ==
  ASSUME NEW w \in AllWords
  PROVE  /\ Spell[w] \in Seq(Symbols)
         /\ (w \in Tags => /\ Len(Spell[w]) = 2
                           /\ Spell[w] = <<Spell[w][1], Spell[w][2]>>)
         /\ (w \notin Tags => Len(Spell[w]) = 1 /\ Spell[w] = <<w>> /\ Spell[w][1] = w)
<1>1. CASE w = "x"
  BY <1>1, SpellOf, OneOf DEF Symbols, Tags
<1>2. CASE w = "name"
  BY <1>2, SpellOf, OneOf DEF Symbols, Tags
<1>3. CASE w = "think"
  BY <1>3, SpellOf, PairOf DEF Symbols, Tags
<1>4. CASE w = "unthink"
  BY <1>4, SpellOf, PairOf DEF Symbols, Tags
<1>5. CASE w = "call"
  BY <1>5, SpellOf, PairOf DEF Symbols, Tags
<1>6. CASE w = "uncall"
  BY <1>6, SpellOf, PairOf DEF Symbols, Tags
<1> QED BY <1>1, <1>2, <1>3, <1>4, <1>5, <1>6 DEF AllWords, Tags

-----------------------------------------------------------------------------
(* Recursive functions: what they are defined to be exists.                *)

Follows(g, x, R, m) == g[0] = x /\ \A k \in 1 .. m : g[k] = R[k][g[k - 1]]

LEMMA RecursionExists ==
  ASSUME NEW A, NEW x \in A, NEW n \in Nat, NEW R \in [1 .. n -> [A -> A]]
  PROVE  \E g \in [0 .. n -> A] : Follows(g, x, R, n)
<1> DEFINE S == {m \in 0 .. n : \E g \in [0 .. m -> A] : Follows(g, x, R, m)}
<1>1. 0 \in S
  <2> DEFINE g == [k \in 0 .. 0 |-> x]
  <2>1. g \in [0 .. 0 -> A] /\ Follows(g, x, R, 0)
    BY DEF Follows
  <2> HIDE DEF g
  <2> QED BY <2>1
<1>2. ASSUME NEW m \in 1 .. n, m - 1 \in S PROVE m \in S
  <2>1. m \in Nat /\ m - 1 \in Nat /\ m \in 0 .. n /\ m - 1 \in 0 .. m - 1
    OBVIOUS
  <2>2. PICK g \in [0 .. m - 1 -> A] : Follows(g, x, R, m - 1)
    BY <1>2
  <2> DEFINE last == R[m][g[m - 1]]
             h == [k \in 0 .. m |-> IF k = m THEN last ELSE g[k]]
  <2>3. last \in A
    BY <2>1, <2>2
  <2>4. \A k \in 0 .. m : k # m => k \in 0 .. m - 1
    BY <2>1
  <2>5. h \in [0 .. m -> A]
    <3> HIDE DEF last
    <3> QED BY <2>2, <2>3, <2>4
  <2>6. h[m] = last /\ \A k \in 0 .. m - 1 : h[k] = g[k]
    <3>1. m \in 0 .. m /\ \A k \in 0 .. m - 1 : k \in 0 .. m /\ k # m
      BY <2>1
    <3> HIDE DEF last
    <3> QED BY <3>1
  <2> HIDE DEF h
  <2>7. h[0] = x
    BY <2>1, <2>2, <2>6 DEF Follows
  <2>8. ASSUME NEW k \in 1 .. m PROVE h[k] = R[k][h[k - 1]]
    <3>1. k - 1 \in 0 .. m - 1
      BY <2>1
    <3>2. h[k - 1] = g[k - 1]
      BY <2>6, <3>1
    <3>3. CASE k = m
      BY <2>6, <3>2, <3>3
    <3>4. CASE k # m
      <4>1. k \in 0 .. m - 1 /\ k \in 1 .. m - 1
        BY <2>1, <3>4
      <4> QED BY <2>2, <2>6, <3>2, <4>1 DEF Follows
    <3> QED BY <3>3, <3>4
  <2> QED BY <2>1, <2>5, <2>7, <2>8 DEF Follows
<1>3. S # {} /\ \A k \in 0 .. n : k \in S
  <2> HIDE DEF S
  <2> QED BY <1>1, <1>2, Climbs
<1>4. n \in S
  BY <1>3
<1> QED BY <1>4

-----------------------------------------------------------------------------
(* The symbols of a response.                                              *)

Worded == words \in Seq(AllWords)

WireFrom(g, ws, n) == g = [k \in 0 .. n |-> IF k = 0 THEN <<>> ELSE g[k - 1] \o Spell[ws[k]]]

LEMMA WireUnfold ==
  ASSUME Worded
  PROVE  /\ Len(words) \in Nat /\ \A k \in 1 .. Len(words) : words[k] \in AllWords
         /\ WireOf[0] = <<>>
         /\ \A k \in 1 .. Len(words) : WireOf[k] = WireOf[k - 1] \o Spell[words[k]]
<1> DEFINE n == Len(words)
           A == Seq(Symbols)
           R == [k \in 1 .. n |-> [s \in A |-> s \o Spell[words[k]]]]
<1>1. n \in Nat /\ \A k \in 1 .. n : words[k] \in AllWords
  BY DEF Worded
<1>2. \A k \in 1 .. n : Spell[words[k]] \in A
  BY <1>1, WordOf
<1>3. R \in [1 .. n -> [A -> A]]
  BY <1>2
<1>4. <<>> \in A
  OBVIOUS
<1> HIDE DEF A
<1>5. PICK g \in [0 .. n -> A] : Follows(g, <<>>, R, n)
  <2> HIDE DEF R, n
  <2> QED BY <1>1, <1>3, <1>4, RecursionExists
<1>6. ASSUME NEW k \in 0 .. n PROVE g[k] = IF k = 0 THEN <<>> ELSE g[k - 1] \o Spell[words[k]]
  <2>1. CASE k = 0
    BY <1>5, <2>1 DEF Follows
  <2>2. CASE k # 0
    <3>1. k \in 1 .. n /\ k - 1 \in 0 .. n
      BY <1>1, <2>2
    <3>2. g[k - 1] \in A
      BY <1>5, <3>1
    <3> QED BY <1>5, <2>2, <3>1, <3>2 DEF Follows
  <2> QED BY <2>1, <2>2
<1>7. WireFrom(g, words, n)
  BY <1>5, <1>6 DEF WireFrom
<1>8. WireOf = CHOOSE h : WireFrom(h, words, n)
  BY DEF WireOf, WireFrom, n
<1>9. WireFrom(WireOf, words, n)
  BY <1>7, <1>8
<1>10. \A f, h : h = [k \in 0 .. n |-> IF k = 0 THEN <<>> ELSE f[k - 1] \o Spell[words[k]]]
               => \A k \in 0 .. n : h[k] = IF k = 0 THEN <<>> ELSE f[k - 1] \o Spell[words[k]]
  OBVIOUS
<1>11. \A k \in 0 .. n : WireOf[k] = IF k = 0 THEN <<>> ELSE WireOf[k - 1] \o Spell[words[k]]
  BY <1>9, <1>10 DEF WireFrom
<1>12. 0 \in 0 .. n /\ \A k \in 1 .. n : k \in 0 .. n /\ k # 0
  BY <1>1
<1> QED BY <1>1, <1>11, <1>12 DEF n

LEMMA WireTyped ==
  ASSUME Worded
  PROVE  /\ \A k \in 0 .. Len(words) : WireOf[k] \in Seq(Symbols)
         /\ Wire \in Seq(Symbols) /\ Len(Wire) \in Nat
<1> DEFINE S == {k \in 0 .. Len(words) : WireOf[k] \in Seq(Symbols)}
<1>1. Len(words) \in Nat
  BY WireUnfold
<1>2. 0 \in S
  <2>1. <<>> \in Seq(Symbols)
    OBVIOUS
  <2>2. WireOf[0] \in Seq(Symbols)
    BY <2>1, WireUnfold, Zenon
  <2>3. 0 \in 0 .. Len(words)
    BY <1>1
  <2> QED BY <2>2, <2>3
<1>3. ASSUME NEW k \in 1 .. Len(words), k - 1 \in S PROVE k \in S
  <2>1. WireOf[k - 1] \in Seq(Symbols) /\ Spell[words[k]] \in Seq(Symbols)
    BY <1>3, WireUnfold, WordOf
  <2>2. WireOf[k] = WireOf[k - 1] \o Spell[words[k]]
    BY WireUnfold
  <2>3. WireOf[k - 1] \o Spell[words[k]] \in Seq(Symbols)
    BY <2>1
  <2>4. WireOf[k] \in Seq(Symbols)
    BY <2>2, <2>3, Zenon
  <2>5. k \in 0 .. Len(words)
    BY <1>1
  <2> QED BY <2>4, <2>5
<1>4. \A k \in 0 .. Len(words) : k \in S
  <2> HIDE DEF S
  <2> QED BY <1>1, <1>2, <1>3, Climbs
<1>5. Len(words) \in 0 .. Len(words)
  BY <1>1
<1>6. Wire \in Seq(Symbols)
  BY <1>4, <1>5 DEF Wire
<1> QED BY <1>4, <1>6

\* r is s with t behind it.
Behind(r, s, t) ==
  /\ Len(s) \in Nat /\ Len(t) \in Nat /\ Len(r) = Len(s) + Len(t)
  /\ \A i \in 1 .. Len(s) : r[i] = s[i]
  /\ \A i \in 1 .. Len(t) : r[Len(s) + i] = t[i]

LEMMA ConcatOf ==
  ASSUME NEW S, NEW s \in Seq(S), NEW t \in Seq(S)
  PROVE  Behind(s \o t, s, t)
BY DEF Behind

LEMMA BehindBegins ==
  ASSUME NEW q, NEW r, NEW s, NEW t, Behind(r, s, t), Len(q) \in Nat, Begins(q, s)
  PROVE  Begins(q, r)
BY DEF Behind, Begins

\* Where a place of the whole is.
LEMMA BehindPlaces ==
  ASSUME NEW r, NEW s, NEW t, Behind(r, s, t), NEW p \in 1 .. Len(r)
  PROVE  \/ p \in 1 .. Len(s) /\ r[p] = s[p]
         \/ \E i \in 1 .. Len(t) : p = Len(s) + i /\ r[p] = t[i]
<1>1. CASE p <= Len(s)
  BY <1>1 DEF Behind
<1>2. CASE p > Len(s)
  <2> DEFINE i == p - Len(s)
  <2>1. i \in 1 .. Len(t) /\ p = Len(s) + i
    BY <1>2 DEF Behind
  <2> HIDE DEF i
  <2> QED BY <2>1 DEF Behind
<1> QED BY <1>1, <1>2 DEF Behind

\* A word behind the words before it.
LEMMA WireSteps ==
  ASSUME Worded, NEW k \in 1 .. Len(words)
  PROVE  /\ k - 1 \in 0 .. Len(words) /\ k \in 0 .. Len(words) /\ words[k] \in AllWords
         /\ Behind(WireOf[k], WireOf[k - 1], Spell[words[k]])
<1>1. k - 1 \in 0 .. Len(words) /\ k \in 0 .. Len(words) /\ words[k] \in AllWords
  BY WireUnfold
<1>2. WireOf[k - 1] \in Seq(Symbols) /\ Spell[words[k]] \in Seq(Symbols)
  BY <1>1, WireTyped, WordOf
<1>3. WireOf[k] = WireOf[k - 1] \o Spell[words[k]]
  BY WireUnfold
<1>4. Behind(WireOf[k - 1] \o Spell[words[k]], WireOf[k - 1], Spell[words[k]])
  BY ONLY <1>2, ConcatOf
<1> QED BY <1>1, <1>3, <1>4, Zenon

\* What was spelled stays as it is.
LEMMA WireGrows ==
  ASSUME Worded, NEW k \in 0 .. Len(words)
  PROVE  Begins(WireOf[k], Wire)
<1>0. Len(words) \in Nat
  BY WireUnfold
<1> DEFINE S == {j \in 0 .. Len(words) : k <= j => Begins(WireOf[k], WireOf[j])}
<1>1. Begins(WireOf[k], WireOf[k])
  <2>1. Len(WireOf[k]) \in Nat
    BY WireTyped
  <2> QED BY <2>1 DEF Begins
<1>2. 0 \in S
  <2>1. k <= 0 => k = 0
    OBVIOUS
  <2>2. 0 \in 0 .. Len(words)
    BY <1>0
  <2> QED BY <1>1, <2>1, <2>2
<1>3. ASSUME NEW j \in 1 .. Len(words), j - 1 \in S PROVE j \in S
  <2>1. j \in 0 .. Len(words) /\ k <= j => k = j \/ k <= j - 1
    BY <1>0
  <2>2. ASSUME Begins(WireOf[k], WireOf[j - 1]) PROVE Begins(WireOf[k], WireOf[j])
    <3>1. Len(WireOf[k]) \in Nat /\ Behind(WireOf[j], WireOf[j - 1], Spell[words[j]])
      BY WireSteps, WireTyped
    <3> QED BY ONLY <2>2, <3>1, BehindBegins
  <2>3. j \in 0 .. Len(words)
    BY <1>0
  <2> QED BY <1>1, <1>3, <2>1, <2>2, <2>3
<1>4. \A j \in 0 .. Len(words) : j \in S
  <2> HIDE DEF S
  <2> QED BY <1>0, <1>2, <1>3, Climbs
<1>5. Len(words) \in 0 .. Len(words) /\ k <= Len(words)
  BY <1>0
<1> QED BY <1>4, <1>5 DEF Wire

\* The halves of a tag stand together, and a closing tag of a tool call ends
\* where a word ends.
Paired(s) ==
  \A t \in Tags :
    /\ \A p \in 1 .. Len(s) : s[p] = Spell[t][1] => p + 1 <= Len(s) /\ s[p + 1] = Spell[t][2]
    /\ \A p \in 1 .. Len(s) : s[p] = Spell[t][2] => p > 1 /\ s[p - 1] = Spell[t][1]

LEMMA HalvesApart ==
  ASSUME NEW t \in Tags, NEW u \in Tags
  PROVE  /\ Spell[t][1] # Spell[u][2]
         /\ (Spell[t][1] = Spell[u][1] => t = u) /\ (Spell[t][2] = Spell[u][2] => t = u)
         /\ Spell[t][1] \notin {"x", "name"} /\ Spell[t][2] \notin {"x", "name"}
         /\ Spell[t][1] \in Symbols /\ Spell[t][2] \in Symbols
BY HalvesOf DEF Tags, Symbols

LEMMA WordPaired ==
  ASSUME NEW w \in AllWords
  PROVE  Paired(Spell[w])
<1>1. CASE w \in Tags
  <2>1. Len(Spell[w]) = 2
    BY <1>1, WordOf
  <2>2. \A p \in 1 .. Len(Spell[w]) : p = 1 \/ p = 2
    BY <2>1
  <2>3. ASSUME NEW t \in Tags, NEW p \in 1 .. Len(Spell[w])
        PROVE  /\ Spell[w][p] = Spell[t][1] => p + 1 <= Len(Spell[w]) /\ Spell[w][p + 1] = Spell[t][2]
               /\ Spell[w][p] = Spell[t][2] => p > 1 /\ Spell[w][p - 1] = Spell[t][1]
    BY <1>1, <2>1, <2>2, HalvesApart
  <2> QED BY <2>3 DEF Paired
<1>2. CASE w \notin Tags
  <2>1. Len(Spell[w]) = 1 /\ Spell[w][1] = w /\ w \in {"x", "name"}
    BY <1>2, WordOf DEF AllWords
  <2> QED BY <2>1, HalvesApart DEF Paired
<1> QED BY <1>1, <1>2

LEMMA PairsJoin ==
  ASSUME NEW r, NEW s, NEW w, Behind(r, s, w), Paired(s), Paired(w)
  PROVE  Paired(r)
<1>1. /\ Len(s) \in Nat /\ Len(w) \in Nat /\ Len(r) = Len(s) + Len(w)
      /\ \A i \in 1 .. Len(s) : r[i] = s[i]
      /\ \A i \in 1 .. Len(w) : r[Len(s) + i] = w[i]
  BY DEF Behind
<1>2. ASSUME NEW t \in Tags, NEW p \in 1 .. Len(r), r[p] = Spell[t][1]
      PROVE  p + 1 <= Len(r) /\ r[p + 1] = Spell[t][2]
  <2>1. CASE p \in 1 .. Len(s) /\ r[p] = s[p]
    <3>1. p + 1 \in 1 .. Len(s) /\ s[p + 1] = Spell[t][2]
      <4>1. p \in 1 .. Len(s) /\ s[p] = Spell[t][1]
        BY <1>2, <2>1
      <4>2. p + 1 <= Len(s) /\ s[p + 1] = Spell[t][2]
        BY <4>1 DEF Paired
      <4> QED BY <1>1, <4>1, <4>2
    <3> QED BY <1>1, <3>1
  <2>2. CASE \E i \in 1 .. Len(w) : p = Len(s) + i /\ r[p] = w[i]
    <3>1. PICK q \in 1 .. Len(w) : p = Len(s) + q /\ r[p] = w[q]
      BY <2>2
    <3>2. q + 1 \in 1 .. Len(w) /\ w[q + 1] = Spell[t][2]
      BY <1>1, <1>2, <3>1 DEF Paired
    <3>3. Len(s) + (q + 1) = p + 1 /\ p + 1 <= Len(r)
      BY <1>1, <3>1, <3>2
    <3>4. r[Len(s) + (q + 1)] = w[q + 1]
      BY <1>1, <3>2
    <3> QED BY <3>2, <3>3, <3>4
  <2> QED BY <2>1, <2>2, BehindPlaces
<1>3. ASSUME NEW t \in Tags, NEW p \in 1 .. Len(r), r[p] = Spell[t][2]
      PROVE  p > 1 /\ r[p - 1] = Spell[t][1]
  <2>1. CASE p \in 1 .. Len(s) /\ r[p] = s[p]
    <3>1. p > 1 /\ p - 1 \in 1 .. Len(s) /\ s[p - 1] = Spell[t][1]
      <4>1. p \in 1 .. Len(s) /\ s[p] = Spell[t][2]
        BY <1>3, <2>1
      <4>2. p > 1 /\ s[p - 1] = Spell[t][1]
        BY <4>1 DEF Paired
      <4> QED BY <1>1, <4>1, <4>2
    <3> QED BY <1>1, <3>1
  <2>2. CASE \E i \in 1 .. Len(w) : p = Len(s) + i /\ r[p] = w[i]
    <3>1. PICK q \in 1 .. Len(w) : p = Len(s) + q /\ r[p] = w[q]
      BY <2>2
    <3>2. q - 1 \in 1 .. Len(w) /\ w[q - 1] = Spell[t][1]
      BY <1>1, <1>3, <3>1 DEF Paired
    <3>3. Len(s) + (q - 1) = p - 1 /\ p > 1
      BY <1>1, <3>1, <3>2
    <3>4. r[Len(s) + (q - 1)] = w[q - 1]
      BY <1>1, <3>2
    <3> QED BY <3>2, <3>3, <3>4
  <2> QED BY <2>1, <2>2, BehindPlaces
<1> QED BY <1>2, <1>3 DEF Paired

LEMMA WirePaired ==
  ASSUME Worded
  PROVE  Paired(Wire)
<1> DEFINE S == {k \in 0 .. Len(words) : Paired(WireOf[k])}
<1>0. Len(words) \in Nat
  BY WireUnfold
<1>1. 0 \in S
  <2>1. 0 \in 0 .. Len(words) /\ Len(WireOf[0]) = 0
    BY <1>0, WireUnfold
  <2>2. Paired(WireOf[0])
    BY <2>1 DEF Paired
  <2> QED BY <2>1, <2>2
<1>2. ASSUME NEW k \in 1 .. Len(words), k - 1 \in S PROVE k \in S
  <2>1. Behind(WireOf[k], WireOf[k - 1], Spell[words[k]]) /\ Paired(Spell[words[k]])
    BY WireSteps, WordPaired
  <2>2. Paired(WireOf[k])
    BY <1>2, <2>1, PairsJoin
  <2>3. k \in 0 .. Len(words)
    BY <1>0
  <2> QED BY <2>2, <2>3
<1>3. \A k \in 0 .. Len(words) : k \in S
  <2> HIDE DEF S
  <2> QED BY <1>0, <1>1, <1>2, Climbs
<1>4. Len(words) \in 0 .. Len(words)
  BY <1>0
<1> QED BY <1>3, <1>4 DEF Wire

\* The first half of a tag stands where its word is.
LEMMA TagPlace ==
  ASSUME Worded, NEW tag \in Tags, NEW place \in 1 .. Len(Wire), Wire[place] = Spell[tag][1]
  PROVE  \E k \in DOMAIN words : words[k] = tag /\ place = Len(WireOf[k]) - 1
<1> DEFINE Placed(q) == \E k \in DOMAIN words : words[k] = tag /\ q = Len(WireOf[k]) - 1
           S == {k \in 0 .. Len(words) :
                   \A q \in 1 .. Len(WireOf[k]) : WireOf[k][q] = Spell[tag][1] => Placed(q)}
<1>0. Len(words) \in Nat
  BY WireUnfold
<1>1. 0 \in S
  BY <1>0, WireUnfold
<1>2. ASSUME NEW k \in 1 .. Len(words), k - 1 \in S PROVE k \in S
  <2> DEFINE before == WireOf[k - 1]
             word   == Spell[words[k]]
  <2>1. words[k] \in AllWords /\ Behind(WireOf[k], before, word)
    BY WireSteps
  <2>2. ASSUME NEW q \in 1 .. Len(WireOf[k]), WireOf[k][q] = Spell[tag][1] PROVE Placed(q)
    <3>1. CASE q \in 1 .. Len(before) /\ WireOf[k][q] = before[q]
      BY <1>2, <2>2, <3>1
    <3>2. CASE \E i \in 1 .. Len(word) : q = Len(before) + i /\ WireOf[k][q] = word[i]
      <4>1. PICK i \in 1 .. Len(word) : q = Len(before) + i /\ WireOf[k][q] = word[i]
        BY <3>2
      <4>2. word[i] = Spell[tag][1]
        BY <2>2, <4>1
      <4>3. words[k] \in Tags
        <5>1. ASSUME words[k] \notin Tags PROVE FALSE
          <6>1. words[k] \in {"x", "name"} /\ Len(word) = 1 /\ word[1] = words[k]
            BY <2>1, <5>1, WordOf DEF AllWords
          <6>2. i = 1
            BY <6>1
          <6> QED BY <4>2, <6>1, <6>2, HalvesApart
        <5> QED BY <5>1
      <4>4. Len(word) = 2
        BY <2>1, <4>3, WordOf
      <4>5. i = 1 \/ i = 2
        BY <4>4
      <4>6. words[k] = tag /\ i = 1
        BY <4>2, <4>3, <4>5, HalvesApart
      <4>7. q = Len(WireOf[k]) - 1
        <5> HIDE DEF before, word
        <5> QED BY <2>1, <4>1, <4>4, <4>6 DEF Behind
      <4>8. k \in DOMAIN words
        BY <1>0
      <4> QED BY <4>6, <4>7, <4>8
    <3> QED
      <4>1. \/ q \in 1 .. Len(before) /\ WireOf[k][q] = before[q]
            \/ \E i \in 1 .. Len(word) : q = Len(before) + i /\ WireOf[k][q] = word[i]
        <5> DEFINE whole == WireOf[k]
        <5>1. Behind(whole, before, word) /\ q \in 1 .. Len(whole)
          BY <2>1, <2>2
        <5> HIDE DEF before, word, whole
        <5>2. \/ q \in 1 .. Len(before) /\ whole[q] = before[q]
              \/ \E i \in 1 .. Len(word) : q = Len(before) + i /\ whole[q] = word[i]
          BY ONLY <5>1, BehindPlaces
        <5> QED BY <5>2 DEF whole
      <4> QED BY <3>1, <3>2, <4>1
  <2>3. k \in 0 .. Len(words)
    BY <1>0
  <2> QED BY <2>2, <2>3
<1>3. \A k \in 0 .. Len(words) : k \in S
  <2> HIDE DEF S
  <2> QED BY <1>0, <1>1, <1>2, Climbs
<1>4. Len(words) \in 0 .. Len(words)
  BY <1>0
<1> QED BY <1>3, <1>4 DEF Wire

-----------------------------------------------------------------------------
(* What the markup means, symbol by symbol.                                *)

Modes == {"Text", "Thinking", "ToolCall"}
Items == ({"text", "thinking"} \X Symbols) \cup {<<"thinking", "end">>} \cup ({"tool"} \X Seq(Symbols))
Accs  == [mode : Modes, body : Seq(Symbols), out : Seq(Items)]

\* The tags that mean something where we are.
TagsOf(mode)  == IF mode = "Text" THEN {"think", "call"}
                 ELSE IF mode = "Thinking" THEN {"unthink"} ELSE {"uncall"}
Firsts(mode)  == {Spell[t][1] : t \in TagsOf(mode)}
Seconds(mode) == {Spell[t][2] : t \in TagsOf(mode)}

Emit(acc, s) ==
  IF acc.mode = "Text" THEN [acc EXCEPT !.out = Append(@, <<"text", s>>)]
  ELSE IF acc.mode = "Thinking" THEN [acc EXCEPT !.out = Append(@, <<"thinking", s>>)]
  ELSE [acc EXCEPT !.body = Append(@, s)]

Turn(acc, s) ==
  IF s = "ink>" THEN [acc EXCEPT !.mode = "Thinking"]
  ELSE IF s = "ll>" THEN [acc EXCEPT !.mode = "ToolCall"]
  ELSE IF s = "/ink>" THEN [acc EXCEPT !.mode = "Text", !.out = @ \o ThinkingEnd]
  ELSE [mode |-> "Text", body |-> <<>>, out |-> acc.out \o ToolCall(acc.body)]

Read(acc, s) ==
  IF s \in Firsts(acc.mode) THEN acc
  ELSE IF s \in Seconds(acc.mode) THEN Turn(acc, s)
  ELSE Emit(acc, s)

Start == [mode |-> "Text", body |-> <<>>, out |-> <<>>]

ReadOf[c \in 0 .. Len(Wire)] == IF c = 0 THEN Start ELSE Read(ReadOf[c - 1], Wire[c])

\* The symbols t, none of them part of a tag.
Pours(acc, t) ==
  IF acc.mode = "Text" THEN [acc EXCEPT !.out = @ \o Text(t)]
  ELSE IF acc.mode = "Thinking" THEN [acc EXCEPT !.out = @ \o Thinking(t)]
  ELSE [acc EXCEPT !.body = @ \o t]

LEMMA ItemsAre ==
  /\ \A s \in Symbols : <<"text", s>> \in Items /\ <<"thinking", s>> \in Items
  /\ ThinkingEnd \in Seq(Items)
  /\ \A t \in Seq(Symbols) : ToolCall(t) \in Seq(Items)
<1>1. \A s \in Symbols : <<"text", s>> \in Items /\ <<"thinking", s>> \in Items
  BY DEF Items
<1>2. <<"thinking", "end">> \in Items /\ \A t \in Seq(Symbols) : <<"tool", t>> \in Items
  BY DEF Items
<1>3. \A x \in Items : <<x>> \in Seq(Items)
  BY OneOf
<1>4. ThinkingEnd \in Seq(Items)
  BY <1>2, <1>3 DEF ThinkingEnd
<1>5. <<>> \in Seq(Items)
  OBVIOUS
<1>6. ASSUME NEW t \in Seq(Symbols) PROVE ToolCall(t) \in Seq(Items)
  BY <1>2, <1>3, <1>5, Zenon DEF ToolCall
<1> QED BY <1>1, <1>4, <1>6

LEMMA TextTyped ==
  ASSUME NEW t \in Seq(Symbols)
  PROVE  Text(t) \in Seq(Items) /\ Thinking(t) \in Seq(Items)
<1>1. Len(t) \in Nat /\ DOMAIN t = 1 .. Len(t) /\ \A i \in 1 .. Len(t) : t[i] \in Symbols
  OBVIOUS
<1>2. Text(t) \in [1 .. Len(t) -> Items] /\ Thinking(t) \in [1 .. Len(t) -> Items]
  BY <1>1, ItemsAre DEF Text, Thinking
<1> HIDE DEF Text, Thinking
<1> QED BY <1>1, <1>2

LEMMA AccOf ==
  ASSUME NEW acc \in Accs
  PROVE  /\ acc.mode \in Modes /\ acc.body \in Seq(Symbols) /\ acc.out \in Seq(Items)
         /\ acc = [mode |-> acc.mode, body |-> acc.body, out |-> acc.out]
BY DEF Accs

\* Changed in one field, it is one still.
LEMMA AccKept ==
  ASSUME NEW acc \in Accs
  PROVE  /\ \A m \in Modes : [acc EXCEPT !.mode = m] \in Accs
         /\ \A b \in Seq(Symbols) : [acc EXCEPT !.body = b] \in Accs
         /\ \A o \in Seq(Items) : [acc EXCEPT !.out = o] \in Accs
         /\ \A m \in Modes, o \in Seq(Items) : [acc EXCEPT !.mode = m, !.out = o] \in Accs
         /\ \A o \in Seq(Items) : [mode |-> "Text", body |-> <<>>, out |-> o] \in Accs
<1>1. <<>> \in Seq(Symbols) /\ "Text" \in Modes
  BY DEF Modes
<1> QED BY <1>1 DEF Accs

LEMMA ReadTyped ==
  ASSUME NEW acc \in Accs, NEW s \in Symbols
  PROVE  Emit(acc, s) \in Accs /\ Turn(acc, s) \in Accs /\ Read(acc, s) \in Accs
<1>1. Emit(acc, s) \in Accs
  <2>1. /\ Append(acc.out, <<"text", s>>) \in Seq(Items) /\ Append(acc.out, <<"thinking", s>>) \in Seq(Items)
        /\ Append(acc.body, s) \in Seq(Symbols)
    <3>1. acc.out \in Seq(Items) /\ acc.body \in Seq(Symbols) /\ <<"text", s>> \in Items /\ <<"thinking", s>> \in Items
      BY AccOf, ItemsAre
    <3> QED BY ONLY <3>1, s \in Symbols, AppendProperties
  <2> QED BY <2>1, AccKept, Zenon DEF Emit
<1>2. Turn(acc, s) \in Accs
  <2>1. acc.out \o ThinkingEnd \in Seq(Items) /\ acc.out \o ToolCall(acc.body) \in Seq(Items)
    <3>1. acc.out \in Seq(Items) /\ ThinkingEnd \in Seq(Items) /\ ToolCall(acc.body) \in Seq(Items)
      BY AccOf, ItemsAre
    <3> QED BY ONLY <3>1, ConcatProperties
  <2>2. "Text" \in Modes /\ "Thinking" \in Modes /\ "ToolCall" \in Modes
    BY DEF Modes
  <2> QED BY <2>1, <2>2, AccKept, Zenon DEF Turn
<1> QED BY <1>1, <1>2 DEF Read

LEMMA ReadUnfold ==
  ASSUME Worded
  PROVE  /\ ReadOf[0] = Start /\ Start \in Accs
         /\ \A c \in 0 .. Len(Wire) : ReadOf[c] \in Accs
         /\ \A c \in 1 .. Len(Wire) : /\ c - 1 \in 0 .. Len(Wire) /\ Wire[c] \in Symbols
                                     /\ ReadOf[c] = Read(ReadOf[c - 1], Wire[c])
<1> DEFINE n == Len(Wire)
           R == [c \in 1 .. n |-> [acc \in Accs |-> Read(acc, Wire[c])]]
           ReadFrom(g) == g = [c \in 0 .. n |-> IF c = 0 THEN Start ELSE Read(g[c - 1], Wire[c])]
<1>1. n \in Nat /\ \A c \in 1 .. n : Wire[c] \in Symbols
  BY WireTyped
<1>2. Start \in Accs
  BY DEF Start, Accs, Modes
<1>3. R \in [1 .. n -> [Accs -> Accs]]
  BY <1>1, ReadTyped
<1>4. PICK g \in [0 .. n -> Accs] : Follows(g, Start, R, n)
  <2> HIDE DEF R, n
  <2> QED BY <1>1, <1>2, <1>3, RecursionExists
<1>5. ASSUME NEW c \in 0 .. n PROVE g[c] = IF c = 0 THEN Start ELSE Read(g[c - 1], Wire[c])
  <2>1. CASE c = 0
    BY <1>4, <2>1 DEF Follows
  <2>2. CASE c # 0
    <3>1. c \in 1 .. n /\ c - 1 \in 0 .. n
      BY <1>1, <2>2
    <3>2. g[c - 1] \in Accs
      BY <1>4, <3>1
    <3>3. R[c][g[c - 1]] = Read(g[c - 1], Wire[c])
      BY <3>1, <3>2
    <3> HIDE DEF R, n
    <3> QED BY <1>4, <2>2, <3>1, <3>3 DEF Follows
  <2> QED BY <2>1, <2>2
<1>6. ReadFrom(g)
  BY <1>4, <1>5
<1>7. ReadOf = CHOOSE h : ReadFrom(h)
  BY DEF ReadOf
<1>8. ReadFrom(ReadOf)
  <2> HIDE DEF ReadFrom
  <2> QED BY <1>6, <1>7
<1>9. \A f, h : h = [c \in 0 .. n |-> IF c = 0 THEN Start ELSE Read(f[c - 1], Wire[c])]
              => \A c \in 0 .. n : h[c] = IF c = 0 THEN Start ELSE Read(f[c - 1], Wire[c])
  OBVIOUS
<1>10. \A c \in 0 .. n : ReadOf[c] = IF c = 0 THEN Start ELSE Read(ReadOf[c - 1], Wire[c])
  <2> HIDE DEF n
  <2> QED BY <1>8, <1>9
<1>11. 0 \in 0 .. n /\ \A c \in 1 .. n : c \in 0 .. n /\ c # 0 /\ c - 1 \in 0 .. n
  BY <1>1
<1>12. ReadOf[0] = Start /\ \A c \in 1 .. n : ReadOf[c] = Read(ReadOf[c - 1], Wire[c])
  <2> HIDE DEF n
  <2> QED BY <1>10, <1>11
<1> DEFINE S == {c \in 0 .. n : ReadOf[c] \in Accs}
<1>13. 0 \in S
  <2> HIDE DEF n
  <2> QED BY <1>2, <1>11, <1>12
<1>14. ASSUME NEW c \in 1 .. n, c - 1 \in S PROVE c \in S
  <2>1. ReadOf[c - 1] \in Accs /\ Wire[c] \in Symbols /\ c \in 0 .. n
    BY <1>1, <1>11, <1>14
  <2>2. ReadOf[c] \in Accs
    BY <1>12, <2>1, ReadTyped, Zenon
  <2> QED BY <2>1, <2>2
<1>15. \A c \in 0 .. n : c \in S
  <2> HIDE DEF S, n
  <2> QED BY <1>1, <1>13, <1>14, Climbs
<1> QED BY <1>1, <1>2, <1>11, <1>12, <1>15

\* Symbol by symbol or word by word, it is the same.
LEMMA TextOf ==
  ASSUME NEW a, NEW b
  PROVE  /\ Text(<<a>>) = <<<<"text", a>>>> /\ Text(<<a, b>>) = <<<<"text", a>>, <<"text", b>>>>
         /\ Thinking(<<a>>) = <<<<"thinking", a>>>>
         /\ Thinking(<<a, b>>) = <<<<"thinking", a>>, <<"thinking", b>>>>
<1>1. DOMAIN <<a>> = 1 .. 1 /\ DOMAIN <<a, b>> = 1 .. 2
  OBVIOUS
<1>2. (\A i \in 1 .. 1 : i = 1) /\ \A i \in 1 .. 2 : i = 1 \/ i = 2
  OBVIOUS
<1> QED BY <1>1, <1>2 DEF Text, Thinking

LEMMA OneByOne ==
  ASSUME NEW S, NEW s \in Seq(S), NEW a \in S, NEW b \in S
  PROVE  s \o <<a>> = Append(s, a) /\ s \o <<a, b>> = Append(Append(s, a), b)
OBVIOUS

\* A symbol that is no part of a tag that matters here.
LEMMA OffMarks ==
  ASSUME NEW mode \in Modes, NEW w \in AllWords, w \notin TagsOf(mode)
  PROVE  /\ w \in Tags => /\ Spell[w][1] \notin Firsts(mode) \cup Seconds(mode)
                         /\ Spell[w][2] \notin Firsts(mode) \cup Seconds(mode)
         /\ w \notin Tags => w \notin Firsts(mode) \cup Seconds(mode)
<1>1. TagsOf(mode) \subseteq Tags
  BY DEF TagsOf, Tags
<1>2. ASSUME w \in Tags
      PROVE  /\ Spell[w][1] \notin Firsts(mode) \cup Seconds(mode)
             /\ Spell[w][2] \notin Firsts(mode) \cup Seconds(mode)
  BY <1>1, <1>2, HalvesApart DEF Firsts, Seconds
<1>3. ASSUME w \notin Tags
      PROVE  w \notin Firsts(mode) \cup Seconds(mode)
  <2>1. w \in {"x", "name"}
    BY <1>3 DEF AllWords
  <2> QED BY <1>1, <2>1, HalvesApart DEF Firsts, Seconds
<1> QED BY <1>2, <1>3

LEMMA OnMarks ==
  ASSUME NEW mode \in Modes, NEW w \in TagsOf(mode)
  PROVE  /\ w \in Tags /\ Spell[w][1] \in Firsts(mode)
         /\ Spell[w][2] \in Seconds(mode) /\ Spell[w][2] \notin Firsts(mode)
<1>1. TagsOf(mode) \subseteq Tags
  BY DEF TagsOf, Tags
<1> QED BY <1>1, HalvesApart DEF Firsts, Seconds

\* Behind another symbol, the mode is the same.
LEMMA EmitMode ==
  ASSUME NEW acc \in Accs, NEW s \in Symbols
  PROVE  Emit(acc, s).mode = acc.mode
BY DEF Emit, Accs

LEMMA ReadingTag ==
  ASSUME NEW acc \in Accs, NEW w \in TagsOf(acc.mode)
  PROVE  Reading(acc, w) = Turn(acc, Spell[w][2])
<1>1. acc.mode \in Modes /\ acc = [mode |-> acc.mode, body |-> acc.body, out |-> acc.out]
  BY AccOf
<1>2. CASE acc.mode = "Text" /\ w = "think"
  <2>1. Spell[w][2] = "ink>"
    BY <1>2, HalvesOf
  <2> QED BY <1>2, <2>1, Zenon DEF Reading, Turn
<1>3. CASE acc.mode = "Text" /\ w = "call"
  <2>1. Spell[w][2] = "ll>"
    BY <1>3, HalvesOf
  <2>2. Turn(acc, Spell[w][2]) = [acc EXCEPT !.mode = "ToolCall"]
    BY <2>1 DEF Turn
  <2>3. Reading(acc, w) = [acc EXCEPT !.mode = "ToolCall"]
    BY <1>3 DEF Reading
  <2> QED BY <2>2, <2>3
<1>4. CASE acc.mode = "Thinking" /\ w = "unthink"
  <2>1. Spell[w][2] = "/ink>"
    BY <1>4, HalvesOf
  <2>2. Turn(acc, Spell[w][2]) = [acc EXCEPT !.mode = "Text", !.out = @ \o ThinkingEnd]
    BY <2>1 DEF Turn
  <2>3. Reading(acc, w) = [acc EXCEPT !.mode = "Text", !.out = @ \o ThinkingEnd]
    BY <1>4 DEF Reading
  <2> QED BY <2>2, <2>3
<1>5. CASE acc.mode = "ToolCall" /\ w = "uncall"
  <2>1. Spell[w][2] = "/ll>"
    BY <1>5, HalvesOf
  <2>2. Turn(acc, Spell[w][2]) = [mode |-> "Text", body |-> <<>>, out |-> acc.out \o ToolCall(acc.body)]
    BY <2>1 DEF Turn
  <2>3. Reading(acc, w) = [mode |-> "Text", body |-> <<>>, out |-> acc.out \o ToolCall(acc.body)]
    BY <1>5 DEF Reading
  <2> QED BY <2>2, <2>3
<1> QED BY <1>1, <1>2, <1>3, <1>4, <1>5 DEF TagsOf, Modes

LEMMA ReadingText ==
  ASSUME NEW acc \in Accs, NEW w \in AllWords, w \notin TagsOf(acc.mode)
  PROVE  Reading(acc, w) = Pours(acc, Spell[w])
<1>1. acc.mode \in Modes
  BY AccOf
<1>2. CASE acc.mode = "Text"
  <2>1. w \notin {"think", "call"}
    BY <1>2 DEF TagsOf
  <2>2. Reading(acc, w) = [acc EXCEPT !.out = @ \o Text(Spell[w])]
    BY <1>2, <2>1 DEF Reading
  <2> QED BY <1>2, <2>2 DEF Pours
<1>3. CASE acc.mode = "Thinking"
  <2>1. w # "unthink"
    BY <1>3 DEF TagsOf
  <2>2. Reading(acc, w) = [acc EXCEPT !.out = @ \o Thinking(Spell[w])]
    BY <1>3, <2>1 DEF Reading
  <2> QED BY <1>3, <2>2 DEF Pours
<1>4. CASE acc.mode = "ToolCall"
  <2>1. w # "uncall"
    BY <1>4 DEF TagsOf
  <2>2. Reading(acc, w) = [acc EXCEPT !.body = @ \o Spell[w]]
    BY <1>4, <2>1 DEF Reading
  <2> QED BY <1>4, <2>2 DEF Pours
<1> QED BY <1>1, <1>2, <1>3, <1>4 DEF Modes

\* Symbols that go out together go out one by one.
LEMMA PourOne ==
  ASSUME NEW acc \in Accs, NEW a \in Symbols
  PROVE  Pours(acc, <<a>>) = Emit(acc, a)
<1>1. /\ acc.out \o Text(<<a>>) = Append(acc.out, <<"text", a>>)
      /\ acc.out \o Thinking(<<a>>) = Append(acc.out, <<"thinking", a>>)
      /\ acc.body \o <<a>> = Append(acc.body, a)
  <2>1. acc.out \in Seq(Items) /\ acc.body \in Seq(Symbols) /\ <<"text", a>> \in Items /\ <<"thinking", a>> \in Items
    BY AccOf, ItemsAre
  <2>2. /\ acc.out \o <<<<"text", a>>>> = Append(acc.out, <<"text", a>>)
        /\ acc.out \o <<<<"thinking", a>>>> = Append(acc.out, <<"thinking", a>>)
        /\ acc.body \o <<a>> = Append(acc.body, a)
    BY ONLY <2>1, a \in Symbols, OneByOne
  <2> QED BY <2>2, TextOf
<1> QED BY <1>1, Zenon DEF Pours, Emit

LEMMA PourPair ==
  ASSUME NEW acc \in Accs, NEW a \in Symbols, NEW b \in Symbols
  PROVE  Pours(acc, <<a, b>>) = Emit(Emit(acc, a), b)
<1>1. /\ acc.out \o Text(<<a, b>>) = Append(Append(acc.out, <<"text", a>>), <<"text", b>>)
      /\ acc.out \o Thinking(<<a, b>>) = Append(Append(acc.out, <<"thinking", a>>), <<"thinking", b>>)
      /\ acc.body \o <<a, b>> = Append(Append(acc.body, a), b)
  <2>1. /\ acc.out \in Seq(Items) /\ acc.body \in Seq(Symbols)
        /\ <<"text", a>> \in Items /\ <<"thinking", a>> \in Items /\ <<"text", b>> \in Items /\ <<"thinking", b>> \in Items
    BY AccOf, ItemsAre
  <2>2. acc.out \o <<<<"text", a>>, <<"text", b>>>> = Append(Append(acc.out, <<"text", a>>), <<"text", b>>)
    <3> DEFINE x == <<"text", a>>
               y == <<"text", b>>
    <3>1. x \in Items /\ y \in Items /\ acc.out \in Seq(Items)
      BY <2>1
    <3> HIDE DEF x, y
    <3>2. acc.out \o <<x, y>> = Append(Append(acc.out, x), y)
      BY ONLY <3>1, OneByOne
    <3> QED BY <3>2 DEF x, y
  <2>3. acc.out \o <<<<"thinking", a>>, <<"thinking", b>>>> = Append(Append(acc.out, <<"thinking", a>>), <<"thinking", b>>)
    <3> DEFINE x == <<"thinking", a>>
               y == <<"thinking", b>>
    <3>1. x \in Items /\ y \in Items /\ acc.out \in Seq(Items)
      BY <2>1
    <3> HIDE DEF x, y
    <3>2. acc.out \o <<x, y>> = Append(Append(acc.out, x), y)
      BY ONLY <3>1, OneByOne
    <3> QED BY <3>2 DEF x, y
  <2>4. acc.body \o <<a, b>> = Append(Append(acc.body, a), b)
    BY ONLY <2>1, a \in Symbols, b \in Symbols, OneByOne
  <2> QED BY <2>2, <2>3, <2>4, TextOf
<1>2. acc.mode \in Modes
  BY AccOf
<1>3. CASE acc.mode = "Text"
  <2>1. Emit(acc, a) = [acc EXCEPT !.out = Append(@, <<"text", a>>)]
    BY <1>3 DEF Emit
  <2>2. Emit(acc, a).mode = "Text" /\ Emit(acc, a).out = Append(acc.out, <<"text", a>>)
    BY <1>3, <2>1 DEF Accs
  <2> DEFINE o == Append(Append(acc.out, <<"text", a>>), <<"text", b>>)
             o1 == Append(acc.out, <<"text", a>>)
  <2>3. Emit(Emit(acc, a), b) = [Emit(acc, a) EXCEPT !.out = o]
    BY <2>2 DEF Emit
  <2>4. Pours(acc, <<a, b>>) = [acc EXCEPT !.out = o]
    BY <1>1, <1>3 DEF Pours
  <2>5. [[acc EXCEPT !.out = o1] EXCEPT !.out = o] = [acc EXCEPT !.out = o]
    <3> HIDE DEF o, o1
    <3> QED BY DEF Accs
  <2> QED BY <2>1, <2>3, <2>4, <2>5
<1>4. CASE acc.mode = "Thinking"
  <2>1. Emit(acc, a) = [acc EXCEPT !.out = Append(@, <<"thinking", a>>)]
    BY <1>4 DEF Emit
  <2>2. Emit(acc, a).mode = "Thinking" /\ Emit(acc, a).out = Append(acc.out, <<"thinking", a>>)
    BY <1>4, <2>1 DEF Accs
  <2> DEFINE o == Append(Append(acc.out, <<"thinking", a>>), <<"thinking", b>>)
             o1 == Append(acc.out, <<"thinking", a>>)
  <2>3. Emit(Emit(acc, a), b) = [Emit(acc, a) EXCEPT !.out = o]
    BY <2>2 DEF Emit
  <2>4. Pours(acc, <<a, b>>) = [acc EXCEPT !.out = o]
    BY <1>1, <1>4 DEF Pours
  <2>5. [[acc EXCEPT !.out = o1] EXCEPT !.out = o] = [acc EXCEPT !.out = o]
    <3> HIDE DEF o, o1
    <3> QED BY DEF Accs
  <2> QED BY <2>1, <2>3, <2>4, <2>5
<1>5. CASE acc.mode = "ToolCall"
  <2>1. Emit(acc, a) = [acc EXCEPT !.body = Append(@, a)]
    BY <1>5 DEF Emit
  <2>2. Emit(acc, a).mode = "ToolCall" /\ Emit(acc, a).body = Append(acc.body, a)
    BY <1>5, <2>1 DEF Accs
  <2> DEFINE o == Append(Append(acc.body, a), b)
             o1 == Append(acc.body, a)
  <2>3. Emit(Emit(acc, a), b) = [Emit(acc, a) EXCEPT !.body = o]
    BY <2>2 DEF Emit
  <2>4. Pours(acc, <<a, b>>) = [acc EXCEPT !.body = o]
    BY <1>1, <1>5 DEF Pours
  <2>5. [[acc EXCEPT !.body = o1] EXCEPT !.body = o] = [acc EXCEPT !.body = o]
    <3> HIDE DEF o, o1
    <3> QED BY DEF Accs
  <2> QED BY <2>1, <2>3, <2>4, <2>5
<1> QED BY <1>2, <1>3, <1>4, <1>5 DEF Modes

LEMMA WordRead ==
  ASSUME NEW acc \in Accs, NEW w \in AllWords
  PROVE  /\ Reading(acc, w) \in Accs
         /\ w \in Tags => Reading(acc, w) = Read(Read(acc, Spell[w][1]), Spell[w][2])
         /\ w \notin Tags => Reading(acc, w) = Read(acc, w)
<1>0. acc.mode \in Modes
  BY AccOf
<1>1. CASE w \in TagsOf(acc.mode)
  <2>1. /\ w \in Tags /\ Spell[w][1] \in Firsts(acc.mode)
        /\ Spell[w][2] \in Seconds(acc.mode) /\ Spell[w][2] \notin Firsts(acc.mode)
    BY <1>0, <1>1, OnMarks
  <2>2. Read(acc, Spell[w][1]) = acc /\ Read(acc, Spell[w][2]) = Turn(acc, Spell[w][2])
    BY <2>1 DEF Read
  <2>3. Turn(acc, Spell[w][2]) \in Accs
    BY <2>1, HalvesApart, ReadTyped
  <2>4. Reading(acc, w) = Turn(acc, Spell[w][2])
    BY <1>1, ReadingTag
  <2> QED BY <2>1, <2>2, <2>3, <2>4, Zenon
<1>2. CASE w \notin TagsOf(acc.mode) /\ w \in Tags
  <2> DEFINE a == Spell[w][1]
             b == Spell[w][2]
  <2>1. a \in Symbols /\ b \in Symbols /\ Spell[w] = <<a, b>>
    BY <1>2, HalvesApart, WordOf
  <2>2. a \notin Firsts(acc.mode) \cup Seconds(acc.mode) /\ b \notin Firsts(acc.mode) \cup Seconds(acc.mode)
    BY <1>0, <1>2, OffMarks
  <2> HIDE DEF a, b
  <2>3. Read(acc, a) = Emit(acc, a)
    BY <2>2 DEF Read
  <2>4. Emit(acc, a) \in Accs /\ Emit(acc, a).mode = acc.mode
    BY <2>1, ReadTyped, EmitMode
  <2>5. Read(Emit(acc, a), b) = Emit(Emit(acc, a), b)
    BY <2>2, <2>4 DEF Read
  <2>6. Emit(Emit(acc, a), b) \in Accs
    BY <2>1, <2>4, ReadTyped
  <2>7. Reading(acc, w) = Pours(acc, <<a, b>>)
    BY <1>2, <2>1, ReadingText
  <2>8. Reading(acc, w) = Emit(Emit(acc, a), b)
    BY <2>1, <2>7, PourPair
  <2> QED BY <1>2, <2>3, <2>5, <2>6, <2>8, Zenon DEF a, b
<1>3. CASE w \notin TagsOf(acc.mode) /\ w \notin Tags
  <2>1. w \in Symbols /\ Spell[w] = <<w>>
    BY <1>3, WordOf DEF AllWords, Symbols
  <2>2. w \notin Firsts(acc.mode) \cup Seconds(acc.mode)
    BY <1>0, <1>3, OffMarks
  <2>3. Read(acc, w) = Emit(acc, w) /\ Emit(acc, w) \in Accs
    BY <2>1, <2>2, ReadTyped DEF Read
  <2>4. Reading(acc, w) = Pours(acc, <<w>>)
    BY <1>3, <2>1, ReadingText
  <2> QED BY <1>3, <2>1, <2>3, <2>4, PourOne, Zenon
<1> QED BY <1>1, <1>2, <1>3

LEMMA MeaningUnfold ==
  ASSUME Worded
  PROVE  /\ MeaningOf[0] = Start
         /\ \A k \in 1 .. Len(words) : MeaningOf[k] = Reading(MeaningOf[k - 1], words[k])
<1> DEFINE n == Len(words)
           R == [k \in 1 .. n |-> [acc \in Accs |-> Reading(acc, words[k])]]
           MeaningFrom(g) == g = [k \in 0 .. n |-> IF k = 0 THEN Start ELSE Reading(g[k - 1], words[k])]
<1>1. n \in Nat /\ \A k \in 1 .. n : words[k] \in AllWords
  BY WireUnfold
<1>2. Start \in Accs
  BY ReadUnfold
<1>3. R \in [1 .. n -> [Accs -> Accs]]
  <2>1. \A k \in 1 .. n, acc \in Accs : Reading(acc, words[k]) \in Accs
    BY <1>1, WordRead
  <2> QED BY <2>1
<1>4. PICK g \in [0 .. n -> Accs] : Follows(g, Start, R, n)
  <2> HIDE DEF R, n
  <2> QED BY <1>1, <1>2, <1>3, RecursionExists
<1>5. ASSUME NEW k \in 0 .. n PROVE g[k] = IF k = 0 THEN Start ELSE Reading(g[k - 1], words[k])
  <2>1. CASE k = 0
    BY <1>4, <2>1 DEF Follows
  <2>2. CASE k # 0
    <3>1. k \in 1 .. n /\ k - 1 \in 0 .. n
      BY <1>1, <2>2
    <3>2. g[k - 1] \in Accs
      BY <1>4, <3>1
    <3>3. R[k][g[k - 1]] = Reading(g[k - 1], words[k])
      BY <3>1, <3>2
    <3> HIDE DEF R, n
    <3> QED BY <1>4, <2>2, <3>1, <3>3 DEF Follows
  <2> QED BY <2>1, <2>2
<1>6. MeaningFrom(g)
  BY <1>4, <1>5
<1>7. MeaningOf = CHOOSE h : MeaningFrom(h)
  BY DEF MeaningOf, Start
<1>8. MeaningFrom(MeaningOf)
  <2> HIDE DEF MeaningFrom
  <2> QED BY <1>6, <1>7
<1>9. \A f, h : h = [k \in 0 .. n |-> IF k = 0 THEN Start ELSE Reading(f[k - 1], words[k])]
              => \A k \in 0 .. n : h[k] = IF k = 0 THEN Start ELSE Reading(f[k - 1], words[k])
  OBVIOUS
<1>10. \A k \in 0 .. n : MeaningOf[k] = IF k = 0 THEN Start ELSE Reading(MeaningOf[k - 1], words[k])
  <2> HIDE DEF n
  <2> QED BY <1>8, <1>9
<1>11. 0 \in 0 .. n /\ \A k \in 1 .. n : k \in 0 .. n /\ k # 0
  BY <1>1
<1> QED
  <2>1. MeaningOf[0] = Start /\ \A k \in 1 .. n : MeaningOf[k] = Reading(MeaningOf[k - 1], words[k])
    <3> HIDE DEF n
    <3> QED BY <1>10, <1>11
  <2> QED BY <2>1

\* A word is read when its last symbol is.
LEMMA MeaningRead ==
  ASSUME Worded
  PROVE  /\ \A k \in 0 .. Len(words) : MeaningOf[k] = ReadOf[Len(WireOf[k])]
         /\ Meaning = ReadOf[Len(Wire)]
<1>0. Len(words) \in Nat /\ WireOf[0] = <<>> /\ Len(<<>>) = 0
  BY WireUnfold
<1> DEFINE S == {k \in 0 .. Len(words) : MeaningOf[k] = ReadOf[Len(WireOf[k])]}
<1>1. 0 \in S
  <2>1. MeaningOf[0] = Start /\ ReadOf[0] = Start
    BY MeaningUnfold, ReadUnfold
  <2>2. Len(WireOf[0]) = 0 /\ 0 \in 0 .. Len(words)
    BY <1>0
  <2> QED BY <2>1, <2>2
<1>2. ASSUME NEW k \in 1 .. Len(words), k - 1 \in S PROVE k \in S
  <2> DEFINE c == Len(WireOf[k - 1])
             w == words[k]
             acc == ReadOf[c]
             e == Len(WireOf[k])
  <2>1. /\ k - 1 \in 0 .. Len(words) /\ k \in 0 .. Len(words) /\ w \in AllWords
        /\ Behind(WireOf[k], WireOf[k - 1], Spell[w])
    BY WireSteps
  <2>2. Begins(WireOf[k], Wire) /\ Len(Wire) \in Nat
    BY <2>1, WireGrows, WireTyped
  <2>3. /\ c \in Nat /\ Len(Spell[w]) \in Nat /\ e = c + Len(Spell[w]) /\ e <= Len(Wire)
        /\ \A i \in 1 .. Len(Spell[w]) : Wire[c + i] = Spell[w][i]
    <3>1. /\ c \in Nat /\ Len(Spell[w]) \in Nat /\ e = c + Len(Spell[w])
          /\ \A i \in 1 .. Len(Spell[w]) : WireOf[k][c + i] = Spell[w][i]
      BY <2>1 DEF Behind
    <3>2. e <= Len(Wire) /\ \A i \in 1 .. e : WireOf[k][i] = Wire[i]
      BY <2>2 DEF Begins
    <3>3. \A i \in 1 .. Len(Spell[w]) : c + i \in 1 .. e
      <4> HIDE DEF c, e
      <4> QED BY <3>1
    <3> QED BY <3>1, <3>2, <3>3
  <2>4. MeaningOf[k] = Reading(acc, w)
    <3>1. MeaningOf[k - 1] = acc
      BY <1>2
    <3> QED BY <3>1, MeaningUnfold
  <2> HIDE DEF c, e
  <2>5. acc \in Accs
    BY <2>2, <2>3, ReadUnfold
  <2> HIDE DEF acc
  <2>6. CASE w \in Tags
    <3>1. Len(Spell[w]) = 2
      BY <2>1, <2>6, WordOf
    <3>2. c + 1 \in 1 .. Len(Wire) /\ c + 2 \in 1 .. Len(Wire) /\ e = c + 2
          /\ (c + 1) - 1 = c /\ (c + 2) - 1 = c + 1
      BY <2>2, <2>3, <3>1
    <3>3. Wire[c + 1] = Spell[w][1] /\ Wire[c + 2] = Spell[w][2]
      BY <2>3, <3>1
    <3>4. ReadOf[c + 1] = Read(acc, Spell[w][1])
      BY <3>2, <3>3, ReadUnfold DEF acc
    <3>5. ReadOf[c + 2] = Read(ReadOf[c + 1], Spell[w][2])
      BY <3>2, <3>3, ReadUnfold
    <3>6. Reading(acc, w) = Read(Read(acc, Spell[w][1]), Spell[w][2])
      BY <2>1, <2>5, <2>6, WordRead
    <3>7. MeaningOf[k] = ReadOf[e]
      BY <2>4, <3>2, <3>4, <3>5, <3>6
    <3> QED BY <2>1, <3>7 DEF e
  <2>7. CASE w \notin Tags
    <3>1. Len(Spell[w]) = 1 /\ Spell[w][1] = w
      BY <2>1, <2>7, WordOf
    <3>2. c + 1 \in 1 .. Len(Wire) /\ e = c + 1 /\ (c + 1) - 1 = c
      BY <2>2, <2>3, <3>1
    <3>3. Wire[c + 1] = w
      BY <2>3, <3>1
    <3>4. ReadOf[c + 1] = Read(acc, w)
      BY <3>2, <3>3, ReadUnfold DEF acc
    <3>5. Reading(acc, w) = Read(acc, w)
      BY <2>1, <2>5, <2>7, WordRead
    <3>6. MeaningOf[k] = ReadOf[e]
      BY <2>4, <3>2, <3>4, <3>5
    <3> QED BY <2>1, <3>6 DEF e
  <2> QED BY <2>6, <2>7
<1>3. \A k \in 0 .. Len(words) : k \in S
  <2> HIDE DEF S
  <2> QED BY <1>0, <1>1, <1>2, Climbs
<1>4. Len(words) \in 0 .. Len(words)
  BY <1>0
<1> QED BY <1>3, <1>4 DEF Meaning, Wire

-----------------------------------------------------------------------------
(* Symbols between two tags.                                               *)

LEMMA PoursTyped ==
  ASSUME NEW acc \in Accs, NEW t \in Seq(Symbols)
  PROVE  Pours(acc, t) \in Accs /\ Pours(acc, t).mode = acc.mode
<1>1. /\ acc.out \o Text(t) \in Seq(Items) /\ acc.out \o Thinking(t) \in Seq(Items)
      /\ acc.body \o t \in Seq(Symbols)
  <2>1. /\ acc.out \in Seq(Items) /\ acc.body \in Seq(Symbols)
        /\ Text(t) \in Seq(Items) /\ Thinking(t) \in Seq(Items)
    BY AccOf, TextTyped
  <2> QED BY ONLY <2>1, t \in Seq(Symbols), ConcatProperties
<1>2. Pours(acc, t) \in Accs
  BY <1>1, AccKept, Zenon DEF Pours
<1>3. Pours(acc, t).mode = acc.mode
  BY DEF Pours, Accs
<1> QED BY <1>2, <1>3

LEMMA TextAppend ==
  ASSUME NEW t \in Seq(Symbols), NEW s \in Symbols
  PROVE  /\ Text(Append(t, s)) = Append(Text(t), <<"text", s>>)
         /\ Thinking(Append(t, s)) = Append(Thinking(t), <<"thinking", s>>)
<1>1. /\ Len(t) \in Nat /\ DOMAIN t = 1 .. Len(t)
      /\ DOMAIN Append(t, s) = 1 .. Len(t) + 1
      /\ Append(t, s)[Len(t) + 1] = s /\ \A i \in 1 .. Len(t) : Append(t, s)[i] = t[i]
  OBVIOUS
<1>2. Text(Append(t, s)) = Append(Text(t), <<"text", s>>)
  <2>1. Len(Text(t)) = Len(t)
    BY <1>1 DEF Text
  <2> QED BY <1>1, <2>1 DEF Text
<1>3. Thinking(Append(t, s)) = Append(Thinking(t), <<"thinking", s>>)
  <2>1. Len(Thinking(t)) = Len(t)
    BY <1>1 DEF Thinking
  <2> QED BY <1>1, <2>1 DEF Thinking
<1> QED BY <1>2, <1>3

LastGoes(s, t, x) == s \o Append(t, x) = Append(s \o t, x)

LEMMA ConcatAppend ==
  ASSUME NEW S, NEW s \in Seq(S), NEW t \in Seq(S), NEW x \in S
  PROVE  LastGoes(s, t, x)
BY DEF LastGoes

LEMMA PourNothing ==
  ASSUME NEW acc \in Accs
  PROVE  Pours(acc, <<>>) = acc
<1>1. Text(<<>>) = <<>> /\ Thinking(<<>>) = <<>>
  BY DEF Text, Thinking
<1>2. acc.out \o <<>> = acc.out /\ acc.body \o <<>> = acc.body
  BY AccOf
<1> QED BY <1>1, <1>2 DEF Pours, Accs

LEMMA PourMore ==
  ASSUME NEW acc \in Accs, NEW t \in Seq(Symbols), NEW s \in Symbols
  PROVE  Pours(acc, Append(t, s)) = Emit(Pours(acc, t), s)
<1>1. /\ acc.out \o Text(Append(t, s)) = Append(acc.out \o Text(t), <<"text", s>>)
      /\ acc.out \o Thinking(Append(t, s)) = Append(acc.out \o Thinking(t), <<"thinking", s>>)
      /\ acc.body \o Append(t, s) = Append(acc.body \o t, s)
  <2>1. /\ acc.out \in Seq(Items) /\ acc.body \in Seq(Symbols)
        /\ Text(t) \in Seq(Items) /\ Thinking(t) \in Seq(Items)
        /\ <<"text", s>> \in Items /\ <<"thinking", s>> \in Items
    BY AccOf, TextTyped, ItemsAre
  <2>2. acc.out \o Append(Text(t), <<"text", s>>) = Append(acc.out \o Text(t), <<"text", s>>)
    <3> DEFINE x == <<"text", s>>
               e == Text(t)
    <3>1. acc.out \in Seq(Items) /\ e \in Seq(Items) /\ x \in Items
      BY <2>1
    <3> HIDE DEF x, e
    <3>2. LastGoes(acc.out, e, x)
      BY ONLY <3>1, ConcatAppend
    <3> QED BY <3>2 DEF LastGoes, x, e
  <2>3. acc.out \o Append(Thinking(t), <<"thinking", s>>) = Append(acc.out \o Thinking(t), <<"thinking", s>>)
    <3> DEFINE x == <<"thinking", s>>
               e == Thinking(t)
    <3>1. acc.out \in Seq(Items) /\ e \in Seq(Items) /\ x \in Items
      BY <2>1
    <3> HIDE DEF x, e
    <3>2. LastGoes(acc.out, e, x)
      BY ONLY <3>1, ConcatAppend
    <3> QED BY <3>2 DEF LastGoes, x, e
  <2>4. acc.body \o Append(t, s) = Append(acc.body \o t, s)
    <3>1. LastGoes(acc.body, t, s)
      BY ONLY <2>1, t \in Seq(Symbols), s \in Symbols, ConcatAppend
    <3> QED BY <3>1 DEF LastGoes
  <2> QED BY <2>2, <2>3, <2>4, TextAppend, Zenon
<1> DEFINE poured == Pours(acc, t)
<1>2. acc.mode \in Modes /\ poured.mode = acc.mode
  BY AccOf, PoursTyped
<1>3. CASE acc.mode = "Text"
  <2>1. poured = [acc EXCEPT !.out = acc.out \o Text(t)]
    BY <1>3 DEF Pours
  <2> DEFINE o == acc.out \o Text(t)
             item == <<"text", s>>
  <2>2. Emit(poured, s) = [poured EXCEPT !.out = Append(poured.out, item)]
    BY <1>2, <1>3 DEF Emit
  <2>3. Pours(acc, Append(t, s)) = [acc EXCEPT !.out = Append(o, item)]
    BY <1>1, <1>3 DEF Pours
  <2> HIDE DEF o, item, poured
  <2>4. poured = [acc EXCEPT !.out = o]
    BY <2>1 DEF o
  <2>5. poured.out = o /\ [poured EXCEPT !.out = Append(poured.out, item)] = [acc EXCEPT !.out = Append(o, item)]
    BY <2>4 DEF Accs
  <2> QED BY <2>2, <2>3, <2>5 DEF poured
<1>4. CASE acc.mode = "Thinking"
  <2>1. poured = [acc EXCEPT !.out = acc.out \o Thinking(t)]
    BY <1>4 DEF Pours
  <2> DEFINE o == acc.out \o Thinking(t)
             item == <<"thinking", s>>
  <2>2. Emit(poured, s) = [poured EXCEPT !.out = Append(poured.out, item)]
    BY <1>2, <1>4 DEF Emit
  <2>3. Pours(acc, Append(t, s)) = [acc EXCEPT !.out = Append(o, item)]
    BY <1>1, <1>4 DEF Pours
  <2> HIDE DEF o, item, poured
  <2>4. poured = [acc EXCEPT !.out = o]
    BY <2>1 DEF o
  <2>5. poured.out = o /\ [poured EXCEPT !.out = Append(poured.out, item)] = [acc EXCEPT !.out = Append(o, item)]
    BY <2>4 DEF Accs
  <2> QED BY <2>2, <2>3, <2>5 DEF poured
<1>5. CASE acc.mode = "ToolCall"
  <2>1. poured = [acc EXCEPT !.body = acc.body \o t]
    BY <1>5 DEF Pours
  <2> DEFINE b == acc.body \o t
  <2>2. Emit(poured, s) = [poured EXCEPT !.body = Append(poured.body, s)]
    BY <1>2, <1>5 DEF Emit
  <2>3. Pours(acc, Append(t, s)) = [acc EXCEPT !.body = Append(b, s)]
    BY <1>1, <1>5 DEF Pours
  <2> HIDE DEF b, poured
  <2>4. poured = [acc EXCEPT !.body = b]
    BY <2>1 DEF b
  <2>5. poured.body = b /\ [poured EXCEPT !.body = Append(poured.body, s)] = [acc EXCEPT !.body = Append(b, s)]
    BY <2>4 DEF Accs
  <2> QED BY <2>2, <2>3, <2>5 DEF poured
<1> QED BY <1>2, <1>3, <1>4, <1>5 DEF Modes

SliceGoesOn(s, a, b) == SubSeq(s, a, b) = Append(SubSeq(s, a, b - 1), s[b])

LEMMA SliceMore ==
  ASSUME NEW S, NEW s \in Seq(S), NEW a \in Nat, NEW b \in Nat, 1 <= a, a <= b, b <= Len(s)
  PROVE  SliceGoesOn(s, a, b)
<1>1. /\ SubSeq(s, a, b) \in Seq(S) /\ Len(SubSeq(s, a, b)) = b - a + 1
      /\ \A i \in 1 .. b - a + 1 : SubSeq(s, a, b)[i] = s[a + i - 1]
  BY SliceOf
<1>2. /\ SubSeq(s, a, b - 1) \in Seq(S) /\ Len(SubSeq(s, a, b - 1)) = b - a
      /\ \A i \in 1 .. b - a : SubSeq(s, a, b - 1)[i] = s[a + i - 1]
  <2>1. b - 1 \in Nat /\ b - 1 <= Len(s)
    OBVIOUS
  <2> QED BY <2>1, SliceOf
<1>3. s[b] \in S /\ s[b] = s[a + (b - a + 1) - 1]
  OBVIOUS
<1> DEFINE whole == SubSeq(s, a, b)
           part == SubSeq(s, a, b - 1)
           x == s[b]
<1> HIDE DEF whole, part, x
<1>4. /\ whole \in Seq(S) /\ part \in Seq(S) /\ x \in S
      /\ Len(whole) = b - a + 1 /\ Len(part) = b - a
  BY <1>1, <1>2, <1>3 DEF whole, part, x
<1>5. \A i \in 1 .. b - a : whole[i] = part[i]
  <2>1. \A i \in 1 .. b - a : i \in 1 .. b - a + 1
    OBVIOUS
  <2> QED BY <1>1, <1>2, <2>1 DEF whole, part
<1>6. whole[b - a + 1] = x
  BY <1>1, <1>3 DEF whole, x
<1>7. whole = Append(part, x)
  BY <1>4, <1>5, <1>6
<1> QED BY <1>7 DEF SliceGoesOn, whole, part, x

\* No part of a tag that matters stands between the two places.
Quiet(mode, c, d) == \A j \in c + 1 .. d : Wire[j] \notin Firsts(mode) \cup Seconds(mode)

\* What stands there is poured out.
LEMMA Advance ==
  ASSUME Worded, NEW c \in Nat, NEW d \in Nat, c <= d, d <= Len(Wire),
         Quiet(ReadOf[c].mode, c, d)
  PROVE  ReadOf[d] = Pours(ReadOf[c], SubSeq(Wire, c + 1, d))
<1> DEFINE acc == ReadOf[c]
           S == {j \in 0 .. d - c : ReadOf[c + j] = Pours(acc, SubSeq(Wire, c + 1, c + j))}
<1>1. Wire \in Seq(Symbols) /\ Len(Wire) \in Nat
  BY WireTyped
<1>2. acc \in Accs
  <2>1. c \in 0 .. Len(Wire)
    BY <1>1
  <2> QED BY <2>1, ReadUnfold
<1>3. 0 \in S
  <2>1. SubSeq(Wire, c + 1, c) = <<>>
    BY <1>1, SubSeqEmpty
  <2>2. Pours(acc, <<>>) = acc
    BY <1>2, PourNothing
  <2>3. c + 0 = c /\ 0 \in 0 .. d - c
    OBVIOUS
  <2> HIDE DEF acc
  <2>4. ReadOf[c + 0] = Pours(acc, SubSeq(Wire, c + 1, c + 0))
    BY <2>1, <2>2, <2>3 DEF acc
  <2> QED BY <2>3, <2>4
<1>4. ASSUME NEW j \in 1 .. d - c, j - 1 \in S PROVE j \in S
  <2> DEFINE e == c + j
             t == SubSeq(Wire, c + 1, e - 1)
  <2>1. e \in Nat /\ e \in c + 1 .. d /\ e \in 1 .. Len(Wire) /\ e - 1 \in Nat /\ c + (j - 1) = e - 1
        /\ c + 1 <= e /\ c + 1 \in Nat /\ 1 <= c + 1 /\ e - 1 <= Len(Wire) /\ e <= Len(Wire)
    BY <1>1
  <2> HIDE DEF e
  <2>2. t \in Seq(Symbols)
    BY <1>1, <2>1, SliceOf
  <2>3. Wire[e] \in Symbols /\ ReadOf[e] = Read(ReadOf[e - 1], Wire[e])
    BY <2>1, ReadUnfold
  <2>4. ReadOf[e - 1] = Pours(acc, t)
    BY <1>4, <2>1
  <2> HIDE DEF acc
  <2>5. Pours(acc, t) \in Accs /\ Pours(acc, t).mode = acc.mode
    BY <1>2, <2>2, PoursTyped
  <2>6. Wire[e] \notin Firsts(acc.mode) /\ Wire[e] \notin Seconds(acc.mode)
    BY <2>1 DEF Quiet, acc
  <2>7. Read(Pours(acc, t), Wire[e]) = Emit(Pours(acc, t), Wire[e])
    BY <2>5, <2>6 DEF Read
  <2>8. SubSeq(Wire, c + 1, e) = Append(t, Wire[e])
    <3>1. SliceGoesOn(Wire, c + 1, e)
      BY <1>1, <2>1, SliceMore
    <3> QED BY <3>1 DEF SliceGoesOn
  <2>9. Pours(acc, Append(t, Wire[e])) = Emit(Pours(acc, t), Wire[e])
    BY <1>2, <2>2, <2>3, PourMore
  <2> HIDE DEF t
  <2>10. ReadOf[e] = Pours(acc, SubSeq(Wire, c + 1, e))
    BY <2>3, <2>4, <2>7, <2>8, <2>9
  <2>11. j \in 0 .. d - c
    OBVIOUS
  <2> QED BY <2>10, <2>11 DEF e
<1>5. d - c \in Nat /\ d - c \in 0 .. d - c /\ c + (d - c) = d
  OBVIOUS
<1>6. \A j \in 0 .. d - c : j \in S
  <2> HIDE DEF S
  <2> QED BY <1>3, <1>4, <1>5, Climbs
<1>7. d - c \in S
  BY <1>5, <1>6
<1> QED BY <1>5, <1>7

\* Where no tag starts, and none has just started, there is no part of a tag.
LEMMA NoMarks ==
  ASSUME Worded, NEW mode \in Modes, NEW c \in Nat, NEW d \in Nat, d <= Len(Wire),
         c = 0 \/ Wire[c] \notin Firsts(mode),
         \A j \in c + 1 .. d : Wire[j] \notin Firsts(mode)
  PROVE  Quiet(mode, c, d)
<1> SUFFICES ASSUME NEW j \in c + 1 .. d, Wire[j] \in Seconds(mode) PROVE FALSE
  BY DEF Quiet
<1>1. PICK tag \in TagsOf(mode) : Wire[j] = Spell[tag][2]
  BY DEF Seconds
<1>2. tag \in Tags /\ Spell[tag][1] \in Firsts(mode)
  BY OnMarks
<1>3. Paired(Wire) /\ Len(Wire) \in Nat
  BY WirePaired, WireTyped
<1>4. j \in 1 .. Len(Wire)
  BY <1>3
<1>5. j > 1 /\ Wire[j - 1] = Spell[tag][1]
  BY <1>1, <1>2, <1>3, <1>4 DEF Paired
<1>6. (j - 1 = c /\ c # 0) \/ j - 1 \in c + 1 .. d
  BY <1>5
<1> QED BY <1>2, <1>5, <1>6

\* A tag that matters is read with its second half.
LEMMA TurnAt ==
  ASSUME Worded, NEW c \in Nat, NEW p \in Nat, c < p, p + 1 <= Len(Wire),
         NEW tag \in TagsOf(ReadOf[c].mode),
         Wire[p] = Spell[tag][1], Wire[p + 1] = Spell[tag][2],
         Quiet(ReadOf[c].mode, c, p - 1)
  PROVE  /\ ReadOf[p + 1] = Turn(Pours(ReadOf[c], SubSeq(Wire, c + 1, p - 1)), Spell[tag][2])
         /\ \A mode \in Modes : Wire[p + 1] \notin Firsts(mode)
<1> DEFINE acc == ReadOf[c]
           poured == Pours(acc, SubSeq(Wire, c + 1, p - 1))
           b == p - 1
           e == p + 1
<1>1. Wire \in Seq(Symbols) /\ Len(Wire) \in Nat
  BY WireTyped
<1>2. /\ b \in Nat /\ c <= b /\ b <= Len(Wire) /\ c \in 0 .. Len(Wire) /\ c + 1 \in Nat /\ 1 <= c + 1
      /\ p \in 1 .. Len(Wire) /\ e \in 1 .. Len(Wire) /\ e - 1 = p /\ p - 1 = b
  BY <1>1
<1>3. acc \in Accs /\ acc.mode \in Modes
  BY <1>2, ReadUnfold, AccOf
<1>4. SubSeq(Wire, c + 1, b) \in Seq(Symbols)
  BY <1>1, <1>2, SliceOf
<1>5. poured \in Accs /\ poured.mode = acc.mode
  BY <1>3, <1>4, PoursTyped
<1> HIDE DEF b, e
<1>6. ReadOf[b] = Pours(acc, SubSeq(Wire, c + 1, b))
  BY <1>2, Advance DEF b
<1>7. ReadOf[b] = poured
  BY <1>6 DEF b
<1>8. /\ tag \in Tags /\ Spell[tag][1] \in Firsts(acc.mode)
      /\ Spell[tag][2] \in Seconds(acc.mode) /\ Spell[tag][2] \notin Firsts(acc.mode)
  BY <1>3, OnMarks
<1> HIDE DEF poured, acc
<1>9. ReadOf[p] = Read(ReadOf[b], Wire[p]) /\ ReadOf[e] = Read(ReadOf[p], Wire[e])
  BY <1>2, ReadUnfold
<1>10. ReadOf[p] = poured
  BY <1>5, <1>7, <1>8, <1>9 DEF Read
<1>11. Wire[e] = Spell[tag][2]
  BY DEF e
<1>12. ReadOf[e] = Turn(poured, Spell[tag][2])
  BY <1>5, <1>8, <1>9, <1>10, <1>11 DEF Read
<1>13. \A mode \in Modes : Wire[e] \notin Firsts(mode)
  <2>1. \A mode \in Modes : TagsOf(mode) \subseteq Tags
    BY DEF TagsOf, Tags
  <2> QED BY <1>8, <1>11, <2>1, HalvesApart DEF Firsts
<1> QED BY <1>12, <1>13 DEF e, poured, acc

-----------------------------------------------------------------------------
(* What was said is not taken back.                                        *)

LEMMA BeginsOn ==
  ASSUME NEW q, NEW r, NEW s, Len(q) \in Nat, Len(r) \in Nat, Len(s) \in Nat
  PROVE  Begins(q, q) /\ (Begins(q, r) /\ Begins(r, s) => Begins(q, s))
BY DEF Begins

LEMMA BeginsMore ==
  ASSUME NEW Items0, NEW done \in Seq(Items0), NEW more \in Seq(Items0), NEW one \in Items0
  PROVE  Begins(done, done \o more) /\ Begins(done, Append(done, one))
<1>1. /\ Len(done \o more) = Len(done) + Len(more) /\ Len(done) \in Nat /\ Len(more) \in Nat
      /\ \A i \in 1 .. Len(done) : (done \o more)[i] = done[i]
  OBVIOUS
<1>2. /\ Len(Append(done, one)) = Len(done) + 1
      /\ \A i \in 1 .. Len(done) : Append(done, one)[i] = done[i]
  OBVIOUS
<1> QED BY <1>1, <1>2 DEF Begins

LEMMA ReadGrows ==
  ASSUME NEW acc \in Accs, NEW s \in Symbols
  PROVE  Begins(acc.out, Read(acc, s).out)
<1>1. acc.mode \in Modes /\ acc.body \in Seq(Symbols) /\ acc.out \in Seq(Items)
  BY AccOf
<1>2. Begins(acc.out, acc.out)
  BY <1>1 DEF Begins
<1>3. Begins(acc.out, Emit(acc, s).out)
  <2>1. <<"text", s>> \in Items /\ <<"thinking", s>> \in Items
    BY ItemsAre
  <2>2. Begins(acc.out, Append(acc.out, <<"text", s>>)) /\ Begins(acc.out, Append(acc.out, <<"thinking", s>>))
    BY <1>1, <2>1, BeginsMore, ItemsAre
  <2>3. Emit(acc, s).out \in {acc.out, Append(acc.out, <<"text", s>>), Append(acc.out, <<"thinking", s>>)}
    <3> DEFINE a == Append(acc.out, <<"text", s>>)
               b == Append(acc.out, <<"thinking", s>>)
               c == Append(acc.body, s)
    <3>1. \/ Emit(acc, s) = [acc EXCEPT !.out = a]
          \/ Emit(acc, s) = [acc EXCEPT !.out = b]
          \/ Emit(acc, s) = [acc EXCEPT !.body = c]
      BY DEF Emit
    <3> HIDE DEF a, b, c
    <3>2. Emit(acc, s).out \in {acc.out, a, b}
      BY <3>1 DEF Accs
    <3> QED BY <3>2 DEF a, b
  <2> QED BY <1>2, <2>2, <2>3
<1>4. Begins(acc.out, Turn(acc, s).out)
  <2>1. ThinkingEnd \in Seq(Items) /\ ToolCall(acc.body) \in Seq(Items)
    BY <1>1, ItemsAre
  <2> DEFINE a == acc.out \o ThinkingEnd
             b == acc.out \o ToolCall(acc.body)
  <2>2. Begins(acc.out, a) /\ Begins(acc.out, b)
    BY <1>1, <2>1, BeginsMore, ItemsAre
  <2>3. \/ Turn(acc, s) = [acc EXCEPT !.mode = "Thinking"]
        \/ Turn(acc, s) = [acc EXCEPT !.mode = "ToolCall"]
        \/ Turn(acc, s) = [acc EXCEPT !.mode = "Text", !.out = a]
        \/ Turn(acc, s) = [mode |-> "Text", body |-> <<>>, out |-> b]
    BY DEF Turn
  <2> HIDE DEF a, b
  <2>4. /\ [acc EXCEPT !.mode = "Thinking"].out = acc.out /\ [acc EXCEPT !.mode = "ToolCall"].out = acc.out
        /\ [acc EXCEPT !.mode = "Text", !.out = a].out = a
        /\ [mode |-> "Text", body |-> <<>>, out |-> b].out = b
    BY DEF Accs
  <2> QED BY <1>2, <2>2, <2>3, <2>4, Zenon
<1> QED BY <1>2, <1>3, <1>4 DEF Read

LEMMA Monotone ==
  ASSUME Worded, NEW c \in 0 .. Len(Wire)
  PROVE  Begins(ReadOf[c].out, ReadOf[Len(Wire)].out)
<1>1. Len(Wire) \in Nat /\ Wire \in Seq(Symbols)
  BY WireTyped
<1>2. \A j \in 0 .. Len(Wire) : ReadOf[j] \in Accs /\ ReadOf[j].out \in Seq(Items) /\ Len(ReadOf[j].out) \in Nat
  <2>1. \A j \in 0 .. Len(Wire) : ReadOf[j] \in Accs
    BY ReadUnfold
  <2>2. \A acc \in Accs : acc.out \in Seq(Items) /\ Len(acc.out) \in Nat
    BY DEF Accs
  <2> QED BY <2>1, <2>2
<1> DEFINE S == {j \in 0 .. Len(Wire) : c <= j => Begins(ReadOf[c].out, ReadOf[j].out)}
<1>3. Begins(ReadOf[c].out, ReadOf[c].out)
  BY <1>2 DEF Begins
<1>4. 0 \in S
  <2>1. c <= 0 => c = 0
    OBVIOUS
  <2>2. 0 \in 0 .. Len(Wire)
    BY <1>1
  <2> QED BY <1>3, <2>1, <2>2
<1>5. ASSUME NEW j \in 1 .. Len(Wire), j - 1 \in S PROVE j \in S
  <2>1. j \in 0 .. Len(Wire) /\ j - 1 \in 0 .. Len(Wire) /\ (c <= j => c <= j - 1 \/ j = c)
    BY <1>1
  <2>2. Wire[j] \in Symbols /\ ReadOf[j] = Read(ReadOf[j - 1], Wire[j])
    BY ReadUnfold
  <2>3. Begins(ReadOf[j - 1].out, ReadOf[j].out)
    BY <1>2, <2>1, <2>2, ReadGrows
  <2>4. ASSUME c <= j PROVE Begins(ReadOf[c].out, ReadOf[j].out)
    <3>1. CASE j = c
      BY <1>3, <3>1
    <3>2. CASE c <= j - 1
      <4>1. Begins(ReadOf[c].out, ReadOf[j - 1].out)
        BY <1>5, <3>2
      <4> QED BY <1>2, <2>1, <2>3, <4>1, BeginsOn
    <3> QED BY <2>1, <2>4, <3>1, <3>2
  <2> QED BY <2>1, <2>4
<1>6. \A j \in 0 .. Len(Wire) : j \in S
  <2> HIDE DEF S
  <2> QED BY <1>1, <1>4, <1>5, Climbs
<1>7. Len(Wire) \in 0 .. Len(Wire) /\ c <= Len(Wire)
  BY <1>1
<1> QED BY <1>6, <1>7

-----------------------------------------------------------------------------
(* The inductive invariant.                                                *)

\* What the parser has done is what the first c symbols of ds say, and the rest
\* of what has come is in the lookahead; no tag is cut at c.
Followed(c, d, mode, body, sent, ahead) ==
  /\ ahead = SubSeq(Wire, c + 1, d)
  /\ ReadOf[c] = [mode |-> mode, body |-> body, out |-> sent]
  /\ c = 0 \/ Wire[c] \notin Firsts(mode)

\* The places in the lookahead where a tag that matters starts.
Marks(c, d, mode) == {p \in c + 1 .. d - 1 : Wire[p] \in Firsts(mode)}

\* Two tags never end in one token, and so the order in which they are looked for
\* is their order; and the closing tag of a tool call is not cut.
Legible ==
  /\ MaxToken <= 2 \/ ~({"think", "call"} \subseteq Words)
  /\ "uncall" \in Whole \/ "uncall" \notin Words

Between(c) ==
  /\ Followed(c, fed, state, buffer, out, lookahead)
  /\ pc = "recv" => /\ Marks(c, fed, state) = {}
                    /\ state = "ToolCall" => c = fed
  /\ pc = "process" => /\ fed \notin Inside
                       /\ MaxToken <= 2 => \A p \in Marks(c, fed, state) : p + 2 >= fed

Inv ==
  /\ words \in Seq(Words)
  /\ fed \in 0 .. Len(Wire) /\ pc \in {"recv", "process", "done"}
  /\ pc # "done" => \E c \in 0 .. fed : Between(c)
  /\ pc = "done" => out = Meaning.out

LEMMA WordsAre ==
  ASSUME NEW w \in Words
  PROVE  w \in AllWords
<1>1. DOMAIN Spell = AllWords
  BY DEF Spell, AllWords, Tags
<1> QED BY <1>1, WordsAssumption

LEMMA WordsWorded ==
  ASSUME words \in Seq(Words)
  PROVE  Worded
<1>1. Words \subseteq AllWords
  BY WordsAre
<1> QED BY <1>1 DEF Worded

\* The symbols of a step's response are those of the step before.
LEMMA Same ==
  ASSUME words' = words
  PROVE  /\ Wire' = Wire /\ ReadOf' = ReadOf /\ Inside' = Inside /\ Meaning' = Meaning
<1>1. WireOf' = WireOf
  BY DEF WireOf
<1>2. Wire' = Wire
  BY <1>1 DEF Wire
<1>3. Inside' = Inside
  BY <1>1 DEF Inside
<1>4. MeaningOf' = MeaningOf
  BY DEF MeaningOf
<1>5. Meaning' = Meaning
  BY <1>4 DEF Meaning
<1>6. ReadOf' = ReadOf
  BY <1>2 DEF ReadOf
<1> QED BY <1>2, <1>3, <1>5, <1>6

\* The tags in a lookahead are those of the response.
LEMMA StartsAre ==
  ASSUME Worded, NEW c \in Nat, NEW d \in Nat, c <= d, d <= Len(Wire), NEW tag \in Tags
  PROVE  /\ Starts(SubSeq(Wire, c + 1, d), tag) \in SUBSET (Nat \ {0})
         /\ \A i \in Starts(SubSeq(Wire, c + 1, d), tag) :
              /\ c + i + 1 <= d /\ Wire[c + i] = Spell[tag][1] /\ Wire[c + i + 1] = Spell[tag][2]
         /\ \A p \in c + 1 .. d - 1 : Wire[p] = Spell[tag][1] =>
              p - c \in Starts(SubSeq(Wire, c + 1, d), tag)
<1> DEFINE s == SubSeq(Wire, c + 1, d)
<1>1. Wire \in Seq(Symbols) /\ Len(Wire) \in Nat /\ Paired(Wire)
  BY WireTyped, WirePaired
<1>2. Len(s) = d - c /\ \A i \in 1 .. d - c : s[i] = Wire[c + i]
  <2>1. c + 1 \in Nat /\ 1 <= c + 1
    OBVIOUS
  <2>2. /\ Len(s) = (IF c + 1 <= d THEN d - (c + 1) + 1 ELSE 0)
        /\ \A i \in 1 .. d - (c + 1) + 1 : s[i] = Wire[(c + 1) + i - 1]
    BY <1>1, <2>1, SliceOf
  <2>3. (IF c + 1 <= d THEN d - (c + 1) + 1 ELSE 0) = d - c /\ d - (c + 1) + 1 = d - c
    OBVIOUS
  <2>4. \A i \in 1 .. d - c : (c + 1) + i - 1 = c + i
    OBVIOUS
  <2> HIDE DEF s
  <2> QED BY <2>2, <2>3, <2>4
<1> DEFINE first == Spell[tag][1]
           second == Spell[tag][2]
<1>3. Starts(s, tag) = {i \in 1 .. Len(s) - 1 : s[i] = first /\ s[i + 1] = second}
  BY DEF Starts
<1>4. \A p \in 1 .. Len(Wire) : Wire[p] = first => p + 1 <= Len(Wire) /\ Wire[p + 1] = second
  BY <1>1 DEF Paired
<1> HIDE DEF s, first, second
<1>5. Starts(s, tag) \in SUBSET (Nat \ {0})
  BY <1>2, <1>3
<1>6. ASSUME NEW i \in Starts(s, tag)
      PROVE  c + i + 1 <= d /\ Wire[c + i] = first /\ Wire[c + i + 1] = second
  <2>1. i \in 1 .. d - c /\ i + 1 \in 1 .. d - c /\ s[i] = first /\ s[i + 1] = second /\ c + (i + 1) = c + i + 1
    BY <1>2, <1>3, <1>6
  <2> QED BY <1>2, <2>1
<1>7. ASSUME NEW p \in c + 1 .. d - 1, Wire[p] = first PROVE p - c \in Starts(s, tag)
  <2>1. p \in 1 .. Len(Wire) /\ p - c \in 1 .. d - c /\ p - c \in 1 .. Len(s) - 1 /\ (p - c) + 1 \in 1 .. d - c
        /\ c + (p - c) = p /\ c + ((p - c) + 1) = p + 1
    BY <1>1, <1>2
  <2>2. Wire[p + 1] = second
    BY <1>4, <1>7, <2>1
  <2>3. s[p - c] = first /\ s[(p - c) + 1] = second
    BY <1>2, <1>7, <2>1, <2>2
  <2> QED BY <1>3, <2>1, <2>3
<1> QED BY <1>5, <1>6, <1>7 DEF s, first, second

LEMMA FindOf ==
  ASSUME NEW s, NEW tag, Has(s, tag), Starts(s, tag) \in SUBSET (Nat \ {0})
  PROVE  Find(s, tag) \in Starts(s, tag) /\ \A k \in Starts(s, tag) : Find(s, tag) <= k
<1> DEFINE S == Starts(s, tag)
<1>1. S \in SUBSET Nat /\ S # {}
  BY DEF Has
<1> HIDE DEF S
<1>2. \E m \in S : \A k \in S : m <= k
  BY <1>1, LeastOf
<1> QED BY <1>2 DEF Find, S

\* A slice of a slice.
Within(s, a, b, k) ==
  /\ SubSeq(SubSeq(s, a, b), 1, k) = SubSeq(s, a, a + k - 1)
  /\ SubSeq(SubSeq(s, a, b), k + 1, Len(SubSeq(s, a, b))) = SubSeq(s, a + k, b)

LEMMA SliceOfSlice ==
  ASSUME NEW S, NEW s \in Seq(S), NEW a \in Nat, NEW b \in Nat, NEW k \in Nat,
         1 <= a, b <= Len(s), k <= b - a + 1
  PROVE  Within(s, a, b, k)
<1> DEFINE part == SubSeq(s, a, b)
<1>1. /\ Len(part) = b - a + 1 /\ part \in Seq(S)
      /\ \A i \in 1 .. b - a + 1 : part[i] = s[a + i - 1]
  <2>1. a <= b => Len(part) = b - a + 1
    BY SliceOf
  <2>2. a > b => Len(part) = 0 /\ b - a + 1 = 0
    BY SliceOf
  <2> QED BY <2>1, <2>2, SliceOf
<1> DEFINE left == SubSeq(part, 1, k)
           right == SubSeq(part, k + 1, Len(part))
           l == SubSeq(s, a, a + k - 1)
           r == SubSeq(s, a + k, b)
<1>2. Len(left) = k /\ left \in Seq(S) /\ \A i \in 1 .. k : left[i] = s[a + i - 1]
  <2> HIDE DEF part
  <2> QED BY <1>1
<1>3. Len(l) = k /\ l \in Seq(S) /\ \A i \in 1 .. k : l[i] = s[a + i - 1]
  BY <1>1
<1>4. Len(right) = b - a + 1 - k /\ right \in Seq(S)
      /\ \A i \in 1 .. b - a + 1 - k : right[i] = s[a + k + i - 1]
  <2> HIDE DEF part
  <2> QED BY <1>1
<1>5. Len(r) = b - a + 1 - k /\ r \in Seq(S)
      /\ \A i \in 1 .. b - a + 1 - k : r[i] = s[a + k + i - 1]
  BY <1>1
<1> HIDE DEF left, right, l, r
<1>6. left = l
  <2>1. \A i \in 1 .. k : left[i] = l[i]
    BY <1>2, <1>3
  <2>2. left \in Seq(S) /\ l \in Seq(S) /\ Len(left) = Len(l) /\ \A i \in 1 .. Len(left) : left[i] = l[i]
    BY <1>2, <1>3, <2>1
  <2> QED BY ONLY <2>2, SeqEqual
<1>7. right = r
  <2>1. \A i \in 1 .. b - a + 1 - k : right[i] = r[i]
    BY <1>4, <1>5
  <2>2. right \in Seq(S) /\ r \in Seq(S) /\ Len(right) = Len(r) /\ \A i \in 1 .. Len(right) : right[i] = r[i]
    BY <1>4, <1>5, <2>1
  <2> QED BY ONLY <2>2, SeqEqual
<1> QED BY <1>6, <1>7 DEF Within, left, right, l, r, part

\* Where a tag is found, and where none is.
FoundAt(c, d, tag, i) ==
  /\ i \in Nat \ {0} /\ c + i + 1 <= d
  /\ Wire[c + i] = Spell[tag][1] /\ Wire[c + i + 1] = Spell[tag][2]
  /\ \A p \in c + 1 .. c + i - 1 : Wire[p] # Spell[tag][1]

LEMMA FindAt ==
  ASSUME Worded, NEW c \in Nat, NEW d \in Nat, c <= d, d <= Len(Wire),
         NEW ahead, ahead = SubSeq(Wire, c + 1, d), NEW tag \in Tags, Has(ahead, tag)
  PROVE  FoundAt(c, d, tag, Find(ahead, tag))
<1>1. /\ Starts(ahead, tag) \in SUBSET (Nat \ {0})
      /\ \A i \in Starts(ahead, tag) :
           c + i + 1 <= d /\ Wire[c + i] = Spell[tag][1] /\ Wire[c + i + 1] = Spell[tag][2]
      /\ \A p \in c + 1 .. d - 1 : Wire[p] = Spell[tag][1] => p - c \in Starts(ahead, tag)
  BY StartsAre
<1> DEFINE i == Find(ahead, tag)
<1>2. i \in Starts(ahead, tag) /\ \A k \in Starts(ahead, tag) : i <= k
  BY <1>1, FindOf
<1> HIDE DEF i
<1>3. i \in Nat \ {0} /\ c + i + 1 <= d /\ Wire[c + i] = Spell[tag][1] /\ Wire[c + i + 1] = Spell[tag][2]
  BY <1>1, <1>2
<1>4. \A p \in c + 1 .. c + i - 1 : Wire[p] # Spell[tag][1]
  <2>1. SUFFICES ASSUME NEW p \in c + 1 .. c + i - 1, Wire[p] = Spell[tag][1] PROVE FALSE
    OBVIOUS
  <2>2. p \in c + 1 .. d - 1 /\ ~(i <= p - c)
    BY <1>3
  <2> QED BY <1>1, <1>2, <2>1, <2>2
<1> QED BY <1>3, <1>4 DEF FoundAt, i

LEMMA NotFound ==
  ASSUME Worded, NEW c \in Nat, NEW d \in Nat, c <= d, d <= Len(Wire),
         NEW ahead, ahead = SubSeq(Wire, c + 1, d), NEW tag \in Tags, ~Has(ahead, tag)
  PROVE  \A p \in c + 1 .. d - 1 : Wire[p] # Spell[tag][1]
BY StartsAre DEF Has

\* No tag that matters starts between the two places.
Unmarked(mode, c, d) == \A p \in c + 1 .. d : Wire[p] \notin Firsts(mode)

\* The parser at a tag.
CutTo(c, d, ahead, tag, e) ==
  /\ e = c + Find(ahead, tag) + 1
  /\ After(ahead, tag) = SubSeq(Wire, e + 1, d)
  /\ ReadOf[e] = Turn(Pours(ReadOf[c], Before(ahead, tag)), Spell[tag][2])
  /\ \A mode \in Modes : Wire[e] \notin Firsts(mode)

LEMMA CutAt ==
  ASSUME Worded, NEW c \in Nat, NEW d \in Nat, c <= d, d <= Len(Wire),
         NEW ahead, ahead = SubSeq(Wire, c + 1, d),
         NEW tag \in TagsOf(ReadOf[c].mode), Has(ahead, tag),
         c = 0 \/ Wire[c] \notin Firsts(ReadOf[c].mode),
         Unmarked(ReadOf[c].mode, c, c + Find(ahead, tag) - 1)
  PROVE  \E e \in c + 2 .. d : CutTo(c, d, ahead, tag, e)
<1> DEFINE i == Find(ahead, tag)
           e == c + i + 1
           acc == ReadOf[c]
<1>1. Wire \in Seq(Symbols) /\ Len(Wire) \in Nat
  BY WireTyped
<1>2. c \in 0 .. Len(Wire) /\ acc \in Accs /\ acc.mode \in Modes
  <2>1. c \in 0 .. Len(Wire)
    BY <1>1
  <2> QED BY <2>1, ReadUnfold, AccOf
<1>3. tag \in Tags /\ Spell[tag][1] \in Firsts(acc.mode)
  BY <1>2, OnMarks
<1>4. /\ i \in Nat \ {0} /\ c + i + 1 <= d
      /\ Wire[c + i] = Spell[tag][1] /\ Wire[c + i + 1] = Spell[tag][2]
  <2>1. FoundAt(c, d, tag, i)
    BY <1>3, FindAt
  <2> HIDE DEF i
  <2> QED BY <2>1 DEF FoundAt
<1>5. \A p \in c + 1 .. c + i - 1 : Wire[p] \notin Firsts(acc.mode)
  BY DEF Unmarked
<1>6. Len(ahead) = d - c /\ ahead \in Seq(Symbols)
  <2>1. c + 1 \in Nat /\ 1 <= c + 1 /\ d - (c + 1) + 1 = d - c
    OBVIOUS
  <2>2. /\ ahead \in Seq(Symbols)
        /\ Len(ahead) = (IF c + 1 <= d THEN d - (c + 1) + 1 ELSE 0)
    BY <1>1, <2>1, SliceOf
  <2> QED BY <2>1, <2>2
<1> HIDE DEF i
<1> DEFINE p == c + i
<1>7. /\ p \in Nat /\ c < p /\ p + 1 <= Len(Wire) /\ p - 1 \in Nat /\ c <= p - 1 /\ p - 1 <= Len(Wire)
      /\ e \in c + 2 .. d /\ e = p + 1 /\ c + 1 \in Nat /\ 1 <= c + 1 /\ c + i - 1 = p - 1
      /\ i - 1 \in Nat /\ i - 1 <= d - (c + 1) + 1 /\ (c + 1) + (i - 1) - 1 = p - 1
      /\ i + 1 \in Nat /\ i + 1 <= d - (c + 1) + 1 /\ (c + 1) + (i + 1) = e + 1 /\ (i + 1) + 1 = i + 2
  BY <1>1, <1>4
<1>8. Quiet(acc.mode, c, p - 1)
  BY <1>2, <1>5, <1>7, NoMarks
<1>9. Wire[p] = Spell[tag][1] /\ Wire[p + 1] = Spell[tag][2]
  BY <1>4
<1> HIDE DEF p
<1>10. /\ ReadOf[p + 1] = Turn(Pours(acc, SubSeq(Wire, c + 1, p - 1)), Spell[tag][2])
       /\ \A mode \in Modes : Wire[p + 1] \notin Firsts(mode)
  BY <1>7, <1>8, <1>9, TurnAt
<1>11. SubSeq(ahead, 1, i - 1) = SubSeq(Wire, c + 1, p - 1)
  <2>1. Within(Wire, c + 1, d, i - 1)
    BY <1>1, <1>7, SliceOfSlice
  <2> QED BY <1>7, <2>1 DEF Within
<1>12. SubSeq(ahead, i + 2, Len(ahead)) = SubSeq(Wire, e + 1, d)
  <2>1. Within(Wire, c + 1, d, i + 1)
    BY <1>1, <1>7, SliceOfSlice
  <2>2. SubSeq(ahead, (i + 1) + 1, Len(ahead)) = SubSeq(Wire, (c + 1) + (i + 1), d)
    BY <2>1 DEF Within
  <2> HIDE DEF e
  <2> QED BY <1>7, <2>2
<1>13. Before(ahead, tag) = SubSeq(Wire, c + 1, p - 1) /\ After(ahead, tag) = SubSeq(Wire, e + 1, d)
  BY <1>11, <1>12 DEF Before, After, i
<1> HIDE DEF e
<1>15. e = c + Find(ahead, tag) + 1
  BY DEF e, i
<1>16. e \in c + 2 .. d /\ e = p + 1
  BY <1>7
<1>17. /\ ReadOf[e] = Turn(Pours(acc, Before(ahead, tag)), Spell[tag][2])
       /\ \A mode \in Modes : Wire[e] \notin Firsts(mode)
  BY <1>10, <1>13, <1>16, Zenon
<1> QED BY <1>13, <1>15, <1>16, <1>17 DEF CutTo

\* The parser between two tags.
HeldTo(c, d, ahead, k, e) ==
  /\ e = c + k
  /\ SubSeq(ahead, k + 1, Len(ahead)) = SubSeq(Wire, e + 1, d)
  /\ ReadOf[e] = Pours(ReadOf[c], SubSeq(ahead, 1, k))
  /\ e = 0 \/ Wire[e] \notin Firsts(ReadOf[c].mode)

LEMMA HoldAt ==
  ASSUME Worded, NEW c \in Nat, NEW d \in Nat, c <= d, d <= Len(Wire),
         NEW ahead, ahead = SubSeq(Wire, c + 1, d), NEW k \in Nat, k <= Len(ahead),
         c = 0 \/ Wire[c] \notin Firsts(ReadOf[c].mode),
         Unmarked(ReadOf[c].mode, c, c + k)
  PROVE  \E e \in c .. d : HeldTo(c, d, ahead, k, e)
<1> DEFINE e == c + k
           acc == ReadOf[c]
<1>1. Wire \in Seq(Symbols) /\ Len(Wire) \in Nat
  BY WireTyped
<1>2. c \in 0 .. Len(Wire) /\ acc \in Accs /\ acc.mode \in Modes
  <2>1. c \in 0 .. Len(Wire)
    BY <1>1
  <2> QED BY <2>1, ReadUnfold, AccOf
<1>3. Len(ahead) = d - c
  <2>1. c + 1 \in Nat /\ 1 <= c + 1 /\ d - (c + 1) + 1 = d - c
    OBVIOUS
  <2>2. Len(ahead) = (IF c + 1 <= d THEN d - (c + 1) + 1 ELSE 0)
    BY <1>1, <2>1, SliceOf
  <2> QED BY <2>1, <2>2
<1>4. /\ e \in Nat /\ c <= e /\ e <= Len(Wire) /\ e \in c .. d /\ c + 1 \in Nat /\ 1 <= c + 1
      /\ k <= d - (c + 1) + 1 /\ (c + 1) + k - 1 = e /\ (c + 1) + k = e + 1
      /\ (e = c \/ e \in c + 1 .. e)
  BY <1>1, <1>3
<1>0. \A p \in c + 1 .. e : Wire[p] \notin Firsts(acc.mode)
  BY DEF Unmarked
<1>5. Quiet(acc.mode, c, e)
  BY <1>0, <1>2, <1>4, NoMarks
<1>6. e = 0 \/ Wire[e] \notin Firsts(acc.mode)
  BY <1>0, <1>4
<1> HIDE DEF e
<1>7. ReadOf[e] = Pours(acc, SubSeq(Wire, c + 1, e))
  BY <1>4, <1>5, Advance
<1>8. Within(Wire, c + 1, d, k)
  BY <1>1, <1>4, SliceOfSlice
<1>9. SubSeq(ahead, 1, k) = SubSeq(Wire, c + 1, e) /\ SubSeq(ahead, k + 1, Len(ahead)) = SubSeq(Wire, e + 1, d)
  BY <1>4, <1>8 DEF Within
<1>10. e = c + k
  BY DEF e
<1>11. ReadOf[e] = Pours(acc, SubSeq(ahead, 1, k))
  BY <1>7, <1>9, Zenon
<1> QED BY <1>4, <1>6, <1>9, <1>10, <1>11 DEF HeldTo

-----------------------------------------------------------------------------
(* The parts of what ReadOf says.                                          *)

Poured(b, o, t) ==
  /\ Pours([mode |-> "Text", body |-> b, out |-> o], t)
       = [mode |-> "Text", body |-> b, out |-> o \o Text(t)]
  /\ Pours([mode |-> "Thinking", body |-> b, out |-> o], t)
       = [mode |-> "Thinking", body |-> b, out |-> o \o Thinking(t)]
  /\ Pours([mode |-> "ToolCall", body |-> b, out |-> o], t)
       = [mode |-> "ToolCall", body |-> b \o t, out |-> o]

LEMMA PoursParts ==
  ASSUME NEW b, NEW o, NEW t
  PROVE  Poured(b, o, t)
BY DEF Pours, Poured

Turned(b, o, t) ==
  /\ Turn(Pours([mode |-> "Text", body |-> b, out |-> o], t), Spell["think"][2])
       = [mode |-> "Thinking", body |-> b, out |-> o \o Text(t)]
  /\ Turn(Pours([mode |-> "Text", body |-> b, out |-> o], t), Spell["call"][2])
       = [mode |-> "ToolCall", body |-> b, out |-> o \o Text(t)]
  /\ Turn(Pours([mode |-> "Thinking", body |-> b, out |-> o], t), Spell["unthink"][2])
       = [mode |-> "Text", body |-> b, out |-> o \o Thinking(t) \o ThinkingEnd]
  /\ Turn(Pours([mode |-> "ToolCall", body |-> b, out |-> o], t), Spell["uncall"][2])
       = [mode |-> "Text", body |-> <<>>, out |-> o \o ToolCall(b \o t)]

LEMMA TurnParts ==
  ASSUME NEW b, NEW o, NEW t
  PROVE  Turned(b, o, t)
<1> DEFINE said == o \o Text(t)
           thought == o \o Thinking(t)
           called == b \o t
<1>1. /\ Pours([mode |-> "Text", body |-> b, out |-> o], t)
           = [mode |-> "Text", body |-> b, out |-> said]
      /\ Pours([mode |-> "Thinking", body |-> b, out |-> o], t)
           = [mode |-> "Thinking", body |-> b, out |-> thought]
      /\ Pours([mode |-> "ToolCall", body |-> b, out |-> o], t)
           = [mode |-> "ToolCall", body |-> called, out |-> o]
  <2>1. Poured(b, o, t)
    BY PoursParts
  <2> QED BY <2>1 DEF Poured
<1> HIDE DEF said, thought, called
<1>2. /\ Turn([mode |-> "Text", body |-> b, out |-> said], Spell["think"][2])
           = [mode |-> "Thinking", body |-> b, out |-> said]
      /\ Turn([mode |-> "Text", body |-> b, out |-> said], Spell["call"][2])
           = [mode |-> "ToolCall", body |-> b, out |-> said]
      /\ Turn([mode |-> "Thinking", body |-> b, out |-> thought], Spell["unthink"][2])
           = [mode |-> "Text", body |-> b, out |-> thought \o ThinkingEnd]
      /\ Turn([mode |-> "ToolCall", body |-> called, out |-> o], Spell["uncall"][2])
           = [mode |-> "Text", body |-> <<>>, out |-> o \o ToolCall(called)]
  BY HalvesOf DEF Turn
<1> QED BY <1>1, <1>2, Zenon DEF Turned, said, thought, called

-----------------------------------------------------------------------------
(* The steps.                                                              *)

LEMMA FirstsOf ==
  /\ Firsts("Text") = {"<th", "<ca"} /\ Firsts("Thinking") = {"</th"} /\ Firsts("ToolCall") = {"</ca"}
  /\ TagsOf("Text") = {"think", "call"} /\ TagsOf("Thinking") = {"unthink"}
  /\ TagsOf("ToolCall") = {"uncall"}
  /\ TagsOf("Text") \subseteq Tags /\ TagsOf("Thinking") \subseteq Tags /\ TagsOf("ToolCall") \subseteq Tags
BY HalvesOf DEF Firsts, TagsOf, Tags

\* Where the parser is, between Init and Flush.
Here(c) ==
  /\ Worded /\ words \in Seq(Words)
  /\ fed \in Nat /\ fed <= Len(Wire) /\ Len(Wire) \in Nat /\ c \in Nat /\ c <= fed
  /\ lookahead = SubSeq(Wire, c + 1, fed) /\ Len(lookahead) = fed - c /\ lookahead \in Seq(Symbols)
  /\ ReadOf[c] = [mode |-> state, body |-> buffer, out |-> out]
  /\ ReadOf[c].mode = state /\ state \in Modes
  /\ c = 0 \/ Wire[c] \notin Firsts(state)
  /\ pc = "recv" => /\ Marks(c, fed, state) = {}
                    /\ state = "ToolCall" => c = fed
  /\ pc = "process" => /\ fed \notin Inside
                       /\ MaxToken <= 2 => \A p \in Marks(c, fed, state) : p + 2 >= fed

LEMMA SomewhereHere ==
  ASSUME Inv, pc # "done"
  PROVE  \E c \in Nat : Here(c)
<1>1. PICK c \in 0 .. fed : Between(c)
  BY DEF Inv
<1>2. Worded /\ words \in Seq(Words) /\ fed \in 0 .. Len(Wire)
  BY WordsWorded DEF Inv
<1>3. Wire \in Seq(Symbols) /\ Len(Wire) \in Nat
  BY <1>2, WireTyped
<1>4. fed \in Nat /\ fed <= Len(Wire) /\ c \in Nat /\ c <= fed /\ c \in 0 .. Len(Wire)
      /\ c + 1 \in Nat /\ 1 <= c + 1 /\ fed - (c + 1) + 1 = fed - c
  BY <1>2, <1>3
<1>5. /\ lookahead = SubSeq(Wire, c + 1, fed)
      /\ ReadOf[c] = [mode |-> state, body |-> buffer, out |-> out]
      /\ c = 0 \/ Wire[c] \notin Firsts(state)
  BY <1>1 DEF Between, Followed
<1>6. lookahead \in Seq(Symbols) /\ Len(lookahead) = fed - c
  <2>1. /\ lookahead \in Seq(Symbols)
        /\ Len(lookahead) = (IF c + 1 <= fed THEN fed - (c + 1) + 1 ELSE 0)
    BY <1>3, <1>4, <1>5, SliceOf
  <2> QED BY <1>4, <2>1
<1>7. ReadOf[c].mode = state
  BY <1>5
<1>8. ReadOf[c].mode \in Modes
  BY <1>2, <1>4, ReadUnfold, AccOf
<1>9. /\ pc = "recv" => /\ Marks(c, fed, state) = {}
                        /\ state = "ToolCall" => c = fed
      /\ pc = "process" => /\ fed \notin Inside
                           /\ MaxToken <= 2 => \A p \in Marks(c, fed, state) : p + 2 >= fed
  BY <1>1 DEF Between
<1> QED BY <1>2, <1>3, <1>4, <1>5, <1>6, <1>7, <1>8, <1>9 DEF Here

LEMMA Carried ==
  ASSUME words' = words, words \in Seq(Words), fed' \in 0 .. Len(Wire), pc' \in {"recv", "process"},
         NEW e \in 0 .. fed',
         Followed(e, fed', state', buffer', out', lookahead'),
         pc' = "recv" => Marks(e, fed', state') = {} /\ (state' = "ToolCall" => e = fed'),
         pc' = "process" => /\ fed' \notin Inside
                            /\ MaxToken <= 2 => \A p \in Marks(e, fed', state') : p + 2 >= fed'
  PROVE  Inv'
<1>1. Wire' = Wire /\ ReadOf' = ReadOf /\ Inside' = Inside
  BY Same
<1>2. /\ lookahead' = SubSeq(Wire', e + 1, fed')
      /\ ReadOf'[e] = [mode |-> state', body |-> buffer', out |-> out']
      /\ e = 0 \/ Wire'[e] \notin Firsts(state')
  BY <1>1 DEF Followed
<1>3. (Marks(e, fed, state))' = Marks(e, fed', state')
  BY <1>1 DEF Marks
<1>4. Between(e)'
  BY <1>1, <1>2, <1>3 DEF Between, Followed
<1>5. pc' # "done" /\ pc' \in {"recv", "process", "done"}
  OBVIOUS
<1>6. words' \in Seq(Words) /\ fed' \in 0 .. Len(Wire')
  BY <1>1
<1> QED BY <1>4, <1>5, <1>6 DEF Inv

LEMMA CutInv ==
  ASSUME NEW c \in Nat, Here(c), pc = "process", NEW tag \in TagsOf(state), Has(lookahead, tag),
         Unmarked(state, c, c + Find(lookahead, tag) - 1),
         words' = words, fed' = fed, pc' = pc, lookahead' = After(lookahead, tag),
         state' \in Modes,
         Turn(Pours(ReadOf[c], Before(lookahead, tag)), Spell[tag][2])
           = [mode |-> state', body |-> buffer', out |-> out']
  PROVE  Inv'
<1>1. /\ Worded /\ words \in Seq(Words)
      /\ fed \in Nat /\ fed <= Len(Wire) /\ Len(Wire) \in Nat /\ c <= fed
      /\ lookahead = SubSeq(Wire, c + 1, fed) /\ ReadOf[c].mode = state /\ state \in Modes
      /\ c = 0 \/ Wire[c] \notin Firsts(state)
      /\ fed \notin Inside
      /\ MaxToken <= 2 => \A p \in Marks(c, fed, state) : p + 2 >= fed
  BY DEF Here
<1>2. PICK e \in c + 2 .. fed : CutTo(c, fed, lookahead, tag, e)
  <2>1. /\ tag \in TagsOf(ReadOf[c].mode) /\ Unmarked(ReadOf[c].mode, c, c + Find(lookahead, tag) - 1)
        /\ c = 0 \/ Wire[c] \notin Firsts(ReadOf[c].mode)
    BY <1>1
  <2> QED BY ONLY <1>1, <2>1, c \in Nat, Has(lookahead, tag), CutAt
<1>3. Followed(e, fed', state', buffer', out', lookahead')
  BY <1>2 DEF CutTo, Followed
<1>4. tag \in Tags /\ Spell[tag][1] \in Firsts(state)
  BY <1>1, OnMarks
<1>5. ASSUME MaxToken <= 2 PROVE Marks(e, fed', state') = {}
  <2> DEFINE i == Find(lookahead, tag)
  <2>1. FoundAt(c, fed, tag, i)
    BY <1>1, <1>4, FindAt
  <2> HIDE DEF i
  <2>2. i \in Nat \ {0} /\ c + i + 1 <= fed /\ Wire[c + i] \in Firsts(state)
    BY <1>4, <2>1 DEF FoundAt
  <2>3. c + i \in c + 1 .. fed - 1
    <3>1. fed \in Nat /\ c \in Nat /\ i \in Nat \ {0} /\ c + i + 1 <= fed
      BY <1>1, <2>2
    <3> QED BY ONLY <3>1
  <2>4. c + i + 2 >= fed
    BY <1>1, <1>5, <2>2, <2>3 DEF Marks
  <2>5. e = c + i + 1
    BY <1>2 DEF CutTo, i
  <2>6. e + 1 .. fed - 1 = {}
    BY <1>1, <2>2, <2>4, <2>5
  <2> QED BY <2>6 DEF Marks
<1>6. fed' \in 0 .. Len(Wire) /\ e \in 0 .. fed' /\ pc' \in {"recv", "process"} /\ pc' # "recv"
  BY <1>1, <1>2
<1> QED BY <1>1, <1>3, <1>5, <1>6, Carried

LEMMA HoldInv ==
  ASSUME NEW c \in Nat, Here(c), pc = "process",
         Marks(c, fed, state) = {}, NEW k \in Nat, k <= Len(lookahead),
         state = "ToolCall" => k = Len(lookahead),
         Unmarked(state, c, c + k),
         words' = words, fed' = fed, pc' = "recv", state' = state,
         lookahead' = SubSeq(lookahead, k + 1, Len(lookahead)),
         Pours(ReadOf[c], SubSeq(lookahead, 1, k)) = [mode |-> state', body |-> buffer', out |-> out']
  PROVE  Inv'
<1>1. /\ Worded /\ words \in Seq(Words)
      /\ fed \in Nat /\ fed <= Len(Wire) /\ Len(Wire) \in Nat /\ c <= fed
      /\ lookahead = SubSeq(Wire, c + 1, fed) /\ ReadOf[c].mode = state /\ state \in Modes
      /\ c = 0 \/ Wire[c] \notin Firsts(state)
      /\ Len(lookahead) = fed - c
  BY DEF Here
<1>2. PICK e \in c .. fed : HeldTo(c, fed, lookahead, k, e)
  <2>1. /\ Unmarked(ReadOf[c].mode, c, c + k)
        /\ c = 0 \/ Wire[c] \notin Firsts(ReadOf[c].mode)
    BY <1>1
  <2> QED BY ONLY <1>1, <2>1, c \in Nat, k \in Nat, k <= Len(lookahead), HoldAt
<1>3. Followed(e, fed', state', buffer', out', lookahead') /\ e = c + k
  BY <1>1, <1>2 DEF HeldTo, Followed
<1>4. Marks(e, fed', state') = {}
  <2>1. e + 1 .. fed - 1 \subseteq c + 1 .. fed - 1
    BY <1>1, <1>2
  <2> QED BY <2>1 DEF Marks
<1>5. state' = "ToolCall" => e = fed'
  <2>1. state' = "ToolCall" => k = fed - c
    BY <1>1
  <2>2. k = fed - c => c + k = fed
    BY <1>1
  <2> QED BY <1>3, <2>1, <2>2
<1>6. fed' \in 0 .. Len(Wire) /\ e \in 0 .. fed' /\ pc' \in {"recv", "process"} /\ pc' # "process"
  BY <1>1, <1>2
<1> QED BY <1>1, <1>3, <1>4, <1>5, <1>6, Carried

LEMMA PushInv ==
  ASSUME NEW n \in 1 .. MaxToken, Inv, Push(n)
  PROVE  Inv'
<1>1. /\ pc = "recv" /\ fed + n <= Len(Wire) /\ fed + n \notin Inside
      /\ lookahead' = lookahead \o SubSeq(Wire, fed + 1, fed + n)
      /\ fed' = fed + n /\ pc' = "process"
      /\ words' = words /\ state' = state /\ buffer' = buffer /\ out' = out
  BY DEF Push
<1>2. PICK c \in Nat : Here(c)
  BY <1>1, SomewhereHere
<1>3. /\ Worded /\ words \in Seq(Words)
      /\ fed \in Nat /\ fed <= Len(Wire) /\ Len(Wire) \in Nat /\ c <= fed
      /\ lookahead = SubSeq(Wire, c + 1, fed)
      /\ ReadOf[c] = [mode |-> state, body |-> buffer, out |-> out]
      /\ c = 0 \/ Wire[c] \notin Firsts(state)
      /\ Marks(c, fed, state) = {}
  BY <1>1, <1>2 DEF Here
<1>4. n \in Nat /\ 1 <= n /\ n <= MaxToken /\ MaxToken \in Nat
  BY BoundsAssumption
<1> DEFINE d == fed + n
<1>5. d \in Nat /\ fed <= d /\ d <= Len(Wire) /\ d \in 0 .. Len(Wire) /\ c \in 0 .. d
      /\ c + 1 \in Nat /\ 1 <= c + 1 /\ c + 1 <= fed + 1
  BY <1>1, <1>3, <1>4
<1> HIDE DEF d
<1>6. Wire \in Seq(Symbols)
  BY <1>3, WireTyped
<1>7. Joins(Wire, c + 1, fed, d)
  BY <1>3, <1>5, <1>6, SlicesJoin
<1>8. lookahead' = SubSeq(Wire, c + 1, d)
  BY <1>1, <1>3, <1>7 DEF Joins, d
<1>9. fed' = d /\ d \notin Inside
  BY <1>1 DEF d
<1>10. Followed(c, fed', state', buffer', out', lookahead')
  BY <1>1, <1>3, <1>8, <1>9 DEF Followed
<1>11. ASSUME MaxToken <= 2, NEW p \in Marks(c, d, state) PROVE p + 2 >= d
  <2>1. p \in c + 1 .. d - 1 /\ Wire[p] \in Firsts(state)
    BY DEF Marks
  <2>2. p \notin c + 1 .. fed - 1
    BY <1>3, <2>1 DEF Marks
  <2>3. p >= fed
    BY <1>3, <1>5, <2>1, <2>2
  <2> QED BY <1>3, <1>4, <1>11, <2>1, <2>3 DEF d
<1>12. pc' \in {"recv", "process"} /\ pc' # "recv" /\ fed' \in 0 .. Len(Wire) /\ c \in 0 .. fed'
  BY <1>1, <1>5, <1>9
<1>13. fed' \notin Inside /\ (MaxToken <= 2 => \A p \in Marks(c, fed', state') : p + 2 >= fed')
  BY <1>1, <1>9, <1>11
<1> QED BY <1>1, <1>3, <1>10, <1>12, <1>13, Carried

LEMMA OpenThinkingInv ==
  ASSUME Legible, Inv, OpenThinking
  PROVE  Inv'
<1>1. /\ pc = "process" /\ state = "Text" /\ Has(lookahead, "think")
      /\ out' = out \o Text(Before(lookahead, "think")) /\ lookahead' = After(lookahead, "think")
      /\ state' = "Thinking"
      /\ words' = words /\ fed' = fed /\ pc' = pc /\ buffer' = buffer
  BY DEF OpenThinking
<1>2. PICK c \in Nat : Here(c)
  BY <1>1, SomewhereHere
<1>3. /\ Worded /\ words \in Seq(Words)
      /\ fed \in Nat /\ fed <= Len(Wire) /\ Len(Wire) \in Nat /\ c <= fed
      /\ lookahead = SubSeq(Wire, c + 1, fed)
      /\ ReadOf[c] = [mode |-> "Text", body |-> buffer, out |-> out]
      /\ MaxToken <= 2 => \A p \in Marks(c, fed, state) : p + 2 >= fed
  BY <1>1, <1>2 DEF Here
<1> DEFINE i == Find(lookahead, "think")
<1>4. "think" \in Tags /\ "call" \in Tags /\ "think" \in TagsOf(state)
  BY <1>1, FirstsOf DEF Tags
<1>5. FoundAt(c, fed, "think", i)
  BY <1>1, <1>3, <1>4, FindAt
<1> HIDE DEF i
<1>6. /\ i \in Nat \ {0} /\ c + i + 1 <= fed /\ Wire[c + i] = "<th"
      /\ \A p \in c + 1 .. c + i - 1 : Wire[p] # "<th"
  BY <1>5, HalvesOf DEF FoundAt
<1>7. ASSUME NEW p \in c + 1 .. c + i - 1, Wire[p] = "<ca" PROVE FALSE
  <2>1. /\ p \in Nat /\ p \in 1 .. Len(Wire) /\ p \in c + 1 .. fed - 1 /\ p + 1 <= c + i
        /\ c + i \in 1 .. Len(Wire) /\ c + i \in Nat /\ c + i + 1 <= fed
    BY <1>3, <1>6
  <2> DEFINE q == c + i
  <2>2. Wire[p] = Spell["call"][1] /\ Wire[q] = Spell["think"][1]
    BY <1>6, <1>7, HalvesOf
  <2>3. q \in Nat /\ q \in 1 .. Len(Wire) /\ p + 1 <= q /\ q + 1 <= fed
    BY <2>1
  <2> HIDE DEF q
  <2>4. CASE MaxToken <= 2
    <3>1. p \in Marks(c, fed, state)
      BY <1>1, <1>7, <2>1, FirstsOf DEF Marks
    <3>2. p + 2 >= fed
      BY <1>3, <2>4, <3>1
    <3>3. q = p + 1
      BY <1>3, <2>1, <2>3, <3>2
    <3>4. Wire[p + 1] = Spell["call"][2]
      BY <1>3, <1>4, <2>1, <2>2, WirePaired DEF Paired
    <3> QED BY <1>4, <2>2, <3>3, <3>4, HalvesApart
  <2>5. CASE ~({"think", "call"} \subseteq Words)
    <3>1. PICK j \in DOMAIN words : words[j] = "call"
      BY <1>3, <1>4, <2>1, <2>2, TagPlace
    <3>2. PICK k \in DOMAIN words : words[k] = "think"
      BY <1>3, <1>4, <2>2, <2>3, TagPlace
    <3>3. words[j] \in Words /\ words[k] \in Words
      BY <1>3
    <3> QED BY <2>5, <3>1, <3>2, <3>3
  <2> QED BY <2>4, <2>5 DEF Legible
<1>8. Unmarked(state, c, c + i - 1)
  BY <1>1, <1>6, <1>7, FirstsOf DEF Unmarked
<1>9. Turn(Pours(ReadOf[c], Before(lookahead, "think")), Spell["think"][2])
        = [mode |-> state', body |-> buffer', out |-> out']
  <2>1. Turned(buffer, out, Before(lookahead, "think"))
    BY TurnParts
  <2> QED BY <1>1, <1>3, <2>1, Zenon DEF Turned
<1>10. state' \in Modes
  BY <1>1 DEF Modes
<1> QED BY <1>1, <1>2, <1>4, <1>8, <1>9, <1>10, CutInv DEF i

LEMMA OpenToolCallInv ==
  ASSUME Inv, OpenToolCall
  PROVE  Inv'
<1>1. /\ pc = "process" /\ state = "Text" /\ ~Has(lookahead, "think") /\ Has(lookahead, "call")
      /\ out' = out \o Text(Before(lookahead, "call")) /\ lookahead' = After(lookahead, "call")
      /\ state' = "ToolCall"
      /\ words' = words /\ fed' = fed /\ pc' = pc /\ buffer' = buffer
  BY DEF OpenToolCall
<1>2. PICK c \in Nat : Here(c)
  BY <1>1, SomewhereHere
<1>3. /\ Worded
      /\ fed \in Nat /\ fed <= Len(Wire) /\ Len(Wire) \in Nat /\ c <= fed
      /\ lookahead = SubSeq(Wire, c + 1, fed)
      /\ ReadOf[c] = [mode |-> "Text", body |-> buffer, out |-> out]
  BY <1>1, <1>2 DEF Here
<1> DEFINE i == Find(lookahead, "call")
<1>4. "think" \in Tags /\ "call" \in Tags /\ "call" \in TagsOf(state)
  BY <1>1, FirstsOf DEF Tags
<1>5. FoundAt(c, fed, "call", i)
  BY <1>1, <1>3, <1>4, FindAt
<1> HIDE DEF i
<1>6. /\ i \in Nat \ {0} /\ c + i + 1 <= fed
      /\ \A p \in c + 1 .. c + i - 1 : Wire[p] # "<ca"
  BY <1>5, HalvesOf DEF FoundAt
<1>7. \A p \in c + 1 .. c + i - 1 : Wire[p] # "<th"
  <2>1. \A p \in c + 1 .. fed - 1 : Wire[p] # "<th"
    BY <1>1, <1>3, <1>4, NotFound, HalvesOf
  <2>2. c + 1 .. c + i - 1 \subseteq c + 1 .. fed - 1
    BY <1>3, <1>6
  <2> QED BY <2>1, <2>2
<1>8. Unmarked(state, c, c + i - 1)
  BY <1>1, <1>6, <1>7, FirstsOf DEF Unmarked
<1>9. Turn(Pours(ReadOf[c], Before(lookahead, "call")), Spell["call"][2])
        = [mode |-> state', body |-> buffer', out |-> out']
  <2>1. Turned(buffer, out, Before(lookahead, "call"))
    BY TurnParts
  <2> QED BY <1>1, <1>3, <2>1, Zenon DEF Turned
<1>10. state' \in Modes
  BY <1>1 DEF Modes
<1> QED BY <1>1, <1>2, <1>4, <1>8, <1>9, <1>10, CutInv DEF i

LEMMA CloseThinkingInv ==
  ASSUME Inv, CloseThinking
  PROVE  Inv'
<1>1. /\ pc = "process" /\ state = "Thinking" /\ Has(lookahead, "unthink")
      /\ out' = out \o Thinking(Before(lookahead, "unthink")) \o ThinkingEnd
      /\ lookahead' = After(lookahead, "unthink") /\ state' = "Text"
      /\ words' = words /\ fed' = fed /\ pc' = pc /\ buffer' = buffer
  BY DEF CloseThinking
<1>2. PICK c \in Nat : Here(c)
  BY <1>1, SomewhereHere
<1>3. /\ Worded
      /\ fed \in Nat /\ fed <= Len(Wire) /\ Len(Wire) \in Nat /\ c <= fed
      /\ lookahead = SubSeq(Wire, c + 1, fed)
      /\ ReadOf[c] = [mode |-> "Thinking", body |-> buffer, out |-> out]
  BY <1>1, <1>2 DEF Here
<1> DEFINE i == Find(lookahead, "unthink")
<1>4. "unthink" \in Tags /\ "unthink" \in TagsOf(state)
  BY <1>1, FirstsOf DEF Tags
<1>5. FoundAt(c, fed, "unthink", i)
  BY <1>1, <1>3, <1>4, FindAt
<1> HIDE DEF i
<1>6. \A p \in c + 1 .. c + i - 1 : Wire[p] # "</th"
  BY <1>5, HalvesOf DEF FoundAt
<1>7. Unmarked(state, c, c + i - 1)
  BY <1>1, <1>6, FirstsOf DEF Unmarked
<1>8. Turn(Pours(ReadOf[c], Before(lookahead, "unthink")), Spell["unthink"][2])
        = [mode |-> state', body |-> buffer', out |-> out']
  <2>1. Turned(buffer, out, Before(lookahead, "unthink"))
    BY TurnParts
  <2> QED BY <1>1, <1>3, <2>1, Zenon DEF Turned
<1>9. state' \in Modes
  BY <1>1 DEF Modes
<1> QED BY <1>1, <1>2, <1>4, <1>7, <1>8, <1>9, CutInv DEF i

LEMMA CloseToolCallInv ==
  ASSUME Inv, CloseToolCall
  PROVE  Inv'
<1>1. /\ pc = "process" /\ state = "ToolCall" /\ Has(lookahead, "uncall")
      /\ out' = out \o ToolCall(buffer \o Before(lookahead, "uncall"))
      /\ lookahead' = After(lookahead, "uncall") /\ state' = "Text" /\ buffer' = <<>>
      /\ words' = words /\ fed' = fed /\ pc' = pc
  BY DEF CloseToolCall
<1>2. PICK c \in Nat : Here(c)
  BY <1>1, SomewhereHere
<1>3. /\ Worded
      /\ fed \in Nat /\ fed <= Len(Wire) /\ Len(Wire) \in Nat /\ c <= fed
      /\ lookahead = SubSeq(Wire, c + 1, fed)
      /\ ReadOf[c] = [mode |-> "ToolCall", body |-> buffer, out |-> out]
  BY <1>1, <1>2 DEF Here
<1> DEFINE i == Find(lookahead, "uncall")
<1>4. "uncall" \in Tags /\ "uncall" \in TagsOf(state)
  BY <1>1, FirstsOf DEF Tags
<1>5. FoundAt(c, fed, "uncall", i)
  BY <1>1, <1>3, <1>4, FindAt
<1> HIDE DEF i
<1>6. \A p \in c + 1 .. c + i - 1 : Wire[p] # "</ca"
  BY <1>5, HalvesOf DEF FoundAt
<1>7. Unmarked(state, c, c + i - 1)
  BY <1>1, <1>6, FirstsOf DEF Unmarked
<1>8. Turn(Pours(ReadOf[c], Before(lookahead, "uncall")), Spell["uncall"][2])
        = [mode |-> state', body |-> buffer', out |-> out']
  <2>1. Turned(buffer, out, Before(lookahead, "uncall"))
    BY TurnParts
  <2> QED BY <1>1, <1>3, <2>1, Zenon DEF Turned
<1>9. state' \in Modes
  BY <1>1 DEF Modes
<1> QED BY <1>1, <1>2, <1>4, <1>7, <1>8, <1>9, CutInv DEF i

LEMMA SafeOf ==
  ASSUME NEW S, NEW s \in Seq(S)
  PROVE  /\ Safe(s) \in Nat /\ Safe(s) <= Len(s) /\ (Safe(s) = 0 \/ Safe(s) <= Len(s) - 1)
         /\ Len(s) - Safe(s) <= LOOKAHEAD
BY BoundsAssumption DEF Safe

\* All but what is held back goes out: no tag starts in it.
LEMMA HoldUnmarked ==
  ASSUME NEW c \in Nat, Here(c), Marks(c, fed, state) = {}
  PROVE  Unmarked(state, c, c + Safe(lookahead))
<1>1. /\ fed \in Nat /\ c <= fed /\ Len(lookahead) = fed - c /\ lookahead \in Seq(Symbols)
  BY DEF Here
<1>2. Safe(lookahead) \in Nat /\ (Safe(lookahead) = 0 \/ Safe(lookahead) <= Len(lookahead) - 1)
  BY <1>1, SafeOf
<1> DEFINE k == Safe(lookahead)
<1> HIDE DEF k
<1>3. c + 1 .. c + k \subseteq c + 1 .. fed - 1
  <2>1. k \in Nat /\ (k = 0 \/ k <= fed - c - 1)
    BY <1>1, <1>2 DEF k
  <2> QED BY <1>1, <2>1
<1>4. \A p \in c + 1 .. fed - 1 : Wire[p] \notin Firsts(state)
  BY DEF Marks
<1> QED BY <1>3, <1>4 DEF Unmarked, k

LEMMA HoldTextInv ==
  ASSUME Inv, HoldText
  PROVE  Inv'
<1>1. /\ pc = "process" /\ state = "Text" /\ ~Has(lookahead, "think") /\ ~Has(lookahead, "call")
      /\ out' = out \o Text(SubSeq(lookahead, 1, Safe(lookahead)))
      /\ lookahead' = SubSeq(lookahead, Safe(lookahead) + 1, Len(lookahead))
      /\ pc' = "recv" /\ words' = words /\ fed' = fed /\ state' = state /\ buffer' = buffer
  BY DEF HoldText
<1>2. PICK c \in Nat : Here(c)
  BY <1>1, SomewhereHere
<1>3. /\ Worded
      /\ fed \in Nat /\ fed <= Len(Wire) /\ Len(Wire) \in Nat /\ c <= fed
      /\ lookahead = SubSeq(Wire, c + 1, fed) /\ lookahead \in Seq(Symbols)
      /\ ReadOf[c] = [mode |-> "Text", body |-> buffer, out |-> out]
  BY <1>1, <1>2 DEF Here
<1>4. Marks(c, fed, state) = {}
  <2>1. "think" \in Tags /\ "call" \in Tags
    BY DEF Tags
  <2>2. \A p \in c + 1 .. fed - 1 : Wire[p] # Spell["think"][1]
    BY <1>1, <1>3, <2>1, NotFound
  <2>3. \A p \in c + 1 .. fed - 1 : Wire[p] # Spell["call"][1]
    BY <1>1, <1>3, <2>1, NotFound
  <2> QED BY <1>1, <2>2, <2>3, FirstsOf, HalvesOf DEF Marks
<1>5. Unmarked(state, c, c + Safe(lookahead))
  BY <1>2, <1>4, HoldUnmarked
<1>6. Safe(lookahead) \in Nat /\ Safe(lookahead) <= Len(lookahead)
  BY <1>3, SafeOf
<1>7. Pours(ReadOf[c], SubSeq(lookahead, 1, Safe(lookahead)))
        = [mode |-> state', body |-> buffer', out |-> out']
  <2>1. Poured(buffer, out, SubSeq(lookahead, 1, Safe(lookahead)))
    BY PoursParts
  <2> QED BY <1>1, <1>3, <2>1, Zenon DEF Poured
<1>8. state # "ToolCall"
  BY <1>1
<1> QED BY <1>1, <1>2, <1>4, <1>5, <1>6, <1>7, <1>8, HoldInv

LEMMA HoldThinkingInv ==
  ASSUME Inv, HoldThinking
  PROVE  Inv'
<1>1. /\ pc = "process" /\ state = "Thinking" /\ ~Has(lookahead, "unthink")
      /\ out' = out \o Thinking(SubSeq(lookahead, 1, Safe(lookahead)))
      /\ lookahead' = SubSeq(lookahead, Safe(lookahead) + 1, Len(lookahead))
      /\ pc' = "recv" /\ words' = words /\ fed' = fed /\ state' = state /\ buffer' = buffer
  BY DEF HoldThinking
<1>2. PICK c \in Nat : Here(c)
  BY <1>1, SomewhereHere
<1>3. /\ Worded
      /\ fed \in Nat /\ fed <= Len(Wire) /\ Len(Wire) \in Nat /\ c <= fed
      /\ lookahead = SubSeq(Wire, c + 1, fed) /\ lookahead \in Seq(Symbols)
      /\ ReadOf[c] = [mode |-> "Thinking", body |-> buffer, out |-> out]
  BY <1>1, <1>2 DEF Here
<1>4. Marks(c, fed, state) = {}
  <2>1. "unthink" \in Tags
    BY DEF Tags
  <2>2. \A p \in c + 1 .. fed - 1 : Wire[p] # Spell["unthink"][1]
    BY <1>1, <1>3, <2>1, NotFound
  <2> QED BY <1>1, <2>2, FirstsOf, HalvesOf DEF Marks
<1>5. Unmarked(state, c, c + Safe(lookahead))
  BY <1>2, <1>4, HoldUnmarked
<1>6. Safe(lookahead) \in Nat /\ Safe(lookahead) <= Len(lookahead)
  BY <1>3, SafeOf
<1>7. Pours(ReadOf[c], SubSeq(lookahead, 1, Safe(lookahead)))
        = [mode |-> state', body |-> buffer', out |-> out']
  <2>1. Poured(buffer, out, SubSeq(lookahead, 1, Safe(lookahead)))
    BY PoursParts
  <2> QED BY <1>1, <1>3, <2>1, Zenon DEF Poured
<1>8. state # "ToolCall"
  BY <1>1
<1> QED BY <1>1, <1>2, <1>4, <1>5, <1>6, <1>7, <1>8, HoldInv

\* All of it goes out, when it does not end in the first half of a tag.
LEMMA AllUnmarked ==
  ASSUME NEW c \in Nat, Here(c), Marks(c, fed, state) = {},
         fed = 0 \/ Wire[fed] \notin Firsts(state)
  PROVE  Unmarked(state, c, c + Len(lookahead))
<1>1. /\ fed \in Nat /\ c <= fed /\ Len(lookahead) = fed - c
  BY DEF Here
<1>2. c + Len(lookahead) = fed
  BY <1>1
<1>3. \A p \in c + 1 .. fed : p \in c + 1 .. fed - 1 \/ (p = fed /\ fed # 0)
  BY <1>1
<1>4. \A p \in c + 1 .. fed - 1 : Wire[p] \notin Firsts(state)
  BY DEF Marks
<1> QED BY <1>2, <1>3, <1>4 DEF Unmarked

LEMMA WholeSlice ==
  ASSUME NEW S, NEW s \in Seq(S)
  PROVE  /\ SubSeq(s, 1, Len(s)) = s /\ SubSeq(s, Len(s) + 1, Len(s)) = <<>> /\ Len(s) \in Nat
<1>1. Len(s) \in Nat
  OBVIOUS
<1>2. SubSeq(s, 1, Len(s)) = s
  BY SubSeqFull
<1>3. SubSeq(s, Len(s) + 1, Len(s)) = <<>>
  BY <1>1, SubSeqEmpty
<1> QED BY <1>1, <1>2, <1>3

LEMMA HoldToolCallInv ==
  ASSUME Legible, Inv, HoldToolCall
  PROVE  Inv'
<1>1. /\ pc = "process" /\ state = "ToolCall" /\ ~Has(lookahead, "uncall")
      /\ buffer' = buffer \o lookahead /\ lookahead' = <<>>
      /\ pc' = "recv" /\ words' = words /\ fed' = fed /\ state' = state /\ out' = out
  BY DEF HoldToolCall
<1>2. PICK c \in Nat : Here(c)
  BY <1>1, SomewhereHere
<1>3. /\ Worded /\ words \in Seq(Words)
      /\ fed \in Nat /\ fed <= Len(Wire) /\ Len(Wire) \in Nat /\ c <= fed
      /\ lookahead = SubSeq(Wire, c + 1, fed) /\ lookahead \in Seq(Symbols)
      /\ ReadOf[c] = [mode |-> "ToolCall", body |-> buffer, out |-> out]
      /\ fed \notin Inside
  BY <1>1, <1>2 DEF Here
<1>4. "uncall" \in Tags /\ Firsts(state) = {Spell["uncall"][1]}
  BY <1>1, FirstsOf, HalvesOf DEF Tags
<1>5. Marks(c, fed, state) = {}
  <2>1. \A p \in c + 1 .. fed - 1 : Wire[p] # Spell["uncall"][1]
    BY <1>1, <1>3, <1>4, NotFound
  <2> QED BY <1>4, <2>1 DEF Marks
<1>6. ASSUME fed # 0, Wire[fed] \in Firsts(state) PROVE FALSE
  <2>1. fed \in 1 .. Len(Wire) /\ Wire[fed] = Spell["uncall"][1]
    BY <1>3, <1>4, <1>6
  <2>2. PICK k \in DOMAIN words : words[k] = "uncall" /\ fed = Len(WireOf[k]) - 1
    BY <1>3, <1>4, <2>1, TagPlace
  <2>3. words[k] \in Words
    BY <1>3
  <2>4. words[k] \in Whole
    BY <2>2, <2>3 DEF Legible
  <2>5. fed \in Inside
    BY <2>2, <2>4 DEF Inside
  <2> QED BY <1>3, <2>5
<1>7. Unmarked(state, c, c + Len(lookahead))
  BY <1>2, <1>5, <1>6, AllUnmarked
<1>8. SubSeq(lookahead, 1, Len(lookahead)) = lookahead /\ Len(lookahead) \in Nat
      /\ SubSeq(lookahead, Len(lookahead) + 1, Len(lookahead)) = <<>> /\ Len(lookahead) <= Len(lookahead)
  BY <1>3, WholeSlice
<1>9. Pours(ReadOf[c], SubSeq(lookahead, 1, Len(lookahead)))
        = [mode |-> state', body |-> buffer', out |-> out']
  <2>1. Poured(buffer, out, lookahead)
    BY PoursParts
  <2> QED BY <1>1, <1>3, <1>8, <2>1, Zenon DEF Poured
<1>10. lookahead' = SubSeq(lookahead, Len(lookahead) + 1, Len(lookahead))
  BY <1>1, <1>8
<1> QED BY <1>1, <1>2, <1>5, <1>7, <1>8, <1>9, <1>10, HoldInv

LEMMA FlushInv ==
  ASSUME Inv, Flush
  PROVE  Inv'
<1>1. /\ pc = "recv" /\ fed = Len(Wire) /\ pc' = "done" /\ words' = words /\ fed' = fed
      /\ out' = out \o (IF lookahead = <<>> THEN <<>>
                        ELSE CASE state = "Text"     -> Text(lookahead)
                               [] state = "Thinking" -> Thinking(lookahead)
                               [] state = "ToolCall" -> ToolCall(buffer \o lookahead))
  BY DEF Flush
<1>2. PICK c \in Nat : Here(c)
  BY <1>1, SomewhereHere
<1>3. /\ Worded /\ words \in Seq(Words)
      /\ fed \in Nat /\ fed <= Len(Wire) /\ Len(Wire) \in Nat /\ c <= fed
      /\ lookahead = SubSeq(Wire, c + 1, fed) /\ lookahead \in Seq(Symbols) /\ Len(lookahead) = fed - c
      /\ ReadOf[c] = [mode |-> state, body |-> buffer, out |-> out] /\ ReadOf[c].mode = state
      /\ state \in Modes
      /\ c = 0 \/ Wire[c] \notin Firsts(state)
      /\ Marks(c, fed, state) = {} /\ (state = "ToolCall" => c = fed)
  BY <1>1, <1>2 DEF Here
<1>4. Meaning = ReadOf[fed]
  BY <1>1, <1>3, MeaningRead
<1>5. out' = ReadOf[fed].out
  <2>1. CASE lookahead = <<>>
    <3>1. c = fed
      <4>1. Len(lookahead) = 0
        BY <2>1
      <4>2. fed - c = 0 /\ fed \in Nat /\ c \in Nat
        BY <1>3, <4>1
      <4> QED BY ONLY <4>2
    <3>2. ReadOf[c] \in Accs
      BY <1>3, <1>1, <3>1, ReadUnfold
    <3>3. ReadOf[c].out = out
      BY <1>3
    <3>4. out \in Seq(Items)
      BY <3>2, <3>3, AccOf
    <3>5. out \o <<>> = out
      BY <3>4
    <3> QED BY <1>1, <2>1, <3>1, <3>3, <3>5
  <2>2. CASE lookahead # <<>>
    <3>1. c # fed
      BY <1>3, <2>2
    <3>2. state = "Text" \/ state = "Thinking"
      BY <1>3, <3>1 DEF Modes
    <3>3. fed = 0 \/ Wire[fed] \notin Firsts(state)
      <4>1. SUFFICES ASSUME fed # 0, Wire[fed] \in Firsts(state) PROVE FALSE
        OBVIOUS
      <4>2. PICK tag \in TagsOf(state) : Wire[fed] = Spell[tag][1]
        BY <4>1 DEF Firsts
      <4>3. tag \in Tags
        BY <1>3, OnMarks
      <4>4. fed \in 1 .. Len(Wire) /\ ~(fed + 1 <= Len(Wire))
        BY <1>1, <1>3, <4>1
      <4> QED BY <1>3, <4>2, <4>3, <4>4, WirePaired DEF Paired
    <3>4. Unmarked(state, c, c + Len(lookahead))
      BY <1>2, <1>3, <3>3, AllUnmarked
    <3>5. SubSeq(lookahead, 1, Len(lookahead)) = lookahead /\ Len(lookahead) \in Nat /\ Len(lookahead) <= Len(lookahead)
      BY <1>3, WholeSlice
    <3>6. PICK e \in c .. fed : HeldTo(c, fed, lookahead, Len(lookahead), e)
      <4>1. /\ Unmarked(ReadOf[c].mode, c, c + Len(lookahead))
            /\ c = 0 \/ Wire[c] \notin Firsts(ReadOf[c].mode)
        BY <1>3, <3>4
      <4> QED BY ONLY <1>3, <3>5, <4>1, c \in Nat, HoldAt
    <3>7. e = c + Len(lookahead) /\ ReadOf[e] = Pours(ReadOf[c], lookahead)
      BY <3>5, <3>6 DEF HeldTo
    <3>8. e = fed
      BY <1>3, <3>7
    <3>9. Poured(buffer, out, lookahead)
      BY PoursParts
    <3>10. CASE state = "Text"
      <4>1. ReadOf[fed] = [mode |-> "Text", body |-> buffer, out |-> out \o Text(lookahead)]
        BY <1>3, <3>7, <3>8, <3>9, <3>10, Zenon DEF Poured
      <4>2. out' = out \o Text(lookahead)
        BY <1>1, <2>2, <3>10
      <4> QED BY <4>1, <4>2
    <3>11. CASE state = "Thinking"
      <4>1. ReadOf[fed] = [mode |-> "Thinking", body |-> buffer, out |-> out \o Thinking(lookahead)]
        BY <1>3, <3>7, <3>8, <3>9, <3>11, Zenon DEF Poured
      <4>2. out' = out \o Thinking(lookahead)
        BY <1>1, <2>2, <3>11
      <4> QED BY <4>1, <4>2
    <3> QED BY <3>2, <3>10, <3>11
  <2> QED BY <2>1, <2>2
<1>6. out' = Meaning'.out
  BY <1>1, <1>4, <1>5, Same
<1>7. words' \in Seq(Words) /\ fed' \in 0 .. Len(Wire') /\ pc' \in {"recv", "process", "done"}
  BY <1>1, <1>3, Same
<1> QED BY <1>1, <1>6, <1>7 DEF Inv

-----------------------------------------------------------------------------
(* The theorems.                                                           *)

LEMMA WordsListed ==
  ASSUME words \in UNION {[1 .. n -> Words] : n \in 0 .. MaxWords}
  PROVE  words \in Seq(Words)
<1>1. PICK n \in 0 .. MaxWords : words \in [1 .. n -> Words]
  OBVIOUS
<1>2. n \in Nat
  BY BoundsAssumption
<1> QED BY <1>1, <1>2

LEMMA InitInv ==
  ASSUME Init
  PROVE  Inv
<1>1. /\ words \in Seq(Words) /\ fed = 0 /\ pc = "recv"
      /\ state = "Text" /\ buffer = <<>> /\ lookahead = <<>> /\ out = <<>>
  BY WordsListed DEF Init
<1>2. Worded
  BY <1>1, WordsWorded
<1>3. Wire \in Seq(Symbols) /\ Len(Wire) \in Nat
  BY <1>2, WireTyped
<1>4. SubSeq(Wire, 0 + 1, 0) = <<>>
  BY <1>3, SubSeqEmpty
<1>5. ReadOf[0] = Start
  BY <1>2, ReadUnfold
<1>6. Followed(0, fed, state, buffer, out, lookahead)
  BY <1>1, <1>4, <1>5 DEF Followed, Start
<1>7. Marks(0, fed, state) = {}
  BY <1>1 DEF Marks
<1>8. Between(0)
  BY <1>1, <1>6, <1>7 DEF Between
<1>9. fed \in 0 .. Len(Wire) /\ 0 \in 0 .. fed
  BY <1>1, <1>3
<1> QED BY <1>1, <1>8, <1>9 DEF Inv

LEMMA InvStutters ==
  ASSUME Inv, UNCHANGED vars
  PROVE  Inv'
<1>1. /\ words' = words /\ fed' = fed /\ pc' = pc /\ state' = state /\ buffer' = buffer
      /\ lookahead' = lookahead /\ out' = out
  BY DEF vars
<1>2. Wire' = Wire /\ ReadOf' = ReadOf /\ Inside' = Inside /\ Meaning' = Meaning
  BY <1>1, Same
<1> QED BY <1>1, <1>2 DEF Inv, Between, Followed, Marks

LEMMA InvIsInductive ==
  ASSUME Legible, Inv, [Next]_vars
  PROVE  Inv'
<1>1. ASSUME NEW n \in 1 .. MaxToken, Push(n) PROVE Inv'
  BY <1>1, PushInv
<1>2. CASE OpenThinking
  BY <1>2, OpenThinkingInv
<1>3. CASE OpenToolCall
  BY <1>3, OpenToolCallInv
<1>4. CASE HoldText
  BY <1>4, HoldTextInv
<1>5. CASE CloseThinking
  BY <1>5, CloseThinkingInv
<1>6. CASE HoldThinking
  BY <1>6, HoldThinkingInv
<1>7. CASE CloseToolCall
  BY <1>7, CloseToolCallInv
<1>8. CASE HoldToolCall
  BY <1>8, HoldToolCallInv
<1>9. CASE Flush
  BY <1>9, FlushInv
<1>10. CASE UNCHANGED vars
  BY <1>10, InvStutters
<1> QED BY <1>1, <1>2, <1>3, <1>4, <1>5, <1>6, <1>7, <1>8, <1>9, <1>10 DEF Next

LEMMA InvParses ==
  ASSUME Inv
  PROVE  ParsesAsWritten
<1>1. Worded
  BY WordsWorded DEF Inv
<1>2. Meaning = ReadOf[Len(Wire)] /\ Len(Wire) \in Nat
  BY <1>1, MeaningRead, WireTyped
<1>3. PICK c \in 0 .. Len(Wire) : out = ReadOf[c].out
  <2>1. CASE pc = "done"
    <3>1. out = ReadOf[Len(Wire)].out
      BY <1>2, <2>1 DEF Inv
    <3>2. Len(Wire) \in 0 .. Len(Wire)
      BY <1>2
    <3> QED BY <3>1, <3>2
  <2>2. CASE pc # "done"
    <3>1. PICK c \in Nat : Here(c)
      BY <2>2, SomewhereHere
    <3>2. /\ ReadOf[c] = [mode |-> state, body |-> buffer, out |-> out]
          /\ fed \in Nat /\ fed <= Len(Wire) /\ c <= fed
      BY <3>1 DEF Here
    <3>3. ReadOf[c].out = out
      BY <3>2
    <3>4. c \in 0 .. Len(Wire)
      BY <1>2, <3>2
    <3> QED BY <3>3, <3>4
  <2> QED BY <2>1, <2>2
<1>4. Begins(out, Meaning.out)
  BY <1>1, <1>2, <1>3, Monotone
<1>5. out \in Seq(Items) /\ Meaning.out \in Seq(Items)
  <2>1. ReadOf[c] \in Accs /\ ReadOf[Len(Wire)] \in Accs
    <3>1. Len(Wire) \in 0 .. Len(Wire)
      BY <1>2
    <3> QED BY <1>1, <3>1, ReadUnfold
  <2> QED BY <1>2, <1>3, <2>1, AccOf
<1>6. IsPrefix(out, Meaning.out)
  BY <1>4, <1>5, BeginsIsPrefix
<1>7. pc = "done" => out = Meaning.out
  BY DEF Inv
<1> QED BY <1>6, <1>7 DEF ParsesAsWritten

\* However a response is cut into tokens, the events are those its markup
\* means, and what was sent is never taken back (push and process,
\* stream_parser.rs:71 and 107).
THEOREM ParsedAsWritten ==
  ASSUME Legible
  PROVE  Spec => []ParsesAsWritten
<1>1. Init => Inv
  BY InitInv
<1>2. Inv /\ [Next]_vars => Inv'
  BY InvIsInductive
<1>3. Inv => ParsesAsWritten
  BY InvParses
<1> QED BY <1>1, <1>2, <1>3, PTL DEF Spec

-----------------------------------------------------------------------------
\* Whatever the tags and the tokens: the lookahead is only symbols.
DelayInv ==
  /\ words \in Seq(Words) /\ fed \in Nat /\ lookahead \in Seq(Symbols)
  /\ DelayBounded

LEMMA AfterTyped ==
  ASSUME NEW s \in Seq(Symbols), NEW tag, Has(s, tag)
  PROVE  After(s, tag) \in Seq(Symbols)
<1>1. Starts(s, tag) \in SUBSET (Nat \ {0})
  BY DEF Starts
<1>2. Find(s, tag) \in Nat
  BY <1>1, FindOf
<1>3. Find(s, tag) + 2 \in Nat /\ 1 <= Find(s, tag) + 2 /\ Len(s) \in Nat /\ Len(s) <= Len(s)
  BY <1>2
<1> QED BY <1>3, SliceOf DEF After

LEMMA HoldDelays ==
  ASSUME NEW s \in Seq(Symbols)
  PROVE  LET rest == SubSeq(s, Safe(s) + 1, Len(s))
         IN  rest \in Seq(Symbols) /\ Len(rest) <= LOOKAHEAD
<1> DEFINE k == Safe(s)
<1>1. k \in Nat /\ k <= Len(s) /\ Len(s) - k <= LOOKAHEAD /\ LOOKAHEAD \in Nat /\ Len(s) \in Nat
  BY SafeOf, BoundsAssumption
<1> HIDE DEF k
<1>2. k + 1 \in Nat /\ 1 <= k + 1 /\ Len(s) - (k + 1) + 1 = Len(s) - k /\ Len(s) <= Len(s)
  BY <1>1
<1>3. /\ SubSeq(s, k + 1, Len(s)) \in Seq(Symbols)
      /\ Len(SubSeq(s, k + 1, Len(s))) = IF k + 1 <= Len(s) THEN Len(s) - (k + 1) + 1 ELSE 0
  BY <1>1, <1>2, SliceOf
<1>4. Len(SubSeq(s, k + 1, Len(s))) <= LOOKAHEAD
  BY <1>1, <1>2, <1>3
<1> QED BY <1>3, <1>4 DEF k

LEMMA DelayIsInductive ==
  ASSUME DelayInv, [Next]_vars
  PROVE  DelayInv'
<1>1. words \in Seq(Words) /\ fed \in Nat /\ lookahead \in Seq(Symbols)
  BY DEF DelayInv
<1>2. ASSUME NEW n \in 1 .. MaxToken, Push(n) PROVE DelayInv'
  <2>1. /\ fed + n <= Len(Wire) /\ lookahead' = lookahead \o SubSeq(Wire, fed + 1, fed + n)
        /\ fed' = fed + n /\ pc' = "process" /\ words' = words
    BY <1>2 DEF Push
  <2>2. Wire \in Seq(Symbols)
    BY <1>1, WordsWorded, WireTyped
  <2>3. n \in Nat /\ fed + 1 \in Nat /\ fed + n \in Nat /\ 1 <= fed + 1
    BY <1>1, BoundsAssumption
  <2>4. SubSeq(Wire, fed + 1, fed + n) \in Seq(Symbols)
    BY <2>1, <2>2, <2>3, SliceOf
  <2>5. lookahead' \in Seq(Symbols)
    BY <1>1, <2>1, <2>4
  <2> QED BY <1>1, <2>1, <2>3, <2>5 DEF DelayInv, DelayBounded
<1>3. CASE OpenThinking
  <2>1. lookahead' \in Seq(Symbols)
    BY <1>1, <1>3, AfterTyped DEF OpenThinking
  <2> QED BY <1>1, <1>3, <2>1 DEF OpenThinking, DelayInv, DelayBounded
<1>4. CASE OpenToolCall
  <2>1. lookahead' \in Seq(Symbols)
    BY <1>1, <1>4, AfterTyped DEF OpenToolCall
  <2> QED BY <1>1, <1>4, <2>1 DEF OpenToolCall, DelayInv, DelayBounded
<1>5. CASE HoldText
  <2>1. lookahead' \in Seq(Symbols) /\ Len(lookahead') <= LOOKAHEAD
    BY <1>1, <1>5, HoldDelays DEF HoldText
  <2> QED BY <1>1, <1>5, <2>1 DEF HoldText, DelayInv, DelayBounded
<1>6. CASE CloseThinking
  <2>1. lookahead' \in Seq(Symbols)
    BY <1>1, <1>6, AfterTyped DEF CloseThinking
  <2> QED BY <1>1, <1>6, <2>1 DEF CloseThinking, DelayInv, DelayBounded
<1>7. CASE HoldThinking
  <2>1. lookahead' \in Seq(Symbols) /\ Len(lookahead') <= LOOKAHEAD
    BY <1>1, <1>7, HoldDelays DEF HoldThinking
  <2> QED BY <1>1, <1>7, <2>1 DEF HoldThinking, DelayInv, DelayBounded
<1>8. CASE CloseToolCall
  <2>1. lookahead' \in Seq(Symbols)
    BY <1>1, <1>8, AfterTyped DEF CloseToolCall
  <2> QED BY <1>1, <1>8, <2>1 DEF CloseToolCall, DelayInv, DelayBounded
<1>9. CASE HoldToolCall
  <2>1. lookahead' \in Seq(Symbols) /\ state' = "ToolCall"
    BY <1>9 DEF HoldToolCall
  <2> QED BY <1>1, <1>9, <2>1 DEF HoldToolCall, DelayInv, DelayBounded
<1>10. CASE Flush
  BY <1>1, <1>10 DEF Flush, DelayInv, DelayBounded
<1>11. CASE UNCHANGED vars
  BY <1>11 DEF vars, DelayInv, DelayBounded
<1> QED BY <1>2, <1>3, <1>4, <1>5, <1>6, <1>7, <1>8, <1>9, <1>10, <1>11 DEF Next

\* Outside a tool call, at most LOOKAHEAD symbols wait for the next token
\* (stream_parser.rs:132 and 158).
THEOREM DelayIsBounded == Spec => []DelayBounded
<1>1. Init => DelayInv
  <2> SUFFICES ASSUME Init PROVE DelayInv
    OBVIOUS
  <2>1. words \in Seq(Words) /\ fed = 0 /\ lookahead = <<>>
    BY WordsListed DEF Init
  <2>2. Len(<<>>) <= LOOKAHEAD
    BY BoundsAssumption
  <2> QED BY <2>1, <2>2 DEF DelayInv, DelayBounded
<1>2. DelayInv /\ [Next]_vars => DelayInv'
  BY DelayIsInductive
<1>3. DelayInv => DelayBounded
  BY DEF DelayInv
<1> QED BY <1>1, <1>2, <1>3, PTL DEF Spec
=============================================================================
