--------------------------- MODULE SseReaderProofs ---------------------------
(***************************************************************************)
(* However a response is cut into chunks, what its reader makes of it is   *)
(* the same: proved for responses of any length, of events without a       *)
(* character that two chunks can share.                                    *)
(*                                                                         *)
(* Between two steps the buffer holds the bytes that were read and are not *)
(* drained, and it begins where an event begins.                           *)
(***************************************************************************)
EXTENDS SseReader, WellFoundedInduction, SequenceTheorems, TLAPS

Plain == {"token", "usage", "length", "done", "noise"}

Begins(s, t) == Len(s) <= Len(t) /\ \A i \in 1 .. Len(s) : s[i] = t[i]

-----------------------------------------------------------------------------
(* Numbers and sequences.                                                  *)

\* What stands in for induction.
LEMMA LeastOf ==
  ASSUME NEW S \in SUBSET Nat, S # {}
  PROVE  \E m \in S : \A t \in S : m <= t
<1>1. PICK m \in S : \A t \in S : <<t, m>> \notin OpToRel(<, Nat)
  BY NatLessThanWellFounded, WFMin
<1>2. \A t \in S : t \in Nat /\ m \in Nat /\ ~(t < m)
  BY <1>1 DEF OpToRel
<1> QED BY <1>2

LEMMA BeginsIsPrefix ==
  ASSUME NEW S, NEW s \in Seq(S), NEW t \in Seq(S), Begins(s, t)
  PROVE  IsPrefix(s, t)
<1>1. Len(s) \in Nat /\ Len(t) \in Nat /\ Len(s) <= Len(t)
  BY DEF Begins
<1>2. \A i \in 1 .. Len(s) : i \in 1 .. Len(t) /\ s[i] = t[i]
  BY <1>1 DEF Begins
<1>3. SubSeq(s, 1, Len(s)) = SubSeq(t, 1, Len(s))
  BY <1>1, <1>2
<1> QED BY <1>1, <1>3 DEF IsPrefix

-----------------------------------------------------------------------------
(* The bytes of a response.                                                *)

\* The bytes of a plain response: none is part of a character.
Symbols == {"t", "u", "f", "d", "?", "nl"}

LEMMA PairOf ==
  ASSUME NEW S, NEW a \in S
  PROVE  <<a, a>> \in Seq(S) /\ Len(<<a, a>>) = 2 /\ <<a, a>>[1] = a /\ <<a, a>>[2] = a
OBVIOUS

\* The two bytes of an event say what it is, and are not the end of an event.
LEMMA DataOf ==
  ASSUME NEW f \in Plain
  PROVE  /\ Data[f] \in Seq(Symbols) /\ Len(Data[f]) = 2
         /\ Data[f][1] \in Symbols \ {"nl"} /\ Data[f][2] \in Symbols \ {"nl"}
         /\ (Data[f][1] = "t" <=> f = "token")
         /\ (Data[f] = Data.usage <=> f = "usage")
         /\ (Data[f] = Data.length <=> f = "length")
<1>1. Data.usage = <<"u", "u">> /\ Data.length = <<"f", "f">>
  BY DEF Data
<1>2. CASE f = "token"
  <2>1. Data[f] = <<"t", "t">>
    BY <1>2 DEF Data
  <2> QED BY <1>2, <1>1, <2>1, PairOf DEF Symbols
<1>3. CASE f = "usage"
  <2>1. Data[f] = <<"u", "u">>
    BY <1>3 DEF Data
  <2> QED BY <1>3, <1>1, <2>1, PairOf DEF Symbols
<1>4. CASE f = "length"
  <2>1. Data[f] = <<"f", "f">>
    BY <1>4 DEF Data
  <2> QED BY <1>4, <1>1, <2>1, PairOf DEF Symbols
<1>5. CASE f = "done"
  <2>1. Data[f] = <<"d", "d">>
    BY <1>5 DEF Data
  <2> QED BY <1>5, <1>1, <2>1, PairOf DEF Symbols
<1>6. CASE f = "noise"
  <2>1. Data[f] = <<"?", "?">>
    BY <1>6 DEF Data
  <2> QED BY <1>6, <1>1, <2>1, PairOf DEF Symbols
<1> QED BY <1>2, <1>3, <1>4, <1>5, <1>6 DEF Plain

LEMMA BytesOf ==
  ASSUME NEW f \in Plain
  PROVE  /\ Bytes(f)[1] = Data[f][1] /\ Bytes(f)[2] = Data[f][2]
         /\ Bytes(f)[3] = "nl" /\ Bytes(f)[4] = "nl"
BY DEF Bytes

Framed == frames \in Seq(Plain)

LEMMA WireOf ==
  ASSUME Framed
  PROVE  /\ Len(frames) \in Nat /\ Wire \in Seq(Symbols) /\ Len(Wire) = 4 * Len(frames)
         /\ \A j \in 0 .. Len(frames) - 1 :
              /\ j + 1 \in 1 .. Len(frames) /\ frames[j + 1] \in Plain
              /\ Wire[4 * j + 1] = Data[frames[j + 1]][1] /\ Wire[4 * j + 2] = Data[frames[j + 1]][2]
              /\ Wire[4 * j + 3] = "nl" /\ Wire[4 * j + 4] = "nl"
<1> DEFINE n == Len(frames)
<1>1. n \in Nat /\ \A j \in 1 .. n : frames[j] \in Plain
  BY DEF Framed
<1> HIDE DEF n
<1>2. \A i \in 1 .. 4 * n : (i - 1) \div 4 \in 0 .. n - 1 /\ ((i - 1) % 4) + 1 \in 1 .. 4
  BY <1>1
<1>3. Wire = [i \in 1 .. 4 * n |-> Bytes(frames[((i - 1) \div 4) + 1])[((i - 1) % 4) + 1]]
  BY DEF Wire, Size, n
<1>4. \A f \in Plain, m \in 1 .. 4 : Bytes(f)[m] \in Symbols
  <2> SUFFICES ASSUME NEW f \in Plain, NEW m \in 1 .. 4 PROVE Bytes(f)[m] \in Symbols
    OBVIOUS
  <2>1. m = 1 \/ m = 2 \/ m = 3 \/ m = 4
    OBVIOUS
  <2> QED BY <2>1, BytesOf, DataOf DEF Symbols
<1>5. ASSUME NEW i \in 1 .. 4 * n PROVE Wire[i] \in Symbols
  <2>1. ((i - 1) \div 4) + 1 \in 1 .. n
    BY <1>1, <1>2
  <2> QED BY <1>1, <1>2, <1>3, <1>4, <2>1
<1>6. Wire \in Seq(Symbols) /\ Len(Wire) = 4 * n
  <2>1. Wire \in [1 .. 4 * n -> Symbols]
    BY <1>3, <1>5
  <2> HIDE DEF Wire
  <2> QED BY <1>1, <2>1
<1>7. ASSUME NEW j \in 0 .. n - 1
      PROVE  /\ j + 1 \in 1 .. n /\ frames[j + 1] \in Plain
             /\ Wire[4 * j + 1] = Data[frames[j + 1]][1] /\ Wire[4 * j + 2] = Data[frames[j + 1]][2]
             /\ Wire[4 * j + 3] = "nl" /\ Wire[4 * j + 4] = "nl"
  <2>1. j + 1 \in 1 .. n /\ frames[j + 1] \in Plain
    BY <1>1
  <2>2. ASSUME NEW m \in 1 .. 4 PROVE Wire[4 * j + m] = Bytes(frames[j + 1])[m]
    <3>1. 4 * j + m \in 1 .. 4 * n
      BY <1>1
    <3>2. ((4 * j + m) - 1) \div 4 = j /\ (((4 * j + m) - 1) % 4) + 1 = m
      OBVIOUS
    <3> QED BY <1>3, <3>1, <3>2
  <2> QED BY <2>1, <2>2, BytesOf
<1> QED BY <1>1, <1>5, <1>6, <1>7 DEF n

\* Decoding a chunk changes nothing in it.
LEMMA LossyKeeps ==
  ASSUME NEW s \in Seq(Symbols)
  PROVE  Lossy(s) = s
<1>1. DOMAIN s = 1 .. Len(s) /\ s = [i \in 1 .. Len(s) |-> s[i]]
  OBVIOUS
<1>2. \A i \in 1 .. Len(s) : s[i] # "w1" /\ s[i] # "w2"
  BY DEF Symbols
<1> QED BY <1>1, <1>2 DEF Lossy

-----------------------------------------------------------------------------
(* The contents of a response.                                             *)

Listing(g, fs, n) ==
  g = [k \in 0 .. n |->
         IF k = 0 THEN <<>>
         ELSE IF fs[k] \in {"token", "wide"} THEN Append(g[k - 1], Data[fs[k]])
         ELSE g[k - 1]]

\* What ContentsOf is defined to be exists: a shortest response without it has it.
LEMMA ListingExists ==
  ASSUME NEW fs, NEW n \in Nat
  PROVE  \E g : Listing(g, fs, n)
<1> DEFINE B == {m \in Nat : ~ \E g : Listing(g, fs, m)}
<1> SUFFICES ASSUME B # {} PROVE FALSE
  OBVIOUS
<1>1. PICK m \in B : \A t \in B : m <= t
  <2>1. B \in SUBSET Nat
    OBVIOUS
  <2> HIDE DEF B
  <2> QED BY <2>1, LeastOf
<1>2. m \in Nat /\ ~ \E g : Listing(g, fs, m)
  OBVIOUS
<1>3. CASE m = 0
  <2> DEFINE g == [k \in 0 .. 0 |-> <<>>]
  <2>1. \A k \in 0 .. 0 : k = 0
    OBVIOUS
  <2>2. Listing(g, fs, 0)
    BY <2>1 DEF Listing
  <2> HIDE DEF g
  <2> QED BY <1>2, <1>3, <2>2
<1>4. CASE m # 0
  <2>1. m - 1 \in Nat /\ m - 1 \notin B
    BY <1>1, <1>2, <1>4
  <2>2. PICK g : Listing(g, fs, m - 1)
    BY <2>1
  <2>3. \A k \in 0 .. m - 1 :
          g[k] = IF k = 0 THEN <<>>
                 ELSE IF fs[k] \in {"token", "wide"} THEN Append(g[k - 1], Data[fs[k]])
                 ELSE g[k - 1]
    <3>1. \A h : h = [k \in 0 .. m - 1 |->
                       IF k = 0 THEN <<>>
                       ELSE IF fs[k] \in {"token", "wide"} THEN Append(g[k - 1], Data[fs[k]])
                       ELSE g[k - 1]]
              => \A k \in 0 .. m - 1 :
                   h[k] = IF k = 0 THEN <<>>
                          ELSE IF fs[k] \in {"token", "wide"} THEN Append(g[k - 1], Data[fs[k]])
                          ELSE g[k - 1]
      OBVIOUS
    <3> QED BY <2>2, <3>1 DEF Listing
  <2> DEFINE last == IF fs[m] \in {"token", "wide"} THEN Append(g[m - 1], Data[fs[m]]) ELSE g[m - 1]
             h == [k \in 0 .. m |-> IF k = m THEN last ELSE g[k]]
             all == [k \in 0 .. m |->
                       IF k = 0 THEN <<>>
                       ELSE IF fs[k] \in {"token", "wide"} THEN Append(h[k - 1], Data[fs[k]])
                       ELSE h[k - 1]]
  <2>4. \A k \in 0 .. m : k # m => k \in 0 .. m - 1 /\ h[k] = g[k]
    BY <1>2
  <2>5. h[m] = last /\ m \in 0 .. m
    BY <1>2
  <2>6. \A k \in 0 .. m : k # 0 => k - 1 \in 0 .. m /\ k - 1 # m /\ h[k - 1] = g[k - 1]
    BY <1>2, <2>4
  <2> HIDE DEF last
  <2>7. ASSUME NEW k \in 0 .. m PROVE h[k] = all[k]
    <3> DEFINE next == IF fs[k] \in {"token", "wide"} THEN Append(h[k - 1], Data[fs[k]]) ELSE h[k - 1]
    <3>1. all[k] = IF k = 0 THEN <<>> ELSE next
      OBVIOUS
    <3> HIDE DEF h, all
    <3>2. CASE k = m
      <4>1. next = last
        BY <1>4, <2>6, <3>2 DEF last
      <4> QED BY <1>4, <2>5, <3>1, <3>2, <4>1
    <3>3. CASE k # m
      <4>1. h[k] = g[k] /\ k \in 0 .. m - 1
        BY <2>4, <3>3
      <4>2. k # 0 => h[k - 1] = g[k - 1]
        BY <2>6
      <4> QED BY <2>3, <3>1, <4>1, <4>2
    <3> QED BY <3>2, <3>3
  <2>8. h = all
    BY <2>7
  <2>9. Listing(h, fs, m)
    BY <2>8 DEF Listing
  <2> QED BY <1>2, <2>9
<1> QED BY <1>3, <1>4

LEMMA ContentsUnfold ==
  ASSUME Len(frames) \in Nat
  PROVE  /\ ContentsOf[0] = <<>>
         /\ \A k \in 1 .. Len(frames) :
              ContentsOf[k] = IF frames[k] \in {"token", "wide"} THEN Append(ContentsOf[k - 1], Data[frames[k]])
                              ELSE ContentsOf[k - 1]
<1>1. ContentsOf = CHOOSE g : Listing(g, frames, Len(frames))
  BY DEF ContentsOf, Listing
<1>2. Listing(ContentsOf, frames, Len(frames))
  BY <1>1, ListingExists
<1>3. \A g, h : h = [k \in 0 .. Len(frames) |->
                     IF k = 0 THEN <<>>
                     ELSE IF frames[k] \in {"token", "wide"} THEN Append(g[k - 1], Data[frames[k]])
                     ELSE g[k - 1]]
              => \A k \in 0 .. Len(frames) :
                   h[k] = IF k = 0 THEN <<>>
                          ELSE IF frames[k] \in {"token", "wide"} THEN Append(g[k - 1], Data[frames[k]])
                          ELSE g[k - 1]
  OBVIOUS
<1>4. \A k \in 0 .. Len(frames) :
        ContentsOf[k] = IF k = 0 THEN <<>>
                        ELSE IF frames[k] \in {"token", "wide"} THEN Append(ContentsOf[k - 1], Data[frames[k]])
                        ELSE ContentsOf[k - 1]
  BY <1>2, <1>3 DEF Listing
<1>5. 0 \in 0 .. Len(frames) /\ \A k \in 1 .. Len(frames) : k \in 0 .. Len(frames) /\ k # 0
  OBVIOUS
<1> QED BY <1>4, <1>5

Texts == Seq(Seq(Symbols))

\* One more event adds its content, if it has one.
LEMMA OneMoreContent ==
  ASSUME Framed, NEW k \in 1 .. Len(frames)
  PROVE  /\ k - 1 \in 0 .. Len(frames) /\ frames[k] \in Plain
         /\ ContentsOf[k] = IF frames[k] = "token" THEN Append(ContentsOf[k - 1], Data[frames[k]]) ELSE ContentsOf[k - 1]
<1>1. Len(frames) \in Nat /\ frames[k] \in Plain
  BY DEF Framed
<1>2. frames[k] \in {"token", "wide"} <=> frames[k] = "token"
  BY <1>1 DEF Plain
<1> QED BY <1>1, <1>2, ContentsUnfold

LEMMA ContentsTyped ==
  ASSUME Framed
  PROVE  \A k \in 0 .. Len(frames) : ContentsOf[k] \in Texts
<1>0. Len(frames) \in Nat
  BY DEF Framed
<1> DEFINE B == {k \in 0 .. Len(frames) : ContentsOf[k] \notin Texts}
<1> SUFFICES ASSUME B # {} PROVE FALSE
  OBVIOUS
<1>1. PICK m \in B : \A t \in B : m <= t
  <2>1. B \in SUBSET Nat
    BY <1>0
  <2> HIDE DEF B
  <2> QED BY <2>1, LeastOf
<1>2. m \in 0 .. Len(frames) /\ ContentsOf[m] \notin Texts
  OBVIOUS
<1>3. m # 0
  <2>1. <<>> \in Texts
    BY DEF Texts
  <2> HIDE DEF Texts
  <2>2. ContentsOf[0] \in Texts
    BY <1>0, <2>1, ContentsUnfold
  <2> QED BY <1>2, <2>2
<1>4. m \in 1 .. Len(frames) /\ m - 1 \in 0 .. Len(frames) /\ ~(m <= m - 1)
  BY <1>0, <1>2, <1>3
<1>5. ContentsOf[m - 1] \in Texts
  BY <1>1, <1>4
<1>6. /\ Data[frames[m]] \in Seq(Symbols)
      /\ ContentsOf[m] = IF frames[m] = "token" THEN Append(ContentsOf[m - 1], Data[frames[m]]) ELSE ContentsOf[m - 1]
  BY <1>4, OneMoreContent, DataOf
<1>7. ContentsOf[m] \in Texts
  BY <1>5, <1>6 DEF Texts
<1> QED BY <1>2, <1>7

LEMMA AppendBegins ==
  ASSUME NEW S, NEW s \in Seq(S), NEW t \in Seq(S), NEW x \in S, Begins(s, t)
  PROVE  Begins(s, Append(t, x))
BY DEF Begins

LEMMA ContentsGrow ==
  ASSUME Framed, NEW k \in 0 .. Len(frames)
  PROVE  IsPrefix(ContentsOf[k], Contents)
<1>0. Len(frames) \in Nat
  BY DEF Framed
<1> DEFINE B == {j \in 0 .. Len(frames) : k <= j /\ ~Begins(ContentsOf[k], ContentsOf[j])}
<1>1. B = {}
  <2> SUFFICES ASSUME B # {} PROVE FALSE
    OBVIOUS
  <2>1. PICK m \in B : \A t \in B : m <= t
    <3>1. B \in SUBSET Nat
      BY <1>0
    <3> HIDE DEF B
    <3> QED BY <3>1, LeastOf
  <2>2. m \in 0 .. Len(frames) /\ k <= m /\ ~Begins(ContentsOf[k], ContentsOf[m])
    OBVIOUS
  <2>3. m # k
    <3>1. ContentsOf[k] \in Texts
      BY ContentsTyped
    <3>2. Begins(ContentsOf[k], ContentsOf[k])
      BY <3>1 DEF Begins, Texts
    <3> QED BY <2>2, <3>2
  <2>4. m \in 1 .. Len(frames) /\ m - 1 \in 0 .. Len(frames) /\ ~(m <= m - 1) /\ k <= m - 1
    BY <1>0, <2>2, <2>3
  <2>5. Begins(ContentsOf[k], ContentsOf[m - 1])
    BY <2>1, <2>4
  <2>6. /\ Data[frames[m]] \in Seq(Symbols)
        /\ ContentsOf[m] = IF frames[m] = "token" THEN Append(ContentsOf[m - 1], Data[frames[m]]) ELSE ContentsOf[m - 1]
        /\ ContentsOf[k] \in Texts /\ ContentsOf[m - 1] \in Texts
    BY <2>4, OneMoreContent, DataOf, ContentsTyped
  <2>7. Begins(ContentsOf[k], ContentsOf[m])
    BY <2>5, <2>6, AppendBegins DEF Texts
  <2> QED BY <2>2, <2>7
<1>2. Len(frames) \in 0 .. Len(frames) /\ k <= Len(frames)
  BY <1>0
<1>3. Begins(ContentsOf[k], Contents)
  BY <1>1, <1>2 DEF Contents
<1>4. ContentsOf[k] \in Texts /\ Contents \in Texts
  BY <1>2, ContentsTyped DEF Contents
<1> QED BY <1>3, <1>4, BeginsIsPrefix DEF Texts

-----------------------------------------------------------------------------
(* The reader between two steps.                                           *)

\* The first k events are drained, and the buffer holds what was read behind them.
Behind(k) ==
  /\ k \in 0 .. Len(frames) /\ 4 * k <= read
  /\ buf = SubSeq(Wire, 4 * k + 1, read)
  /\ tokens = ContentsOf[k]
  /\ pc # "drain" => read < 4 * k + 4
  /\ finish_reason = IF \E i \in 1 .. k : frames[i] = "length" THEN "length" ELSE "stop"
  /\ (\E i \in 1 .. k : frames[i] = "usage") /\ UsageOf > 0 => completion_tokens = UsageOf

Inv ==
  /\ Framed
  /\ read \in 0 .. 4 * Len(frames)
  /\ pc \in {"read", "drain", "end"}
  /\ \E k \in 0 .. Len(frames) : Behind(k)
  /\ pc = "end" => read = 4 * Len(frames)
  /\ pc = "end" => summary = [tokens_generated |-> completion_tokens, finish_reason |-> finish_reason]

\* The bytes in the buffer, and where its first event ends.
LEMMA BufferOf ==
  ASSUME Inv, NEW k \in 0 .. Len(frames), Behind(k)
  PROVE  /\ buf \in Seq(Symbols) /\ Len(buf) = read - 4 * k
         /\ \A i \in 1 .. Len(buf) : buf[i] = Wire[4 * k + i]
<1>1. /\ Len(frames) \in Nat /\ Wire \in Seq(Symbols) /\ Len(Wire) = 4 * Len(frames)
  BY WireOf DEF Inv
<1>2. /\ k \in Nat /\ read \in Nat /\ 4 * k <= read /\ read <= 4 * Len(frames)
      /\ buf = SubSeq(Wire, 4 * k + 1, read)
  BY <1>1 DEF Inv, Behind
<1>3. \A i \in 4 * k + 1 .. read : Wire[i] \in Symbols
  <2>1. \A i \in 4 * k + 1 .. read : i \in 1 .. Len(Wire)
    BY <1>1, <1>2
  <2> QED BY <1>1, <2>1
<1>4. 4 * k + 1 \in Int /\ read \in Int
  BY <1>2
<1> DEFINE a == 4 * k + 1
<1>5. /\ SubSeq(Wire, a, read) \in Seq(Symbols)
      /\ Len(SubSeq(Wire, a, read)) = IF a <= read THEN read - a + 1 ELSE 0
      /\ \A i \in 1 .. read - a + 1 : SubSeq(Wire, a, read)[i] = Wire[a + i - 1]
  <2>1. a \in Int /\ read \in Int /\ \A i \in a .. read : Wire[i] \in Symbols
    BY <1>3, <1>4
  <2> HIDE DEF a
  <2> QED BY ONLY <2>1, SubSeqProperties
<1>6. Len(buf) = read - 4 * k
  BY <1>2, <1>5
<1>7. ASSUME NEW i \in 1 .. Len(buf) PROVE buf[i] = Wire[4 * k + i]
  <2>1. i \in 1 .. read - a + 1 /\ a + i - 1 = 4 * k + i
    BY <1>2, <1>6
  <2> QED BY <1>2, <1>5, <2>1
<1> QED BY <1>2, <1>5, <1>6, <1>7

\* A whole event in the buffer ends at its third byte.
LEMMA EndsOf ==
  ASSUME Inv, NEW k \in 0 .. Len(frames), Behind(k)
  PROVE  /\ Len(buf) < 4 => Ends(buf) = {}
         /\ Len(buf) >= 4 => /\ 3 \in Ends(buf) /\ \A i \in Ends(buf) : 3 <= i
                            /\ k + 1 \in 1 .. Len(frames) /\ frames[k + 1] \in Plain
                            /\ buf[1] = Data[frames[k + 1]][1] /\ buf[2] = Data[frames[k + 1]][2]
<1>1. /\ Len(buf) = read - 4 * k /\ \A i \in 1 .. Len(buf) : buf[i] = Wire[4 * k + i]
      /\ Len(frames) \in Nat /\ read <= 4 * Len(frames) /\ read \in Nat /\ k \in Nat /\ 4 * k <= read
  <2>1. Len(buf) = read - 4 * k /\ \A i \in 1 .. Len(buf) : buf[i] = Wire[4 * k + i]
    BY BufferOf
  <2>2. Len(frames) \in Nat
    BY WireOf DEF Inv
  <2> QED BY <2>1, <2>2 DEF Inv, Behind
<1>2. ASSUME Len(buf) > 0
      PROVE  /\ k \in 0 .. Len(frames) - 1 /\ k + 1 \in 1 .. Len(frames) /\ frames[k + 1] \in Plain
             /\ buf[1] = Data[frames[k + 1]][1] /\ (Len(buf) > 1 => buf[2] = Data[frames[k + 1]][2])
             /\ (Len(buf) >= 4 => buf[3] = "nl" /\ buf[4] = "nl")
             /\ Data[frames[k + 1]][1] # "nl" /\ Data[frames[k + 1]][2] # "nl"
  <2>1. k \in 0 .. Len(frames) - 1
    BY <1>1, <1>2
  <2>2. /\ k + 1 \in 1 .. Len(frames) /\ frames[k + 1] \in Plain
        /\ Wire[4 * k + 1] = Data[frames[k + 1]][1] /\ Wire[4 * k + 2] = Data[frames[k + 1]][2]
        /\ Wire[4 * k + 3] = "nl" /\ Wire[4 * k + 4] = "nl"
    BY <2>1, WireOf DEF Inv
  <2>3. Data[frames[k + 1]][1] # "nl" /\ Data[frames[k + 1]][2] # "nl"
    BY <2>2, DataOf
  <2> QED BY <1>1, <1>2, <2>1, <2>2, <2>3
<1>3. \A i \in Ends(buf) : 3 <= i
  <2> SUFFICES ASSUME NEW i \in Ends(buf) PROVE 3 <= i
    OBVIOUS
  <2>1. i \in 1 .. Len(buf) - 1 /\ buf[i] = "nl"
    BY DEF Ends
  <2>2. Len(buf) > 1 /\ i \in Nat /\ i # 0
    BY <1>1, <2>1
  <2>3. buf[1] # "nl" /\ buf[2] # "nl"
    BY <1>2, <2>2, <1>1
  <2>4. i # 1 /\ i # 2
    BY <2>1, <2>3
  <2> QED BY <2>2, <2>4
<1>4. ASSUME Len(buf) < 4 PROVE Ends(buf) = {}
  <2> SUFFICES ASSUME NEW i \in Ends(buf) PROVE FALSE
    OBVIOUS
  <2>1. i \in 1 .. Len(buf) - 1 /\ 3 <= i /\ buf[i] = "nl" /\ buf[i + 1] = "nl"
    BY <1>3 DEF Ends
  <2> QED BY <1>1, <1>4, <2>1
<1>5. ASSUME Len(buf) >= 4 PROVE 3 \in Ends(buf)
  <2>1. buf[3] = "nl" /\ buf[3 + 1] = "nl" /\ 3 \in 1 .. Len(buf) - 1
    BY <1>1, <1>2, <1>5
  <2> QED BY <2>1 DEF Ends
<1>6. Len(buf) >= 4 => Len(buf) > 0 /\ Len(buf) > 1
  BY <1>1
<1> QED BY <1>2, <1>3, <1>4, <1>5, <1>6

LEMMA SliceOf ==
  ASSUME NEW S, NEW s \in Seq(S), NEW a \in Nat, NEW b \in Nat, 1 <= a, b <= Len(s)
  PROVE  /\ SubSeq(s, a, b) \in Seq(S)
         /\ Len(SubSeq(s, a, b)) = (IF a <= b THEN b - a + 1 ELSE 0)
         /\ \A i \in 1 .. b - a + 1 : SubSeq(s, a, b)[i] = s[a + i - 1]
<1>1. \A i \in a .. b : i \in 1 .. Len(s)
  OBVIOUS
<1>2. a \in Int /\ b \in Int /\ \A i \in a .. b : s[i] \in S
  BY <1>1
<1> QED BY ONLY <1>2, SubSeqProperties

Joins(s, a, b, c) == SubSeq(s, a, b) \o SubSeq(s, b + 1, c) = SubSeq(s, a, c)

LEMMA SlicesJoin ==
  ASSUME NEW S, NEW s \in Seq(S), NEW a \in Nat, NEW b \in Nat, NEW c \in Nat,
         1 <= a, a <= b + 1, b <= c, c <= Len(s)
  PROVE  Joins(s, a, b, c)
<1>1. a \in 1 .. Len(s) + 1 /\ b \in a - 1 .. Len(s) /\ c \in b .. Len(s)
  OBVIOUS
<1>2. SubSeq(s, a, b) \o SubSeq(s, b + 1, c) = SubSeq(s, a, c)
  BY ONLY <1>1, s \in Seq(S), ConcatAdjacentSubSeq
<1> QED BY ONLY <1>2 DEF Joins

\* Behind the first event of the buffer stands what was read behind it.
LEMMA RestOf ==
  ASSUME Inv, NEW k \in 0 .. Len(frames), Behind(k), Len(buf) >= 4
  PROVE  /\ SubSeq(buf, 5, Len(buf)) = SubSeq(Wire, 4 * (k + 1) + 1, read)
         /\ 4 * (k + 1) <= read
<1>1. /\ buf \in Seq(Symbols) /\ Len(buf) = read - 4 * k /\ \A i \in 1 .. Len(buf) : buf[i] = Wire[4 * k + i]
  BY BufferOf
<1>2. Wire \in Seq(Symbols) /\ Len(Wire) = 4 * Len(frames) /\ Len(frames) \in Nat
  BY WireOf DEF Inv
<1>3. read \in Nat /\ read <= 4 * Len(frames) /\ k \in Nat
  BY <1>2 DEF Inv
<1> DEFINE m == Len(buf) - 4
           a == 4 * (k + 1) + 1
           rest == SubSeq(buf, 5, Len(buf))
           behind == SubSeq(Wire, a, read)
<1>4. /\ m \in Nat /\ Len(buf) \in Nat /\ Len(buf) = m + 4 /\ a \in Nat /\ 1 <= a
      /\ read <= Len(Wire) /\ Len(buf) - 5 + 1 = m /\ read - a + 1 = m
      /\ a = 4 * k + 5 /\ 4 * (k + 1) <= read
  BY <1>1, <1>2, <1>3
<1> HIDE DEF m, a
<1>5. /\ rest \in Seq(Symbols) /\ Len(rest) = (IF 5 <= Len(buf) THEN m ELSE 0)
      /\ \A i \in 1 .. m : rest[i] = buf[5 + i - 1]
  <2>1. /\ SubSeq(buf, 5, Len(buf)) \in Seq(Symbols)
        /\ Len(SubSeq(buf, 5, Len(buf))) = (IF 5 <= Len(buf) THEN Len(buf) - 5 + 1 ELSE 0)
        /\ \A i \in 1 .. Len(buf) - 5 + 1 : SubSeq(buf, 5, Len(buf))[i] = buf[5 + i - 1]
    <3>1. 5 \in Nat /\ 1 <= 5 /\ Len(buf) <= Len(buf) /\ buf \in Seq(Symbols) /\ Len(buf) \in Nat
      BY <1>1, <1>4
    <3> QED BY ONLY <3>1, SliceOf
  <2> QED BY <1>4, <2>1
<1>6. /\ behind \in Seq(Symbols) /\ Len(behind) = (IF a <= read THEN m ELSE 0)
      /\ \A i \in 1 .. m : behind[i] = Wire[a + i - 1]
  BY <1>2, <1>3, <1>4, SliceOf
<1>7. ASSUME NEW i \in 1 .. m PROVE buf[5 + i - 1] = Wire[a + i - 1]
  <2>1. 5 + i - 1 = i + 4 /\ i + 4 \in 1 .. Len(buf) /\ a + i - 1 = 4 * k + (i + 4)
    BY <1>3, <1>4
  <2> QED BY <1>1, <2>1
<1>8. Len(rest) = m /\ Len(behind) = m
  <2>1. (5 <= Len(buf) \/ m = 0) /\ (a <= read \/ m = 0)
    BY <1>3, <1>4
  <2> HIDE DEF rest, behind
  <2> QED BY <1>5, <1>6, <2>1
<1>9. rest = behind
  <2> HIDE DEF rest, behind
  <2>1. \A i \in 1 .. Len(rest) : rest[i] = behind[i]
    BY <1>5, <1>6, <1>7, <1>8
  <2>2. rest \in Seq(Symbols) /\ behind \in Seq(Symbols) /\ Len(rest) = Len(behind)
    BY <1>5, <1>6, <1>8
  <2> QED BY ONLY <2>1, <2>2, SeqEqual
<1> QED BY <1>4, <1>9 DEF a

LEMMA Same ==
  ASSUME frames' = frames
  PROVE  Wire' = Wire /\ ContentsOf' = ContentsOf /\ (Framed => Framed')
BY DEF Wire, ContentsOf, Framed

-----------------------------------------------------------------------------
(* The steps.                                                              *)

LEMMA Begun ==
  ASSUME Init, "wide" \notin Kinds
  PROVE  Inv
<1>1. PICK n \in 0 .. MaxFrames : frames \in [1 .. n -> Kinds]
  BY DEF Init
<1>2. Kinds \subseteq Plain
  BY ReaderAssumption DEF Plain, Data
<1>3. n \in Nat
  BY ReaderAssumption
<1>4. frames \in [1 .. n -> Plain]
  BY <1>1, <1>2
<1>5. Framed
  BY <1>3, <1>4 DEF Framed
<1>6. Len(frames) \in Nat /\ ContentsOf[0] = <<>>
  BY <1>5, WireOf, ContentsUnfold
<1>7. SubSeq(Wire, 4 * 0 + 1, 0) = <<>>
  BY SMT
<1>8. Behind(0)
  BY <1>6, <1>7 DEF Init, Behind
<1> QED BY <1>5, <1>6, <1>8 DEF Init, Inv

LEMMA ChunkKeeps ==
  ASSUME Inv, NEW n \in 1 .. Len(Wire), Chunk(n)
  PROVE  Inv'
<1>1. Len(frames) \in Nat /\ Wire \in Seq(Symbols) /\ Len(Wire) = 4 * Len(frames) /\ Framed
  BY WireOf DEF Inv
<1>2. frames' = frames /\ Wire' = Wire /\ ContentsOf' = ContentsOf /\ Framed'
  BY <1>1, Same DEF Chunk
<1>3. PICK k \in 0 .. Len(frames) : Behind(k)
  BY DEF Inv
<1>4. /\ n \in Nat /\ k \in Nat /\ read \in Nat /\ read + n \in Nat /\ read + 1 \in Nat
      /\ 4 * k <= read /\ read + n <= Len(Wire) /\ 1 <= read + 1
  BY <1>1, <1>3 DEF Inv, Behind, Chunk
<1> DEFINE more == SubSeq(Wire, read + 1, read + n)
<1>5. Lossy(more) = more
  <2>1. more \in Seq(Symbols)
    BY <1>1, <1>4, SliceOf
  <2> HIDE DEF more
  <2> QED BY <2>1, LossyKeeps
<1>6. buf' = SubSeq(Wire, 4 * k + 1, read) \o SubSeq(Wire, read + 1, read + n)
  BY <1>3, <1>5 DEF Chunk, Behind
<1> DEFINE a == 4 * k + 1
<1>7. a \in Nat /\ 1 <= a /\ a <= read + 1 /\ read <= read + n
  BY <1>4
<1>8. SubSeq(Wire, a, read) \o SubSeq(Wire, read + 1, read + n) = SubSeq(Wire, a, read + n)
  <2> HIDE DEF a
  <2>1. Joins(Wire, a, read, read + n)
    BY <1>1, <1>4, <1>7, SlicesJoin
  <2> QED BY ONLY <2>1 DEF Joins
<1>9. Behind(k)'
  <2>1. /\ read' = read + n /\ pc' = "drain" /\ tokens' = tokens
        /\ finish_reason' = finish_reason /\ completion_tokens' = completion_tokens
    BY DEF Chunk
  <2>2. buf' = SubSeq(Wire', 4 * k + 1, read')
    BY <1>2, <1>6, <1>8, <2>1
  <2>3. k \in 0 .. Len(frames') /\ 4 * k <= read'
    BY <1>2, <1>4, <2>1
  <2>4. /\ tokens' = ContentsOf'[k]
        /\ finish_reason' = IF \E i \in 1 .. k : frames'[i] = "length" THEN "length" ELSE "stop"
        /\ (\E i \in 1 .. k : frames'[i] = "usage") /\ UsageOf > 0 => completion_tokens' = UsageOf
    BY <1>2, <1>3, <2>1, Zenon DEF Behind
  <2> QED BY <2>1, <2>2, <2>3, <2>4 DEF Behind
<1>10. read' \in 0 .. 4 * Len(frames') /\ pc' = "drain"
  BY <1>1, <1>2, <1>4 DEF Chunk
<1> QED BY <1>2, <1>3, <1>9, <1>10 DEF Inv

LEMMA DrainKeeps ==
  ASSUME Inv, Drain
  PROVE  Inv'
<1>1. Len(frames) \in Nat /\ Framed
  BY WireOf DEF Inv
<1>2. frames' = frames /\ Wire' = Wire /\ ContentsOf' = ContentsOf /\ Framed'
  BY <1>1, Same DEF Drain
<1>3. PICK k \in 0 .. Len(frames) : Behind(k)
  BY DEF Inv
<1> DEFINE f == frames[k + 1]
           pos == CHOOSE i \in Ends(buf) : \A j \in Ends(buf) : i <= j
           data == SubSeq(buf, 1, pos - 1)
<1>4. Len(buf) \in Nat /\ k \in Nat /\ buf \in Seq(Symbols)
  BY <1>1, <1>3, BufferOf
<1>5. Len(buf) >= 4
  BY <1>3, <1>4, EndsOf DEF Drain
<1>6. /\ 3 \in Ends(buf) /\ \A i \in Ends(buf) : 3 <= i
      /\ k + 1 \in 1 .. Len(frames) /\ f \in Plain
      /\ buf[1] = Data[f][1] /\ buf[2] = Data[f][2]
  BY <1>3, <1>5, EndsOf
<1>7. pos = 3
  <2>1. \A i \in Ends(buf) : i \in Nat
    BY <1>4 DEF Ends
  <2>2. \A i \in Ends(buf) : (\A j \in Ends(buf) : i <= j) => i = 3
    BY <1>6, <2>1
  <2> QED BY <1>6, <2>2
<1> HIDE DEF f, pos
<1>8. data = Data[f]
  <2>1. Data[f] \in Seq(Symbols) /\ Len(Data[f]) = 2
    BY <1>6, DataOf
  <2>2. /\ SubSeq(buf, 1, 2) \in Seq(Symbols) /\ Len(SubSeq(buf, 1, 2)) = 2
        /\ SubSeq(buf, 1, 2)[1] = buf[1] /\ SubSeq(buf, 1, 2)[2] = buf[2]
    BY <1>4, <1>5
  <2>3. \A i \in 1 .. 2 : i = 1 \/ i = 2
    OBVIOUS
  <2>4. \A i \in 1 .. Len(SubSeq(buf, 1, 2)) : SubSeq(buf, 1, 2)[i] = Data[f][i]
    BY <1>6, <2>2, <2>3
  <2>5. SubSeq(buf, 1, 2) = Data[f]
    BY ONLY <2>1, <2>2, <2>4, SeqEqual
  <2> QED BY <1>7, <2>5
<1>9. /\ IsText(data) <=> f = "token"
      /\ data = Data.usage <=> f = "usage"
      /\ data = Data.length <=> f = "length"
  <2>1. /\ Data[f] # <<>> /\ Data[f][1] \notin {"w1", "bad"}
        /\ (Data[f][1] = "t" <=> f = "token")
        /\ (Data[f] = Data.usage <=> f = "usage") /\ (Data[f] = Data.length <=> f = "length")
    <3>1. Len(Data[f]) # Len(<<>>)
      BY <1>6, DataOf
    <3> QED BY <1>6, <3>1, DataOf DEF Symbols
  <2> HIDE DEF data
  <2> QED BY <1>8, <2>1 DEF IsText
<1>10. /\ buf' = SubSeq(buf, pos + 2, Len(buf))
       /\ tokens' = IF IsText(data) THEN Append(tokens, data) ELSE tokens
       /\ completion_tokens' =
            IF data = Data.usage THEN UsageOf
            ELSE IF IsText(data) /\ completion_tokens = 0 THEN 1 ELSE completion_tokens
       /\ finish_reason' = IF data = Data.length THEN "length" ELSE finish_reason
       /\ read' = read /\ pc' = pc /\ pc = "drain"
  BY DEF Drain, pos
<1> HIDE DEF data
<1>11. /\ tokens' = ContentsOf'[k + 1]
       /\ buf' = SubSeq(Wire', 4 * (k + 1) + 1, read') /\ 4 * (k + 1) <= read'
  <2>1. tokens' = IF f = "token" THEN Append(ContentsOf[k], Data[f]) ELSE ContentsOf[k]
    BY <1>3, <1>8, <1>9, <1>10 DEF Behind
  <2>2. ContentsOf[k + 1] = IF f = "token" THEN Append(ContentsOf[k], Data[f]) ELSE ContentsOf[k]
    <3>1. (k + 1) - 1 = k
      BY <1>4
    <3> QED BY <1>1, <1>6, <3>1, OneMoreContent DEF f
  <2>3. buf' = SubSeq(buf, 5, Len(buf))
    BY <1>7, <1>10
  <2> QED BY <1>2, <1>3, <1>5, <1>10, <2>1, <2>2, <2>3, RestOf
<1>12. \A kind : (\E i \in 1 .. k + 1 : frames[i] = kind) <=> ((\E i \in 1 .. k : frames[i] = kind) \/ f = kind)
  <2>1. \A i \in 1 .. k + 1 : i \in 1 .. k \/ i = k + 1
    BY <1>4
  <2>2. k + 1 \in 1 .. k + 1 /\ \A i \in 1 .. k : i \in 1 .. k + 1
    BY <1>4
  <2> QED BY <2>1, <2>2 DEF f
<1>13. finish_reason' = IF \E i \in 1 .. k + 1 : frames'[i] = "length" THEN "length" ELSE "stop"
  <2>1. finish_reason = IF \E i \in 1 .. k : frames[i] = "length" THEN "length" ELSE "stop"
    BY <1>3 DEF Behind
  <2>2. (\E i \in 1 .. k + 1 : frames[i] = "length") <=> ((\E i \in 1 .. k : frames[i] = "length") \/ f = "length")
    BY <1>12
  <2>3. finish_reason' = IF f = "length" THEN "length" ELSE finish_reason
    BY <1>9, <1>10
  <2> QED BY <1>2, <2>1, <2>2, <2>3
<1>14. (\E i \in 1 .. k + 1 : frames'[i] = "usage") /\ UsageOf > 0 => completion_tokens' = UsageOf
  <2>1. (\E i \in 1 .. k : frames[i] = "usage") /\ UsageOf > 0 => completion_tokens = UsageOf
    BY <1>3 DEF Behind
  <2>2. (\E i \in 1 .. k + 1 : frames[i] = "usage") <=> ((\E i \in 1 .. k : frames[i] = "usage") \/ f = "usage")
    BY <1>12
  <2>3. completion_tokens' = IF f = "usage" THEN UsageOf
                             ELSE IF IsText(data) /\ completion_tokens = 0 THEN 1 ELSE completion_tokens
    BY <1>9, <1>10
  <2>4. UsageOf > 0 => UsageOf # 0
    BY ReaderAssumption
  <2> QED BY <1>2, <2>1, <2>2, <2>3, <2>4
<1>15. k + 1 \in 0 .. Len(frames') /\ pc' = "drain"
  BY <1>1, <1>2, <1>4, <1>6, <1>10
<1>16. Behind(k + 1)'
  BY <1>11, <1>13, <1>14, <1>15 DEF Behind
<1> QED BY <1>1, <1>2, <1>10, <1>15, <1>16 DEF Inv

LEMMA DrainedKeeps ==
  ASSUME Inv, Drained
  PROVE  Inv'
<1>1. Len(frames) \in Nat /\ Framed
  BY WireOf DEF Inv
<1>2. frames' = frames /\ Wire' = Wire /\ ContentsOf' = ContentsOf /\ Framed'
  BY <1>1, Same DEF Drained
<1>3. PICK k \in 0 .. Len(frames) : Behind(k)
  BY DEF Inv
<1>4. /\ read' = read /\ buf' = buf /\ tokens' = tokens /\ finish_reason' = finish_reason
      /\ completion_tokens' = completion_tokens /\ pc' = "read"
  BY DEF Drained
<1>5. read < 4 * k + 4
  <2>1. Len(buf) = read - 4 * k /\ ~(Len(buf) >= 4)
    BY <1>3, BufferOf, EndsOf DEF Drained
  <2> QED BY <1>1, <2>1 DEF Inv
<1>6. Behind(k)'
  BY <1>2, <1>3, <1>4, <1>5, Zenon DEF Behind
<1> QED BY <1>1, <1>2, <1>4, <1>6 DEF Inv

\* When all is read and no whole event is in the buffer, every event is drained.
LEMMA AllDrained ==
  ASSUME Inv, NEW k \in 0 .. Len(frames), Behind(k), pc # "drain", read = 4 * Len(frames)
  PROVE  k = Len(frames) /\ tokens = Contents /\ buf = <<>>
<1>1. Len(frames) \in Nat
  BY WireOf DEF Inv
<1>2. k = Len(frames)
  BY <1>1 DEF Behind
<1>3. buf \in Seq(Symbols) /\ Len(buf) = 0
  BY <1>1, <1>2, BufferOf
<1>4. buf = <<>>
  BY <1>3, EmptySeq
<1> QED BY <1>2, <1>4 DEF Behind, Contents

LEMMA FinishKeeps ==
  ASSUME Inv, Finish
  PROVE  Inv'
<1>1. Len(frames) \in Nat /\ Framed /\ Len(Wire) = 4 * Len(frames)
  BY WireOf DEF Inv
<1>2. frames' = frames /\ Wire' = Wire /\ ContentsOf' = ContentsOf /\ Framed'
  BY <1>1, Same DEF Finish
<1>3. PICK k \in 0 .. Len(frames) : Behind(k)
  BY DEF Inv
<1>4. /\ read' = read /\ buf' = buf /\ tokens' = tokens /\ finish_reason' = finish_reason
      /\ completion_tokens' = completion_tokens /\ pc' = "end" /\ pc = "read"
      /\ read = 4 * Len(frames)
      /\ summary' = [tokens_generated |-> completion_tokens, finish_reason |-> finish_reason]
  BY <1>1 DEF Finish
<1>5. Behind(k)'
  BY <1>2, <1>3, <1>4, Zenon DEF Behind
<1> QED BY <1>1, <1>2, <1>4, <1>5 DEF Inv

LEMMA StutterKeeps ==
  ASSUME Inv, UNCHANGED vars
  PROVE  Inv'
<1>1. Len(frames) \in Nat /\ Framed
  BY WireOf DEF Inv
<1>2. frames' = frames /\ Wire' = Wire /\ ContentsOf' = ContentsOf /\ Framed'
  BY <1>1, Same DEF vars
<1>3. PICK k \in 0 .. Len(frames) : Behind(k)
  BY DEF Inv
<1>4. Behind(k)'
  BY <1>2, <1>3, Zenon DEF Behind, vars
<1> QED BY <1>2, <1>4 DEF Inv, vars

\* Between two steps the buffer is what was read behind the events drained,
\* when no character can be cut (proxy.rs:124-180).
THEOREM BufferIsTheRest ==
  ASSUME "wide" \notin Kinds
  PROVE  Spec => []Inv
<1>1. Init => Inv
  BY Begun
<1>2. Inv /\ [Next]_vars => Inv'
  BY ChunkKeeps, DrainKeeps, DrainedKeeps, FinishKeeps, StutterKeeps DEF Next
<1> QED BY <1>1, <1>2, PTL DEF Spec

-----------------------------------------------------------------------------
(* What the reader sends.                                                  *)

\* Every delta becomes one Token, in order and unchanged, however a response
\* whose characters are one byte each is cut (proxy.rs:124-180).
THEOREM ChunksAreInvisible ==
  ASSUME "wide" \notin Kinds
  PROVE  Spec => []ChunkingInvisible
<1>1. ASSUME Inv PROVE ChunkingInvisible
  <2>1. PICK k \in 0 .. Len(frames) : Behind(k)
    BY <1>1 DEF Inv
  <2>2. IsPrefix(tokens, Contents)
    <3>1. IsPrefix(ContentsOf[k], Contents)
      BY <1>1, ContentsGrow DEF Inv
    <3> QED BY <2>1, <3>1 DEF Behind
  <2>3. ASSUME pc = "end" PROVE tokens = Contents /\ buf = <<>>
    <3>1. pc # "drain" /\ read = 4 * Len(frames)
      BY <1>1, <2>3 DEF Inv
    <3> QED BY <1>1, <2>1, <3>1, AllDrained
  <2> QED BY <2>2, <2>3 DEF ChunkingInvisible
<1> QED BY <1>1, BufferIsTheRest, PTL

\* The summary is what llama-server reported, however the response is cut
\* (proxy.rs:153-162).
THEOREM SummaryIsAsReported ==
  ASSUME "wide" \notin Kinds
  PROVE  Spec => []SummaryAsReported
<1>1. ASSUME Inv PROVE SummaryAsReported
  <2> SUFFICES ASSUME pc = "end"
               PROVE  /\ summary.finish_reason = IF Contains(frames, "length") THEN "length" ELSE "stop"
                      /\ Contains(frames, "usage") /\ UsageOf > 0 => summary.tokens_generated = UsageOf
    BY DEF SummaryAsReported
  <2>1. PICK k \in 0 .. Len(frames) : Behind(k)
    BY <1>1 DEF Inv
  <2>2. /\ read = 4 * Len(frames) /\ pc # "drain"
        /\ summary = [tokens_generated |-> completion_tokens, finish_reason |-> finish_reason]
    BY <1>1 DEF Inv
  <2>3. k = Len(frames)
    BY <1>1, <2>1, <2>2, AllDrained
  <2>4. \A kind : Contains(frames, kind) <=> \E i \in 1 .. k : frames[i] = kind
    BY <2>3 DEF Contains
  <2>5. summary.finish_reason = finish_reason /\ summary.tokens_generated = completion_tokens
    BY <2>2
  <2> QED BY <2>1, <2>4, <2>5 DEF Behind
<1> QED BY <1>1, BufferIsTheRest, PTL
=============================================================================
