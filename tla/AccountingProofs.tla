-------------------------- MODULE AccountingProofs --------------------------
(***************************************************************************)
(* The conversation log of Accounting, for any number of requests, days,   *)
(* failures and restarts.                                                  *)
(*                                                                         *)
(* The buffer belongs behind the file that is open: Flow(d) is what the    *)
(* file of day d holds, with what is still to come.  A write makes one     *)
(* flow longer, by the line or its first piece; a rotation and the end of  *)
(* the process make flows shorter; nothing else touches them.              *)
(*                                                                         *)
(* Then come the dates that name the files, and last the window of the     *)
(* latest requests that the observability routes show.  A request is in    *)
(* the totals before it is in the window.  Counted and Summed are the      *)
(* requests between the two: the totals cover the window with them, and    *)
(* the two together are what a step of a request, a new sample or the loss *)
(* of the oldest one keeps.                                                *)
(***************************************************************************)
EXTENDS Accounting, Calendar, SequenceTheorems, FiniteSetTheorems, FunctionTheorems, TLAPS

AllPieces == Reqs \X {"text", "end"}
AllSteps  == {"count", "sum", "push", "stamp", "rotate", "write"}
Samples   == [tokens : Nat, speed : Nat, why : STRING]

Flow(d) == IF d = current THEN file[d] \o buffer ELSE file[d]

\* No piece twice, and no end of a line without its text.
Whole(s) ==
  /\ \A i, j \in 1 .. Len(s) : s[i] = s[j] => i = j
  /\ \A i \in 1 .. Len(s), r \in Reqs : s[i] = <<r, "end">> => i > 1 /\ s[i - 1] = <<r, "text">>

Begins(s, t) == Len(s) <= Len(t) /\ \A i \in 1 .. Len(s) : s[i] = t[i]

\* The steps a request has before it: it is stamped before it looks at the date,
\* and writes once, right after that.
InOrder(steps) ==
  /\ \A i, j \in 1 .. Len(steps) : i < j /\ steps[j] = "stamp" => steps[i] \notin {"rotate", "write"}
  /\ \A i, j \in 1 .. Len(steps) : i < j /\ steps[i] = "write" => steps[j] \notin {"rotate", "write"}
  /\ \A i, j \in 1 .. Len(steps) : j = i + 1 => (steps[i] = "rotate" <=> steps[j] = "write")
  /\ \A i \in 1 .. Len(steps) : steps[i] = "rotate" => i # Len(steps)

Logged(steps) == \A i \in 1 .. Len(steps) : steps[i] \notin {"stamp", "rotate", "write"}

Orders ==
  /\ \A r \in Reqs : InOrder(todo[r]) /\ stamp[r] <= today
  /\ \A r \in Reqs : todo[r] # <<>> /\ todo[r][1] = "write" => stamp[r] <= current
  /\ current <= today
  /\ ~up => buffer = <<>>

Flows ==
  /\ \A d \in Days : Whole(Flow(d))
  /\ \A d, e \in Days : d # e => ToSet(Flow(d)) \cap ToSet(Flow(e)) = {}
  /\ \A d \in Days, r \in Reqs, k \in {"text", "end"} :
       <<r, k>> \in ToSet(Flow(d)) => Logged(todo[r]) /\ stamp[r] <= d

Inv == TypeOK /\ Orders /\ Flows

-----------------------------------------------------------------------------
(* Sequences.                                                              *)

\* What a sequence begins with is whole if it is.
LEMMA BeginningIsWhole ==
  ASSUME NEW S, NEW s \in Seq(S), NEW t \in Seq(S), Begins(s, t)
  PROVE  ToSet(s) \subseteq ToSet(t) /\ (Whole(t) => Whole(s))
<1>1. DOMAIN s = 1 .. Len(s) /\ DOMAIN t = 1 .. Len(t) /\ Len(s) \in Nat /\ Len(t) \in Nat
  OBVIOUS
<1>2. Len(s) <= Len(t) /\ \A i \in 1 .. Len(s) : s[i] = t[i] /\ i \in 1 .. Len(t)
  BY <1>1 DEF Begins
<1>3. ToSet(s) \subseteq ToSet(t)
  BY <1>1, <1>2 DEF ToSet
<1>4. ASSUME Whole(t) PROVE Whole(s)
  <2>1. \A i, j \in 1 .. Len(s) : s[i] = s[j] => i = j
    BY <1>2, <1>4 DEF Whole
  <2>2. ASSUME NEW i \in 1 .. Len(s), NEW r \in Reqs, s[i] = <<r, "end">>
        PROVE  i > 1 /\ s[i - 1] = <<r, "text">>
    <3>1. i > 1 /\ t[i - 1] = <<r, "text">>
      BY <1>2, <1>4, <2>2 DEF Whole
    <3>2. i - 1 \in 1 .. Len(s)
      BY <1>1, <3>1
    <3> QED BY <1>2, <3>1, <3>2
  <2> QED BY <2>1, <2>2 DEF Whole
<1> QED BY <1>3, <1>4

\* A piece that is new, and an end that follows its text, leave a sequence whole.
LEMMA PieceJoins ==
  ASSUME NEW s \in Seq(AllPieces), Whole(s), NEW x \in AllPieces, x \notin ToSet(s),
         \A r \in Reqs : x = <<r, "end">> => Len(s) > 0 /\ s[Len(s)] = <<r, "text">>
  PROVE  /\ Append(s, x) \in Seq(AllPieces) /\ Whole(Append(s, x))
         /\ ToSet(Append(s, x)) = ToSet(s) \cup {x}
         /\ Len(Append(s, x)) > 0 /\ Append(s, x)[Len(Append(s, x))] = x
<1> DEFINE t == Append(s, x)
           n == Len(s)
<1>1. /\ n \in Nat /\ t \in Seq(AllPieces) /\ Len(t) = n + 1
      /\ \A i \in 1 .. n : t[i] = s[i]
      /\ t[n + 1] = x
  BY AppendProperties
<1>2. DOMAIN s = 1 .. n /\ DOMAIN t = 1 .. n + 1
  BY <1>1
<1> HIDE DEF t
<1>3. \A i \in 1 .. n : s[i] # x
  BY <1>2 DEF ToSet
<1>4. ToSet(t) = ToSet(s) \cup {x}
  BY <1>1, <1>2 DEF ToSet
<1>5. \A i, j \in 1 .. n + 1 : t[i] = t[j] => i = j
  <2> SUFFICES ASSUME NEW i \in 1 .. n + 1, NEW j \in 1 .. n + 1, t[i] = t[j] PROVE i = j
    OBVIOUS
  <2>1. CASE i \in 1 .. n /\ j \in 1 .. n
    BY <1>1, <2>1 DEF Whole
  <2>2. CASE i = n + 1 \/ j = n + 1
    BY <1>1, <1>3, <2>2
  <2> QED BY <1>1, <2>1, <2>2
<1>6. ASSUME NEW i \in 1 .. n + 1, NEW r \in Reqs, t[i] = <<r, "end">>
      PROVE  i > 1 /\ t[i - 1] = <<r, "text">>
  <2>1. CASE i \in 1 .. n
    <3>1. i > 1 /\ s[i - 1] = <<r, "text">>
      BY <1>1, <1>6, <2>1 DEF Whole
    <3> QED BY <1>1, <2>1, <3>1
  <2>2. CASE i = n + 1
    <3>1. n > 0 /\ s[n] = <<r, "text">>
      BY <1>1, <1>6, <2>2
    <3>2. n \in 1 .. n /\ i - 1 = n /\ i > 1
      BY <1>1, <2>2, <3>1
    <3> QED BY <1>1, <3>1, <3>2
  <2> QED BY <1>1, <2>1, <2>2
<1>7. Whole(t)
  BY <1>1, <1>5, <1>6 DEF Whole
<1> QED BY <1>1, <1>4, <1>7 DEF t

\* A sequence is its first pieces and the others.
LEMMA Parts ==
  ASSUME NEW S, NEW s \in Seq(S), NEW n \in 0 .. Len(s)
  PROVE  /\ First(s, n) \in Seq(S) /\ After(s, n) \in Seq(S)
         /\ First(s, n) \o After(s, n) = s
         /\ Len(First(s, n)) = n /\ \A i \in 1 .. n : First(s, n)[i] = s[i]
<1>1. Len(s) \in Nat
  OBVIOUS
<1>2. /\ First(s, n) \in Seq(S) /\ Len(First(s, n)) = n
      /\ \A i \in 1 .. n : First(s, n)[i] = s[i]
  BY <1>1 DEF First
<1>3. After(s, n) \in Seq(S)
  <2>1. \A i \in n + 1 .. Len(s) : s[i] \in S
    BY <1>1
  <2> QED BY <1>1, <2>1, SubSeqProperties DEF After
<1>4. First(s, n) \o After(s, n) = s
  <2>1. 1 \in 1 .. Len(s) + 1 /\ n \in 1 - 1 .. Len(s) /\ Len(s) \in n .. Len(s)
    BY <1>1
  <2>2. SubSeq(s, 1, n) \o SubSeq(s, n + 1, Len(s)) = SubSeq(s, 1, Len(s))
    BY <2>1, ConcatAdjacentSubSeq
  <2> QED BY <2>2, SubSeqFull DEF First, After
<1> QED BY <1>2, <1>3, <1>4

\* What part of t is put behind s, begins as s with t behind it.
LEMMA PartBegins ==
  ASSUME NEW S, NEW s \in Seq(S), NEW t \in Seq(S), NEW n \in 0 .. Len(t)
  PROVE  s \o First(t, n) \in Seq(S) /\ Begins(s \o First(t, n), s \o t)
<1> DEFINE u == First(t, n)
<1>1. u \in Seq(S) /\ Len(u) = n /\ \A i \in 1 .. n : u[i] = t[i]
  BY Parts
<1> HIDE DEF u
<1>2. /\ Len(s) \in Nat /\ Len(t) \in Nat
      /\ Len(s \o u) = Len(s) + n /\ Len(s \o t) = Len(s) + Len(t) /\ s \o u \in Seq(S)
  <2>1. s \o u \in Seq(S) /\ Len(s \o u) = Len(s) + Len(u)
    BY <1>1, ConcatProperties
  <2>2. Len(s \o t) = Len(s) + Len(t)
    BY ConcatProperties
  <2> QED BY <1>1, <2>1, <2>2
<1>3. \A i \in 1 .. Len(s) + n : (s \o u)[i] = IF i <= Len(s) THEN s[i] ELSE u[i - Len(s)]
  <2>1. \A i \in 1 .. Len(s) + Len(u) : (s \o u)[i] = IF i <= Len(s) THEN s[i] ELSE u[i - Len(s)]
    BY <1>1, ConcatProperties
  <2> QED BY <1>1, <2>1
<1>4. \A i \in 1 .. Len(s) + Len(t) : (s \o t)[i] = IF i <= Len(s) THEN s[i] ELSE t[i - Len(s)]
  BY ConcatProperties
<1>5. ASSUME NEW i \in 1 .. Len(s) + n PROVE (s \o u)[i] = (s \o t)[i]
  <2>1. CASE i <= Len(s)
    BY <1>2, <1>3, <1>4, <2>1
  <2>2. CASE i > Len(s)
    <3>1. i - Len(s) \in 1 .. n /\ i \in 1 .. Len(s) + Len(t)
      BY <1>2, <2>2
    <3>2. u[i - Len(s)] = t[i - Len(s)]
      BY <1>1, <3>1
    <3> QED BY <1>2, <1>3, <1>4, <2>2, <3>1, <3>2
  <2> QED BY <1>2, <2>1, <2>2
<1>6. Begins(s \o u, s \o t)
  BY <1>2, <1>5 DEF Begins
<1> QED BY <1>2, <1>6 DEF u

-----------------------------------------------------------------------------
(* The steps of a request.                                                 *)

LEMMA StepsTail ==
  ASSUME NEW steps \in Seq(AllSteps), steps # <<>>, InOrder(steps)
  PROVE  /\ Tail(steps) \in Seq(AllSteps) /\ InOrder(Tail(steps))
         /\ Logged(steps) \/ Head(steps) = "write" => Logged(Tail(steps))
         /\ Head(steps) = steps[1] /\ Head(steps) \in AllSteps
         /\ Tail(steps) # <<>> /\ Tail(steps)[1] = "write" => Head(steps) = "rotate"
         /\ Head(steps) = "rotate" => Tail(steps) # <<>> /\ Head(Tail(steps)) # "rotate"
<1> DEFINE n == Len(steps)
           rest == Tail(steps)
<1>1. /\ n \in Nat /\ n > 0 /\ rest \in Seq(AllSteps) /\ Len(rest) = n - 1
      /\ \A i \in 1 .. n - 1 : rest[i] = steps[i + 1]
      /\ Head(steps) = steps[1] /\ Head(steps) \in AllSteps
  BY HeadTailProperties
<1>2. \A i \in 1 .. n - 1 : i + 1 \in 1 .. n
  BY <1>1
<1> HIDE DEF n, rest
<1>3. InOrder(rest)
  <2>1. ASSUME NEW i \in 1 .. n - 1, NEW j \in 1 .. n - 1
        PROVE  /\ i < j /\ rest[j] = "stamp" => rest[i] \notin {"rotate", "write"}
               /\ i < j /\ rest[i] = "write" => rest[j] \notin {"rotate", "write"}
               /\ j = i + 1 => (rest[i] = "rotate" <=> rest[j] = "write")
    <3>1. /\ rest[i] = steps[i + 1] /\ rest[j] = steps[j + 1]
          /\ i + 1 \in 1 .. n /\ j + 1 \in 1 .. n
          /\ i < j => i + 1 < j + 1
          /\ j = i + 1 => j + 1 = (i + 1) + 1
      BY <1>1, <1>2
    <3> QED BY <3>1 DEF InOrder, n
  <2>2. ASSUME NEW i \in 1 .. n - 1, rest[i] = "rotate" PROVE i # n - 1
    <3>1. steps[i + 1] = "rotate" /\ i + 1 \in 1 .. n
      BY <1>1, <1>2, <2>2
    <3> QED BY <1>1, <3>1 DEF InOrder, n
  <2> QED BY <1>1, <2>1, <2>2 DEF InOrder
<1>4. ASSUME Logged(steps) PROVE Logged(rest)
  BY <1>1, <1>2, <1>4 DEF Logged, n
<1>5. ASSUME Head(steps) = "write" PROVE Logged(rest)
  <2>1. ASSUME NEW i \in 1 .. n - 1 PROVE rest[i] \notin {"stamp", "rotate", "write"}
    <3>1. 1 \in 1 .. n /\ i + 1 \in 1 .. n /\ 1 < i + 1 /\ rest[i] = steps[i + 1] /\ steps[1] = "write"
      BY <1>1, <1>2, <1>5
    <3> QED BY <3>1 DEF InOrder, n
  <2> QED BY <1>1, <2>1 DEF Logged
<1>6. ASSUME rest # <<>> PROVE 1 \in 1 .. n /\ 2 \in 1 .. n /\ rest[1] = steps[2]
  <2>1. n - 1 # 0
    BY <1>1, <1>6
  <2> QED BY <1>1, <2>1
<1>7. ASSUME rest # <<>> PROVE Head(steps) = "rotate" <=> rest[1] = "write"
  BY <1>1, <1>6, <1>7 DEF InOrder, n
<1>8. rest # <<>> => Head(rest) = rest[1]
  BY <1>1
<1>9. ASSUME Head(steps) = "rotate" PROVE rest # <<>>
  <2>1. 1 \in 1 .. n /\ steps[1] = "rotate"
    BY <1>1, <1>9
  <2>2. 1 # n
    BY <2>1 DEF InOrder, n
  <2> QED BY <1>1, <2>2
<1>10. /\ rest \in Seq(AllSteps) /\ InOrder(rest)
       /\ Logged(steps) \/ Head(steps) = "write" => Logged(rest)
       /\ Head(steps) = steps[1] /\ Head(steps) \in AllSteps
       /\ rest # <<>> /\ rest[1] = "write" => Head(steps) = "rotate"
       /\ Head(steps) = "rotate" => rest # <<>> /\ Head(rest) # "rotate"
  BY <1>1, <1>3, <1>4, <1>5, <1>7, <1>8, <1>9
<1> QED BY <1>10 DEF rest

LEMMA StepsEmpty == <<>> \in Seq(AllSteps) /\ InOrder(<<>>) /\ Logged(<<>>)
BY DEF InOrder, Logged

LEMMA ThreeAndThree ==
  ASSUME NEW a \in AllSteps, NEW b \in AllSteps, NEW c \in AllSteps,
         NEW d \in AllSteps, NEW e \in AllSteps, NEW f \in AllSteps
  PROVE  <<a, b, c>> \o <<d, e, f>> = <<a, b, c, d, e, f>>
<1> DEFINE s == <<a, b, c>>
           t == <<d, e, f>>
           u == <<a, b, c, d, e, f>>
<1>1. s \in Seq(AllSteps) /\ Len(s) = 3 /\ s[1] = a /\ s[2] = b /\ s[3] = c
  OBVIOUS
<1>2. t \in Seq(AllSteps) /\ Len(t) = 3 /\ t[1] = d /\ t[2] = e /\ t[3] = f
  OBVIOUS
<1>3. u \in Seq(AllSteps) /\ Len(u) = 6 /\ u[1] = a /\ u[2] = b /\ u[3] = c /\ u[4] = d /\ u[5] = e /\ u[6] = f
  OBVIOUS
<1> HIDE DEF s, t, u
<1>4. /\ s \o t \in Seq(AllSteps) /\ Len(s \o t) = 6
      /\ \A i \in 1 .. 6 : (s \o t)[i] = IF i <= 3 THEN s[i] ELSE t[i - 3]
  <2>1. s \o t \in Seq(AllSteps) /\ Len(s \o t) = Len(s) + Len(t)
    BY <1>1, <1>2, ConcatProperties
  <2>2. \A i \in 1 .. Len(s) + Len(t) : (s \o t)[i] = IF i <= Len(s) THEN s[i] ELSE t[i - Len(s)]
    BY <1>1, <1>2, ConcatProperties
  <2> QED BY <1>1, <1>2, <2>1, <2>2
<1>5. \A i \in 1 .. 6 : (s \o t)[i] = u[i]
  BY <1>1, <1>2, <1>3, <1>4
<1>6. s \o t = u
  BY <1>3, <1>4, <1>5, SeqEqual
<1> QED BY <1>6 DEF s, t, u

LEMMA CourseInOrder ==
  ASSUME NEW r \in Reqs, logging \in BOOLEAN
  PROVE  /\ Course(r) \in Seq(AllSteps) /\ InOrder(Course(r))
         /\ Course(r) # <<>> => Course(r)[1] # "write"
<1>1. CASE logging
  <2>0. {"count", "sum", "push", "stamp", "rotate", "write"} \subseteq AllSteps
    BY DEF AllSteps
  <2>1. Counting \o Logging = <<"count", "sum", "push", "stamp", "rotate", "write">>
    BY <1>1, <2>0, ThreeAndThree DEF Counting, Logging
  <2>2. Logging \o Counting = <<"stamp", "rotate", "write", "count", "sum", "push">>
    BY <1>1, <2>0, ThreeAndThree DEF Counting, Logging
  <2>3. CASE r \in Streams
    <3>1. Course(r) = <<"count", "sum", "push", "stamp", "rotate", "write">>
      BY <2>1, <2>3 DEF Course
    <3> QED BY <3>1 DEF InOrder, AllSteps
  <2>4. CASE r \notin Streams
    <3>1. Course(r) = <<"stamp", "rotate", "write", "count", "sum", "push">>
      BY <2>2, <2>4 DEF Course
    <3> QED BY <3>1 DEF InOrder, AllSteps
  <2> QED BY <2>3, <2>4
<1>2. CASE ~logging
  <2>1. Course(r) = <<"count", "sum", "push">>
    BY <1>2 DEF Course, Counting, Logging
  <2> QED BY <2>1 DEF InOrder, AllSteps
<1> QED BY <1>1, <1>2

-----------------------------------------------------------------------------
(* What the operations of the log do to the flows.                         *)

LEMMA FlowTypes ==
  ASSUME TypeOK
  PROVE  /\ \A d \in Days : file[d] \in Seq(AllPieces) /\ Flow(d) \in Seq(AllPieces)
         /\ buffer \in Seq(AllPieces) /\ current \in Days /\ today \in Days
         /\ file \in [Days -> Seq(AllPieces)]
<1>1. /\ \A d \in Days : file[d] \in Seq(AllPieces)
      /\ buffer \in Seq(AllPieces) /\ current \in Days /\ today \in Days
      /\ file \in [Days -> Seq(AllPieces)]
  BY DEF TypeOK, AllPieces
<1>2. \A d \in Days : Flow(d) \in Seq(AllPieces)
  BY <1>1, ConcatProperties DEF Flow
<1> QED BY <1>1, <1>2

LEMMA SelfBegins ==
  ASSUME NEW S, NEW s \in Seq(S)
  PROVE  Begins(s, s) /\ s \o <<>> = s
BY ConcatEmptySeq DEF Begins

LEMMA RotateShrinks ==
  ASSUME TypeOK, Rotate, today # current
  PROVE  /\ file' \in [Days -> Seq(AllPieces)] /\ buffer' = <<>> /\ current' = today
         /\ \A d \in Days : Flow(d)' \in Seq(AllPieces) /\ Begins(Flow(d)', Flow(d))
         /\ \A d \in Days : \E t \in Seq(AllPieces) : file'[d] = file[d] \o t
<1>1. PICK n \in 0 .. Len(buffer) : file' = Put(file, current, First(buffer, n))
  BY DEF Rotate
<1>2. buffer' = <<>> /\ current' = today
  BY DEF Rotate
<1>3. file' = [file EXCEPT ![current] = file[current] \o First(buffer, n)]
  BY <1>1 DEF Put
<1>4. /\ First(buffer, n) \in Seq(AllPieces)
      /\ file[current] \o First(buffer, n) \in Seq(AllPieces)
      /\ Begins(file[current] \o First(buffer, n), file[current] \o buffer)
  BY FlowTypes, Parts, PartBegins
<1>5. file' \in [Days -> Seq(AllPieces)]
  BY <1>3, <1>4, FlowTypes
<1>6. ASSUME NEW d \in Days
      PROVE  /\ Flow(d)' \in Seq(AllPieces) /\ Begins(Flow(d)', Flow(d))
             /\ \E t \in Seq(AllPieces) : file'[d] = file[d] \o t
  <2>1. CASE d = current
    <3>1. Flow(d)' = file[current] \o First(buffer, n) /\ Flow(d) = file[current] \o buffer
      BY <1>2, <1>3, <2>1, FlowTypes DEF Flow
    <3>2. file'[d] = file[d] \o First(buffer, n)
      BY <1>3, <2>1, FlowTypes
    <3> QED BY <1>4, <3>1, <3>2
  <2>2. CASE d # current
    <3>1. file'[d] = file[d] /\ Flow(d) = file[d]
      BY <1>3, <2>2, FlowTypes DEF Flow
    <3>2. file[d] \o <<>> = file[d] /\ file[d] \in Seq(AllPieces) /\ Begins(file[d], file[d]) /\ <<>> \in Seq(AllPieces)
      BY FlowTypes, SelfBegins
    <3>3. Flow(d)' = file[d]
      BY <1>2, <3>1, <3>2 DEF Flow
    <3> QED BY <3>1, <3>2, <3>3
  <2> QED BY <2>1, <2>2
<1> QED BY <1>2, <1>5, <1>6

LEMMA CloseShrinks ==
  ASSUME TypeOK, Close, UNCHANGED current
  PROVE  /\ file' \in [Days -> Seq(AllPieces)] /\ buffer' = <<>>
         /\ \A d \in Days : Flow(d)' \in Seq(AllPieces) /\ Begins(Flow(d)', Flow(d))
         /\ \A d \in Days : \E t \in Seq(AllPieces) : file'[d] = file[d] \o t
<1>1. PICK n \in 0 .. Len(buffer) : file' = Put(file, current, First(buffer, n))
  BY DEF Close
<1>2. buffer' = <<>> /\ current' = current
  BY DEF Close
<1>3. file' = [file EXCEPT ![current] = file[current] \o First(buffer, n)]
  BY <1>1 DEF Put
<1>4. /\ First(buffer, n) \in Seq(AllPieces)
      /\ file[current] \o First(buffer, n) \in Seq(AllPieces)
      /\ Begins(file[current] \o First(buffer, n), file[current] \o buffer)
  BY FlowTypes, Parts, PartBegins
<1>5. file' \in [Days -> Seq(AllPieces)]
  BY <1>3, <1>4, FlowTypes
<1>6. ASSUME NEW d \in Days
      PROVE  /\ Flow(d)' \in Seq(AllPieces) /\ Begins(Flow(d)', Flow(d))
             /\ \E t \in Seq(AllPieces) : file'[d] = file[d] \o t
  <2>1. CASE d = current
    <3>1. file'[d] = file[d] \o First(buffer, n)
      BY <1>3, <2>1, FlowTypes
    <3>2. Flow(d)' = (file[current] \o First(buffer, n)) \o <<>> /\ Flow(d) = file[current] \o buffer
      BY <1>2, <2>1, <3>1 DEF Flow
    <3>3. Flow(d)' = file[current] \o First(buffer, n)
      BY <1>4, <3>2, SelfBegins
    <3> QED BY <1>4, <3>1, <3>2, <3>3
  <2>2. CASE d # current
    <3>1. file'[d] = file[d] /\ Flow(d) = file[d] /\ Flow(d)' = file'[d]
      BY <1>2, <1>3, <2>2, FlowTypes DEF Flow
    <3>2. file[d] \o <<>> = file[d] /\ file[d] \in Seq(AllPieces) /\ Begins(file[d], file[d]) /\ <<>> \in Seq(AllPieces)
      BY FlowTypes, SelfBegins
    <3> QED BY <3>1, <3>2
  <2> QED BY <2>1, <2>2
<1> QED BY <1>2, <1>5, <1>6

LEMMA Joins ==
  ASSUME NEW s \in Seq(AllPieces), NEW t \in Seq(AllPieces), NEW u \in Seq(AllPieces)
  PROVE  s \o t \in Seq(AllPieces) /\ Len(s \o t) = Len(s) + Len(t) /\ (s \o t) \o u = s \o (t \o u)
<1>1. s \o t \in Seq(AllPieces) /\ Len(s \o t) = Len(s) + Len(t)
  BY ConcatProperties
<1>2. (s \o t) \o u = s \o (t \o u)
  BY ConcatAssociative
<1> QED BY <1>1, <1>2

\* A write makes the flow of the open file longer, by a line or its first piece,
\* or leaves all flows as they are.
LEMMA WriteGrows ==
  ASSUME TypeOK, NEW r \in Reqs, Write(r) \/ WriteFails(r), UNCHANGED current
  PROVE  /\ file' \in [Days -> Seq(AllPieces)] /\ buffer' \in Seq(AllPieces)
         /\ \A d \in Days : d # current => Flow(d)' = Flow(d)
         /\ Flow(current)' \in {Flow(current), Append(Flow(current), <<r, "text">>),
                               Append(Append(Flow(current), <<r, "text">>), <<r, "end">>)}
         /\ \A d \in Days : \E t \in Seq(AllPieces) : file'[d] = file[d] \o t
<1> DEFINE line   == Line(r)
           pieces == buffer \o line
           base   == file[current]
<1>1. <<r, "text">> \in AllPieces /\ <<r, "end">> \in AllPieces
  BY DEF AllPieces
<1>2. line \in Seq(AllPieces) /\ Len(line) = 2 /\ line[1] = <<r, "text">> /\ line[2] = <<r, "end">>
  BY <1>1 DEF Line
<1>3. pieces \in Seq(AllPieces) /\ Len(pieces) = Len(buffer) + 2 /\ Len(buffer) \in Nat
  <2>1. buffer \in Seq(AllPieces) /\ Len(buffer) \in Nat
    BY FlowTypes
  <2>2. pieces \in Seq(AllPieces) /\ Len(pieces) = Len(buffer) + Len(line)
    BY <1>2, <2>1, Joins
  <2> QED BY <1>2, <2>1, <2>2
<1>4. base \in Seq(AllPieces) /\ buffer \in Seq(AllPieces) /\ Flow(current) = base \o buffer /\ Flow(current) \in Seq(AllPieces)
  BY FlowTypes DEF Flow
<1>5. PICK n \in 0 .. Len(pieces) :
        /\ file' = Put(file, current, First(pieces, n))
        /\ \/ buffer' = After(pieces, n)
           \/ n < Len(pieces) /\ buffer' = After(buffer, n)
  <2>1. CASE Write(r)
    BY <2>1 DEF Write
  <2>2. CASE WriteFails(r)
    <3>1. PICK n \in 0 .. Len(pieces) - 1 :
            file' = Put(file, current, First(pieces, n)) /\ buffer' = After(buffer, n)
      BY <2>2 DEF WriteFails
    <3>2. n \in 0 .. Len(pieces) /\ n < Len(pieces)
      BY <1>3, <3>1
    <3> QED BY <3>1, <3>2
  <2> QED BY <2>1, <2>2
<1>6. file' = [file EXCEPT ![current] = base \o First(pieces, n)]
  BY <1>5 DEF Put
<1> HIDE DEF line, pieces, base
<1>7. First(pieces, n) \in Seq(AllPieces) /\ base \o First(pieces, n) \in Seq(AllPieces)
  <2>1. First(pieces, n) \in Seq(AllPieces)
    BY <1>3, Parts
  <2> QED BY <1>4, <2>1, Joins
<1>8. file' \in [Days -> Seq(AllPieces)] /\ file'[current] = base \o First(pieces, n)
  BY <1>6, <1>7, FlowTypes
<1>9. ASSUME NEW d \in Days
      PROVE  /\ d # current => Flow(d)' = Flow(d)
             /\ \E t \in Seq(AllPieces) : file'[d] = file[d] \o t
  <2>1. CASE d = current
    BY <1>7, <1>8, <2>1 DEF base
  <2>2. CASE d # current
    <3>1. file'[d] = file[d] /\ Flow(d)' = Flow(d)
      BY <1>6, <2>2, FlowTypes DEF Flow
    <3>2. file[d] \o <<>> = file[d] /\ <<>> \in Seq(AllPieces)
      BY FlowTypes, SelfBegins
    <3> QED BY <3>1, <3>2
  <2> QED BY <2>1, <2>2
<1>10. Flow(current)' = (base \o First(pieces, n)) \o buffer'
  BY <1>8, FlowTypes DEF Flow
<1>11. (base \o buffer) \o line = Append(Append(base \o buffer, <<r, "text">>), <<r, "end">>)
  <2> DEFINE s == base \o buffer
  <2>1. s \in Seq(AllPieces)
    BY <1>4
  <2>2. line = <<<<r, "text">>>> \o <<<<r, "end">>>>
    BY <1>1 DEF line, Line
  <2>3. Append(Append(s, <<r, "text">>), <<r, "end">>) = (s \o <<<<r, "text">>>>) \o <<<<r, "end">>>>
    BY <1>1, <2>1, AppendIsConcat, AppendProperties
  <2>4. (s \o <<<<r, "text">>>>) \o <<<<r, "end">>>> = s \o (<<<<r, "text">>>> \o <<<<r, "end">>>>)
    <3>1. <<<<r, "text">>>> \in Seq(AllPieces) /\ <<<<r, "end">>>> \in Seq(AllPieces)
      BY <1>1
    <3> QED BY <2>1, <3>1, Joins
  <2> QED BY <2>2, <2>3, <2>4
<1>12. CASE buffer' = After(pieces, n)
  <2>1. After(pieces, n) \in Seq(AllPieces) /\ First(pieces, n) \o After(pieces, n) = pieces
    BY <1>3, Parts
  <2>2. Flow(current)' = base \o pieces
    <3>1. (base \o First(pieces, n)) \o After(pieces, n) = base \o (First(pieces, n) \o After(pieces, n))
      <4>1. base \in Seq(AllPieces) /\ First(pieces, n) \in Seq(AllPieces) /\ After(pieces, n) \in Seq(AllPieces)
        BY <1>4, <1>7, <2>1
      <4> QED BY ONLY <4>1, ConcatAssociative
    <3> QED BY <1>10, <1>12, <2>1, <3>1
  <2>3. base \o pieces = (base \o buffer) \o line
    <3>1. base \in Seq(AllPieces) /\ buffer \in Seq(AllPieces) /\ line \in Seq(AllPieces)
      BY <1>2, <1>4
    <3>2. (base \o buffer) \o line = base \o (buffer \o line)
      BY <3>1, Joins
    <3> QED BY <3>2 DEF pieces
  <2>4. Flow(current)' = Append(Append(Flow(current), <<r, "text">>), <<r, "end">>)
    BY <1>4, <1>11, <2>2, <2>3
  <2>5. buffer' \in Seq(AllPieces)
    BY <1>12, <2>1
  <2> QED BY <1>8, <1>9, <2>4, <2>5
<1>13. CASE n < Len(pieces) /\ buffer' = After(buffer, n)
  <2>1. CASE n <= Len(buffer)
    <3>1. /\ First(buffer, n) \in Seq(AllPieces) /\ After(buffer, n) \in Seq(AllPieces)
          /\ First(buffer, n) \o After(buffer, n) = buffer
      <4>1. n \in 0 .. Len(buffer)
        BY <1>3, <2>1
      <4>2. buffer \in Seq(AllPieces)
        BY <1>4
      <4>3. First(buffer, n) \in Seq(AllPieces) /\ After(buffer, n) \in Seq(AllPieces)
        BY ONLY <4>1, <4>2, Parts
      <4>4. First(buffer, n) \o After(buffer, n) = buffer
        BY ONLY <4>1, <4>2, Parts
      <4> QED BY <4>3, <4>4
    <3>2. First(pieces, n) = First(buffer, n)
      <4>1. CASE n = 0
        BY <4>1, SubSeqEmpty DEF First
      <4>2. CASE n # 0
        <5>1. 1 \in 1 .. Len(buffer) /\ n \in 1 .. Len(buffer)
          BY <1>3, <2>1, <4>2
        <5> QED BY <1>2, <1>4, <5>1, SubSeqOfConcat1 DEF First, pieces
      <4> QED BY <4>1, <4>2
    <3>3. Flow(current)' = base \o buffer
      <4>1. (base \o First(buffer, n)) \o After(buffer, n) = base \o (First(buffer, n) \o After(buffer, n))
        <5>1. base \in Seq(AllPieces) /\ First(buffer, n) \in Seq(AllPieces) /\ After(buffer, n) \in Seq(AllPieces)
          BY <1>4, <3>1
        <5> QED BY ONLY <5>1, ConcatAssociative
      <4> QED BY <1>10, <1>13, <3>1, <3>2, <4>1
    <3>4. Flow(current)' = Flow(current) /\ buffer' \in Seq(AllPieces)
      BY <1>4, <1>13, <3>1, <3>3
    <3> QED BY <1>8, <1>9, <3>4
  <2>2. CASE n > Len(buffer)
    <3>1. n = Len(buffer) + 1
      BY <1>3, <1>13, <2>2
    <3>2. After(buffer, n) = <<>>
      BY <1>3, <3>1, SubSeqEmpty DEF After
    <3>3. First(pieces, n) = Append(buffer, <<r, "text">>)
      <4>1. /\ Len(First(pieces, n)) = n
            /\ \A i \in 1 .. n : First(pieces, n)[i] = pieces[i]
        BY <1>3, Parts
      <4>2. \A i \in 1 .. Len(buffer) + 2 : pieces[i] = IF i <= Len(buffer) THEN buffer[i] ELSE line[i - Len(buffer)]
        <5>1. \A i \in 1 .. Len(buffer) + Len(line) : pieces[i] = IF i <= Len(buffer) THEN buffer[i] ELSE line[i - Len(buffer)]
          BY <1>2, <1>4, ConcatProperties DEF pieces
        <5> QED BY <1>2, <5>1
      <4>3. /\ Append(buffer, <<r, "text">>) \in Seq(AllPieces)
            /\ Len(Append(buffer, <<r, "text">>)) = Len(buffer) + 1
            /\ \A i \in 1 .. Len(buffer) : Append(buffer, <<r, "text">>)[i] = buffer[i]
            /\ Append(buffer, <<r, "text">>)[Len(buffer) + 1] = <<r, "text">>
        BY <1>1, <1>4, AppendProperties
      <4>4. ASSUME NEW i \in 1 .. n PROVE First(pieces, n)[i] = Append(buffer, <<r, "text">>)[i]
        <5>1. CASE i <= Len(buffer)
          BY <1>3, <3>1, <4>1, <4>2, <4>3, <5>1
        <5>2. CASE i = Len(buffer) + 1
          <6>1. i - Len(buffer) = 1 /\ i \in 1 .. Len(buffer) + 2 /\ ~(i <= Len(buffer))
            BY <1>3, <5>2
          <6>2. pieces[i] = <<r, "text">>
            BY <1>2, <4>2, <6>1
          <6> QED BY <4>1, <4>3, <5>2, <6>2
        <5> QED BY <1>3, <3>1, <5>1, <5>2
      <4> QED BY <1>7, <3>1, <4>1, <4>3, <4>4, SeqEqual
    <3>4. base \o Append(buffer, <<r, "text">>) = Append(base \o buffer, <<r, "text">>)
      <4>1. Append(buffer, <<r, "text">>) = buffer \o <<<<r, "text">>>>
        BY <1>1, <1>4, AppendIsConcat
      <4>2. Append(base \o buffer, <<r, "text">>) = (base \o buffer) \o <<<<r, "text">>>>
        BY <1>1, <1>4, AppendIsConcat
      <4>3. <<<<r, "text">>>> \in Seq(AllPieces)
        BY <1>1
      <4>4. (base \o buffer) \o <<<<r, "text">>>> = base \o (buffer \o <<<<r, "text">>>>)
        BY <1>4, <4>3, Joins
      <4> QED BY <4>1, <4>2, <4>4
    <3>5. Flow(current)' = base \o First(pieces, n)
      BY <1>7, <1>10, <1>13, <3>2, SelfBegins
    <3>6. <<>> \in Seq(AllPieces)
      OBVIOUS
    <3>7. Flow(current)' = Append(Flow(current), <<r, "text">>)
      BY <1>4, <3>3, <3>4, <3>5
    <3>8. buffer' \in Seq(AllPieces)
      BY <1>13, <3>2, <3>6
    <3> QED BY <1>8, <1>9, <3>7, <3>8
  <2>3. n <= Len(buffer) \/ n > Len(buffer)
    BY <1>3
  <2> QED BY <2>1, <2>2, <2>3
<1> QED BY <1>5, <1>12, <1>13

LEMMA FlowStays ==
  ASSUME TypeOK, UNCHANGED <<current, file, buffer>>
  PROVE  \A d \in Days : Flow(d)' \in Seq(AllPieces) /\ Begins(Flow(d)', Flow(d))
<1>1. \A d \in Days : Flow(d)' = Flow(d)
  BY DEF Flow
<1> QED BY <1>1, FlowTypes, SelfBegins

LEMMA OpenKeeps ==
  ASSUME TypeOK, buffer = <<>>, Open, UNCHANGED buffer
  PROVE  \A d \in Days : Flow(d)' \in Seq(AllPieces) /\ Begins(Flow(d)', Flow(d))
<1>1. \A d \in Days : Flow(d)' = file[d] /\ Flow(d) = file[d]
  <2>1. \A d \in Days : file[d] \o <<>> = file[d]
    BY FlowTypes, SelfBegins
  <2> QED BY <2>1 DEF Flow, Open
<1> QED BY <1>1, FlowTypes, SelfBegins

\* Flows that become shorter, or stay, remain as they should be.
LEMMA FlowsShrink ==
  ASSUME TypeOK, Flows,
         \A d \in Days : Flow(d)' \in Seq(AllPieces) /\ Begins(Flow(d)', Flow(d)),
         \A r \in Reqs : Logged(todo[r]) => Logged(todo'[r]) /\ stamp'[r] = stamp[r]
  PROVE  Flows'
<1>1. \A d \in Days : ToSet(Flow(d)') \subseteq ToSet(Flow(d)) /\ Whole(Flow(d)')
  BY FlowTypes, BeginningIsWhole DEF Flows
<1>2. \A d \in Days : ToSet(Flow(d)') = ToSet(Flow(d))' /\ Whole(Flow(d)') = Whole(Flow(d))'
  BY DEF ToSet, Whole
<1> QED BY <1>1, <1>2 DEF Flows

-----------------------------------------------------------------------------
(* What a step of a request does to the steps before it.                   *)

LEMMA StepTaken ==
  ASSUME Inv, NEW r \in Reqs, NEW s \in AllSteps, At(r, s), Onward(r)
  PROVE  /\ todo' \in [Reqs -> Seq(AllSteps)]
         /\ \A q \in Reqs : InOrder(todo'[q]) /\ (Logged(todo[q]) => Logged(todo'[q]))
         /\ \A q \in Reqs \ {r} : todo'[q] = todo[q]
         /\ todo'[r] # <<>> /\ todo'[r][1] = "write" => s = "rotate"
         /\ s = "write" => Logged(todo'[r])
         /\ s \in {"stamp", "rotate", "write"} => ~Logged(todo[r])
         /\ s = "rotate" => todo'[r] # <<>> /\ Head(todo'[r]) # "rotate"
<1>1. todo \in [Reqs -> Seq(AllSteps)] /\ todo[r] \in Seq(AllSteps) /\ \A q \in Reqs : InOrder(todo[q])
  BY DEF Inv, TypeOK, Orders, AllSteps
<1>2. todo[r] # <<>> /\ Head(todo[r]) = s
  BY DEF At
<1>3. todo' = [todo EXCEPT ![r] = Tail(todo[r])]
  BY DEF Onward
<1>4. /\ Tail(todo[r]) \in Seq(AllSteps) /\ InOrder(Tail(todo[r]))
      /\ Logged(todo[r]) \/ s = "write" => Logged(Tail(todo[r]))
      /\ s = todo[r][1]
      /\ Tail(todo[r]) # <<>> /\ Tail(todo[r])[1] = "write" => s = "rotate"
      /\ s = "rotate" => Tail(todo[r]) # <<>> /\ Head(Tail(todo[r])) # "rotate"
  BY <1>1, <1>2, StepsTail
<1>5. todo' \in [Reqs -> Seq(AllSteps)] /\ todo'[r] = Tail(todo[r]) /\ \A q \in Reqs \ {r} : todo'[q] = todo[q]
  BY <1>1, <1>3, <1>4
<1>6. s \in {"stamp", "rotate", "write"} => ~Logged(todo[r])
  <2>1. 1 \in 1 .. Len(todo[r])
    BY <1>1, <1>2
  <2> QED BY <1>4, <2>1 DEF Logged
<1> QED BY <1>1, <1>4, <1>5, <1>6

\* A request whose steps are cut short, and the others as they are.
LEMMA StepsDropped ==
  ASSUME Inv, todo' \in [Reqs -> Seq(AllSteps)], NEW R \in SUBSET Reqs,
         \A q \in R : todo'[q] = <<>>, \A q \in Reqs \ R : todo'[q] = todo[q]
  PROVE  /\ \A q \in Reqs : InOrder(todo'[q]) /\ (Logged(todo[q]) => Logged(todo'[q]))
         /\ \A q \in Reqs : todo'[q] # <<>> => todo'[q] = todo[q]
BY StepsEmpty DEF Inv, Orders

-----------------------------------------------------------------------------
(* One lemma per action.                                                   *)

LEMMA SampleTypes == ASSUME NEW r \in Reqs PROVE Sample[r] \in Samples
BY AccountingAssumption DEF Samples

\* A step that leaves the log alone.
LEMMA LogUntouched ==
  ASSUME Inv, UNCHANGED <<logVars, up, stamp>>, NEW r \in Reqs, NEW s \in {"count", "sum", "push"},
         At(r, s), Onward(r)
  PROVE  Orders' /\ Flows' /\ todo' \in [Reqs -> Seq(AllSteps)]
<1>1. /\ todo' \in [Reqs -> Seq(AllSteps)]
      /\ \A q \in Reqs : InOrder(todo'[q]) /\ (Logged(todo[q]) => Logged(todo'[q]))
      /\ \A q \in Reqs \ {r} : todo'[q] = todo[q]
      /\ ~(todo'[r] # <<>> /\ todo'[r][1] = "write")
  <2>1. s \in AllSteps /\ s # "rotate"
    BY DEF AllSteps
  <2> QED BY <2>1, StepTaken
<1>2. Orders'
  BY <1>1 DEF Inv, Orders, logVars
<1>3. Flows'
  BY <1>1, FlowStays, FlowsShrink DEF Inv, logVars
<1> QED BY <1>1, <1>2, <1>3

LEMMA MetricsSteps ==
  ASSUME Inv, NEW r \in Reqs, Count(r) \/ Sum(r) \/ PushSample(r)
  PROVE  Inv'
<1>1. CASE Count(r)
  <2>1. Orders' /\ Flows' /\ todo' \in [Reqs -> Seq(AllSteps)]
    BY <1>1, LogUntouched DEF Count
  <2>2. TypeOK'
    BY <1>1, <2>1 DEF Inv, TypeOK, Count, IncRequests, logVars, AllSteps
  <2> QED BY <2>1, <2>2 DEF Inv
<1>2. CASE Sum(r)
  <2>1. Orders' /\ Flows' /\ todo' \in [Reqs -> Seq(AllSteps)]
    BY <1>2, LogUntouched DEF Sum
  <2>2. generated' \in Nat
    <3>1. generated \in Nat
      BY DEF Inv, TypeOK
    <3>2. Sample[r].tokens \in Nat
      BY SampleTypes DEF Samples
    <3>3. generated' = generated + Sample[r].tokens
      BY <1>2 DEF Sum, AddTokens
    <3> QED BY ONLY <3>1, <3>2, <3>3
  <2>3. TypeOK'
    BY <1>2, <2>1, <2>2 DEF Inv, TypeOK, Sum, logVars, AllSteps
  <2> QED BY <2>1, <2>3 DEF Inv
<1>3. CASE PushSample(r)
  <2>1. Orders' /\ Flows' /\ todo' \in [Reqs -> Seq(AllSteps)]
    BY <1>3, LogUntouched DEF PushSample
  <2>2. recent' \in Seq(Samples) /\ Len(recent') <= Window
    <3>1. recent \in Seq(Samples) /\ Len(recent) <= Window /\ Sample[r] \in Samples
      BY SampleTypes DEF Inv, TypeOK, Samples
    <3>2. CASE Len(recent) >= Window
      <4>1. recent # <<>>
        BY <3>2, WindowAssumption
      <4>2. Tail(recent) \in Seq(Samples) /\ Len(Tail(recent)) = Len(recent) - 1
        BY <3>1, <4>1, HeadTailProperties
      <4>3. recent' = Append(Tail(recent), Sample[r])
        BY <1>3, <3>2 DEF PushSample, PushRecent
      <4>4. recent' \in Seq(Samples) /\ Len(recent') = Len(Tail(recent)) + 1
        BY <3>1, <4>2, <4>3, AppendProperties
      <4> QED BY <3>1, <4>2, <4>4
    <3>3. CASE ~(Len(recent) >= Window)
      <4>1. recent' = Append(recent, Sample[r])
        BY <1>3, <3>3 DEF PushSample, PushRecent
      <4>2. recent' \in Seq(Samples) /\ Len(recent') = Len(recent) + 1
        BY <3>1, <4>1, AppendProperties
      <4> QED BY <3>1, <3>3, <4>2, WindowAssumption
    <3> QED BY <3>2, <3>3
  <2>3. TypeOK'
    BY <1>3, <2>1, <2>2 DEF Inv, TypeOK, PushSample, logVars, AllSteps, Samples
  <2> QED BY <2>1, <2>3 DEF Inv
<1> QED BY <1>1, <1>2, <1>3

LEMMA StampStep ==
  ASSUME Inv, NEW r \in Reqs, Stamp(r)
  PROVE  Inv'
<1>1. /\ todo' \in [Reqs -> Seq(AllSteps)]
      /\ \A q \in Reqs : InOrder(todo'[q]) /\ (Logged(todo[q]) => Logged(todo'[q]))
      /\ \A q \in Reqs \ {r} : todo'[q] = todo[q]
      /\ ~(todo'[r] # <<>> /\ todo'[r][1] = "write")
      /\ ~Logged(todo[r])
  <2>1. "stamp" \in AllSteps /\ At(r, "stamp") /\ Onward(r)
    BY DEF AllSteps, Stamp
  <2> QED BY <2>1, StepTaken
<1>2. stamp' \in [Reqs -> Days] /\ stamp'[r] = today /\ \A q \in Reqs \ {r} : stamp'[q] = stamp[q]
  BY DEF Inv, TypeOK, Stamp
<1>3. TypeOK'
  BY <1>1, <1>2 DEF Inv, TypeOK, Stamp, metricsVars, logVars, AllSteps
<1>4. today \in Int
  BY DEF Inv, TypeOK, Days
<1>5. Orders'
  <2>1. \A q \in Reqs : stamp'[q] <= today
    BY <1>2, <1>4 DEF Inv, Orders
  <2>2. UNCHANGED <<today, current, buffer, up>>
    BY DEF Stamp, logVars
  <2>3. \A q \in Reqs : todo'[q] # <<>> /\ todo'[q][1] = "write" => stamp'[q] <= current
    BY <1>1, <1>2 DEF Inv, Orders
  <2> QED BY <1>1, <2>1, <2>2, <2>3 DEF Inv, Orders
<1>6. Flows'
  BY <1>1, <1>2, FlowStays, FlowsShrink DEF Inv, Stamp, logVars
<1> QED BY <1>3, <1>5, <1>6 DEF Inv

LEMMA RotateStep ==
  ASSUME Inv, NEW r \in Reqs, LockAndRotate(r)
  PROVE  Inv'
<1>1. /\ todo' \in [Reqs -> Seq(AllSteps)]
      /\ \A q \in Reqs : InOrder(todo'[q]) /\ (Logged(todo[q]) => Logged(todo'[q]))
      /\ \A q \in Reqs \ {r} : todo'[q] = todo[q]
  <2>1. "rotate" \in AllSteps /\ At(r, "rotate") /\ Onward(r)
    BY DEF AllSteps, LockAndRotate
  <2> QED BY <2>1, StepTaken
<1>2. /\ current' = today /\ file' \in [Days -> Seq(AllPieces)] /\ buffer' \in {<<>>, buffer}
      /\ \A d \in Days : Flow(d)' \in Seq(AllPieces) /\ Begins(Flow(d)', Flow(d))
  <2>1. TypeOK
    BY DEF Inv
  <2>2. CASE today = current
    <3>1. UNCHANGED <<current, buffer, file>>
      BY <2>2 DEF LockAndRotate
    <3> QED BY <2>1, <2>2, <3>1, FlowStays, FlowTypes
  <2>3. CASE today # current
    <3>1. Rotate
      BY <2>3 DEF LockAndRotate
    <3> QED BY <2>1, <2>3, <3>1, RotateShrinks
  <2> QED BY <2>2, <2>3
<1>3. UNCHANGED <<today, oplog, up, stamp, logging, metricsVars, starts>>
  BY DEF LockAndRotate
<1>4. TypeOK'
  <2>1. buffer' \in Seq(AllPieces)
    <3>1. buffer \in Seq(AllPieces) /\ <<>> \in Seq(AllPieces)
      BY FlowTypes DEF Inv
    <3> QED BY <1>2, <3>1
  <2> QED BY <1>1, <1>2, <1>3, <2>1 DEF Inv, TypeOK, metricsVars, AllSteps, AllPieces
<1>5. Orders'
  <2>1. \A q \in Reqs : stamp[q] <= today
    BY DEF Inv, Orders
  <2>2. today <= today
    BY DEF Inv, TypeOK, Days
  <2>3. ~up' => buffer' = <<>>
    BY <1>2, <1>3 DEF Inv, Orders
  <2> QED BY <1>1, <1>2, <1>3, <2>1, <2>2, <2>3 DEF Orders
<1>6. Flows'
  BY <1>1, <1>2, <1>3, FlowsShrink DEF Inv
<1> QED BY <1>4, <1>5, <1>6 DEF Inv

LEMMA RotateFailsStep ==
  ASSUME Inv, NEW r \in Reqs, RotateFails(r)
  PROVE  Inv'
<1>1. /\ todo' \in [Reqs -> Seq(AllSteps)]
      /\ \A q \in Reqs : InOrder(todo'[q]) /\ (Logged(todo[q]) => Logged(todo'[q]))
      /\ \A q \in Reqs \ {r} : todo'[q] = todo[q]
      /\ ~(todo'[r] # <<>> /\ todo'[r][1] = "write")
  <2>1. todo \in [Reqs -> Seq(AllSteps)] /\ todo[r] \in Seq(AllSteps) /\ \A q \in Reqs : InOrder(todo[q])
    BY DEF Inv, TypeOK, Orders, AllSteps
  <2>2. todo[r] # <<>> /\ Head(todo[r]) = "rotate"
    BY DEF RotateFails, At
  <2> DEFINE rest == Tail(todo[r])
  <2>3. /\ rest \in Seq(AllSteps) /\ InOrder(rest) /\ (Logged(todo[r]) => Logged(rest))
        /\ rest # <<>> /\ Head(rest) # "rotate"
    BY <2>1, <2>2, StepsTail
  <2>4. todo' = [todo EXCEPT ![r] = Tail(rest)]
    BY DEF RotateFails
  <2> HIDE DEF rest
  <2>5. /\ Tail(rest) \in Seq(AllSteps) /\ InOrder(Tail(rest)) /\ (Logged(rest) => Logged(Tail(rest)))
        /\ ~(Tail(rest) # <<>> /\ Tail(rest)[1] = "write")
    BY <2>3, StepsTail
  <2>6. todo' \in [Reqs -> Seq(AllSteps)] /\ todo'[r] = Tail(rest) /\ \A q \in Reqs \ {r} : todo'[q] = todo[q]
    BY <2>1, <2>4, <2>5
  <2> QED BY <2>1, <2>3, <2>5, <2>6
<1>2. UNCHANGED <<logging, metricsVars, logVars, up, starts, stamp>>
  BY DEF RotateFails
<1>3. TypeOK'
  BY <1>1, <1>2 DEF Inv, TypeOK, metricsVars, logVars, AllSteps
<1>4. Orders'
  BY <1>1, <1>2 DEF Inv, Orders, logVars
<1>5. Flows'
  BY <1>1, <1>2, FlowStays, FlowsShrink DEF Inv, logVars
<1> QED BY <1>3, <1>4, <1>5 DEF Inv

LEMMA AbandonStep ==
  ASSUME Inv, NEW r \in Reqs, Abandon(r)
  PROVE  Inv'
<1>1. /\ todo' \in [Reqs -> Seq(AllSteps)] /\ todo'[r] = <<>>
      /\ \A q \in Reqs \ {r} : todo'[q] = todo[q]
  BY StepsEmpty DEF Inv, TypeOK, Abandon, AllSteps
<1>2. /\ \A q \in Reqs : InOrder(todo'[q]) /\ (Logged(todo[q]) => Logged(todo'[q]))
      /\ \A q \in Reqs : todo'[q] # <<>> => todo'[q] = todo[q]
  BY <1>1, StepsEmpty DEF Inv, Orders
<1>3. UNCHANGED <<logging, metricsVars, logVars, up, starts, stamp>>
  BY DEF Abandon
<1>4. TypeOK'
  BY <1>1, <1>3 DEF Inv, TypeOK, metricsVars, logVars, AllSteps
<1>5. Orders'
  BY <1>2, <1>3 DEF Inv, Orders, logVars
<1>6. Flows'
  BY <1>2, <1>3, FlowStays, FlowsShrink DEF Inv, logVars
<1> QED BY <1>4, <1>5, <1>6 DEF Inv

LEMMA ViewSteps ==
  ASSUME Inv, UNCHANGED <<logging, metricsVars, logVars, up, starts, todo, stamp>>
  PROVE  Inv'
<1>1. TypeOK'
  BY DEF Inv, TypeOK, metricsVars, logVars
<1>2. Orders'
  BY DEF Inv, Orders, logVars
<1>3. Flows'
  BY FlowStays, FlowsShrink DEF Inv, logVars
<1> QED BY <1>1, <1>2, <1>3 DEF Inv

LEMMA MidnightStep ==
  ASSUME Inv, Midnight
  PROVE  Inv'
<1>1. /\ today' \in Days /\ today \in Int /\ today' = today + 1
      /\ oplog' \subseteq Days
      /\ UNCHANGED <<logging, metricsVars, current, buffer, file, up, starts, todo, stamp>>
  BY LogAssumption DEF Inv, TypeOK, Midnight, Days
<1>2. TypeOK'
  BY <1>1 DEF Inv, TypeOK, metricsVars
<1>3. Orders'
  <2>1. \A q \in Reqs : stamp[q] <= today'
    BY <1>1 DEF Inv, TypeOK, Orders, Days
  <2>2. current <= today'
    BY <1>1 DEF Inv, TypeOK, Orders, Days
  <2> QED BY <1>1, <2>1, <2>2 DEF Inv, Orders
<1>4. Flows'
  BY <1>1, FlowStays, FlowsShrink DEF Inv
<1> QED BY <1>2, <1>3, <1>4 DEF Inv

LEMMA StopStep ==
  ASSUME Inv, Stop
  PROVE  Inv'
<1>1. /\ todo' \in [Reqs -> Seq(AllSteps)]
      /\ \A q \in Reqs : todo'[q] # <<>> => todo'[q] = todo[q]
  <2>1. <<>> \in Seq(AllSteps) /\ todo \in [Reqs -> Seq(AllSteps)]
    BY StepsEmpty DEF Inv, TypeOK, AllSteps
  <2> QED BY <2>1 DEF Stop
<1>2. \A q \in Reqs : InOrder(todo'[q]) /\ (Logged(todo[q]) => Logged(todo'[q]))
  BY <1>1, StepsEmpty DEF Inv, Orders
<1>3. /\ Close /\ UNCHANGED <<logging, metricsVars, today, current, oplog, starts, stamp>>
      /\ up' \in BOOLEAN
  BY DEF Stop
<1>4. /\ file' \in [Days -> Seq(AllPieces)] /\ buffer' = <<>>
      /\ \A d \in Days : Flow(d)' \in Seq(AllPieces) /\ Begins(Flow(d)', Flow(d))
  BY <1>3, CloseShrinks DEF Inv
<1>5. TypeOK'
  BY <1>1, <1>3, <1>4 DEF Inv, TypeOK, metricsVars, AllSteps, AllPieces
<1>6. Orders'
  BY <1>1, <1>2, <1>3, <1>4 DEF Inv, Orders
<1>7. Flows'
  BY <1>2, <1>3, <1>4, FlowsShrink DEF Inv
<1> QED BY <1>5, <1>6, <1>7 DEF Inv

LEMMA StartStep ==
  ASSUME Inv, Start
  PROVE  Inv'
<1>1. /\ buffer = <<>> /\ Open /\ UNCHANGED <<logging, today, buffer, todo, stamp>>
      /\ current' = today /\ UNCHANGED file
      /\ up' = TRUE /\ total' = 0 /\ generated' = 0 /\ recent' = <<>>
  BY DEF Start, Inv, Orders, Open
<1>2. starts' \in 1 .. MaxStarts /\ oplog' \subseteq Days
  BY AccountingAssumption DEF Start, Sweep, Inv, TypeOK
<1>3. TypeOK'
  BY <1>1, <1>2, WindowAssumption DEF Inv, TypeOK
<1>4. Orders'
  <2>1. \A q \in Reqs : stamp[q] <= today
    BY DEF Inv, Orders
  <2>2. today <= today
    BY DEF Inv, TypeOK, Days
  <2> QED BY <1>1, <2>1, <2>2 DEF Inv, Orders
<1>5. Flows'
  BY <1>1, OpenKeeps, FlowsShrink DEF Inv
<1> QED BY <1>3, <1>4, <1>5 DEF Inv

LEMMA WriteStep ==
  ASSUME Inv, NEW r \in Reqs, WriteAndUnlock(r)
  PROVE  Inv'
<1>1. /\ todo' \in [Reqs -> Seq(AllSteps)]
      /\ \A q \in Reqs : InOrder(todo'[q]) /\ (Logged(todo[q]) => Logged(todo'[q]))
      /\ \A q \in Reqs \ {r} : todo'[q] = todo[q]
      /\ ~(todo'[r] # <<>> /\ todo'[r][1] = "write")
      /\ Logged(todo'[r]) /\ ~Logged(todo[r])
  <2>1. "write" \in AllSteps /\ At(r, "write") /\ Onward(r)
    BY DEF AllSteps, WriteAndUnlock
  <2> QED BY <2>1, StepTaken
<1>2. /\ up /\ stamp[r] <= current
      /\ UNCHANGED <<logging, metricsVars, today, current, oplog, up, starts, stamp>>
  <2>1. todo[r] # <<>> /\ Head(todo[r]) = "write" /\ up
    BY DEF WriteAndUnlock, At
  <2>2. todo[r] \in Seq(AllSteps)
    BY DEF Inv, TypeOK, AllSteps
  <2>3. todo[r][1] = "write"
    BY <2>1, <2>2
  <2>4. stamp[r] <= current
    BY <2>1, <2>3 DEF Inv, Orders
  <2> QED BY <2>1, <2>4 DEF WriteAndUnlock
<1> DEFINE x    == <<r, "text">>
           y    == <<r, "end">>
           flow == Flow(current)
<1>3. /\ file' \in [Days -> Seq(AllPieces)] /\ buffer' \in Seq(AllPieces)
      /\ \A d \in Days : d # current => Flow(d)' = Flow(d)
      /\ Flow(current)' \in {flow, Append(flow, x), Append(Append(flow, x), y)}
  <2>1. TypeOK /\ (Write(r) \/ WriteFails(r)) /\ UNCHANGED current
    BY <1>2 DEF Inv, WriteAndUnlock
  <2> QED BY <2>1, WriteGrows
<1>4. TypeOK'
  BY <1>1, <1>2, <1>3 DEF Inv, TypeOK, metricsVars, AllSteps, AllPieces
<1>5. Orders'
  BY <1>1, <1>2 DEF Inv, Orders
<1>6. /\ x \in AllPieces /\ y \in AllPieces /\ x # y
      /\ \A d \in Days : x \notin ToSet(Flow(d)) /\ y \notin ToSet(Flow(d))
  BY <1>1 DEF AllPieces, Inv, Flows
<1>7. /\ flow \in Seq(AllPieces) /\ Whole(flow) /\ current \in Days
  BY FlowTypes DEF Inv, Flows
<1>8. /\ Append(flow, x) \in Seq(AllPieces) /\ Whole(Append(flow, x))
      /\ ToSet(Append(flow, x)) = ToSet(flow) \cup {x}
      /\ Len(Append(flow, x)) > 0 /\ Append(flow, x)[Len(Append(flow, x))] = x
  <2>1. \A q \in Reqs : x # <<q, "end">>
    OBVIOUS
  <2> QED BY <1>6, <1>7, <2>1, PieceJoins
<1>9. /\ Whole(Append(Append(flow, x), y))
      /\ ToSet(Append(Append(flow, x), y)) = ToSet(flow) \cup {x, y}
  <2>1. y \notin ToSet(Append(flow, x))
    BY <1>6, <1>7, <1>8
  <2>2. \A q \in Reqs : y = <<q, "end">> => q = r
    OBVIOUS
  <2>3. /\ Whole(Append(Append(flow, x), y))
        /\ ToSet(Append(Append(flow, x), y)) = ToSet(Append(flow, x)) \cup {y}
    BY <1>6, <1>8, <2>1, <2>2, PieceJoins
  <2> QED BY <1>8, <2>3
<1>10. Whole(Flow(current)') /\ ToSet(Flow(current)') \subseteq ToSet(flow) \cup {x, y}
  BY <1>3, <1>7, <1>8, <1>9
<1>11. \A d \in Days : d # current => Whole(Flow(d)') /\ ToSet(Flow(d)') = ToSet(Flow(d))
  BY <1>3 DEF Inv, Flows
<1> HIDE DEF x, y, flow
<1>12. \A d \in Days :
          /\ Whole(Flow(d)')
          /\ d = current => ToSet(Flow(d)') \subseteq ToSet(Flow(d)) \cup {x, y}
          /\ d # current => ToSet(Flow(d)') = ToSet(Flow(d))
  <2>1. ASSUME NEW d \in Days, d = current
        PROVE  Flow(d)' = Flow(current)' /\ Flow(d) = flow
    BY <1>2, <2>1 DEF Flow, flow
  <2> QED BY <1>10, <1>11, <2>1
<1>13. ASSUME NEW d \in Days, NEW e \in Days, d # e
       PROVE  ToSet(Flow(d)') \cap ToSet(Flow(e)') = {}
  <2>1. ToSet(Flow(d)) \cap ToSet(Flow(e)) = {}
    BY <1>13 DEF Inv, Flows
  <2>2. /\ d = current => ToSet(Flow(d)') \subseteq ToSet(Flow(d)) \cup {x, y}
        /\ d # current => ToSet(Flow(d)') = ToSet(Flow(d))
        /\ e = current => ToSet(Flow(e)') \subseteq ToSet(Flow(e)) \cup {x, y}
        /\ e # current => ToSet(Flow(e)') = ToSet(Flow(e))
    BY <1>12
  <2>3. CASE d = current
    BY <1>6, <1>13, <2>1, <2>3, <2>2
  <2>4. CASE e = current
    BY <1>6, <1>13, <2>1, <2>4, <2>2
  <2>5. CASE d # current /\ e # current
    BY <1>11, <2>1, <2>5
  <2> QED BY <2>3, <2>4, <2>5
<1>14. ASSUME NEW d \in Days, NEW q \in Reqs, NEW k \in {"text", "end"}, <<q, k>> \in ToSet(Flow(d)')
       PROVE  Logged(todo'[q]) /\ stamp'[q] <= d
  <2>1. CASE <<q, k>> \in ToSet(Flow(d))
    BY <1>1, <1>2, <2>1 DEF Inv, Flows
  <2>2. CASE <<q, k>> \notin ToSet(Flow(d))
    <3>1. d = current /\ <<q, k>> \in {x, y}
      BY <1>12, <1>14, <2>2
    <3>2. q = r
      BY <3>1 DEF x, y
    <3> QED BY <1>1, <1>2, <3>1, <3>2
  <2> QED BY <2>1, <2>2
<1>15. \A d \in Days : ToSet(Flow(d)') = ToSet(Flow(d))' /\ Whole(Flow(d)') = Whole(Flow(d))'
  BY DEF ToSet, Whole
<1>16. Flows'
  BY <1>12, <1>13, <1>14, <1>15 DEF Flows
<1> QED BY <1>4, <1>5, <1>16 DEF Inv

-----------------------------------------------------------------------------
(* The invariant.                                                          *)

LEMMA InvInit == Init => Inv
<1> SUFFICES ASSUME Init PROVE Inv
  OBVIOUS
<1>1. 0 \in Days /\ \A d \in Days : d \in Int
  BY LogAssumption DEF Days
<1>2. \A r \in Reqs : todo[r] = Course(r)
  BY DEF Init
<1>3. \A r \in Reqs : todo[r] \in Seq(AllSteps) /\ InOrder(todo[r]) /\ ~(todo[r] # <<>> /\ todo[r][1] = "write")
  BY <1>2, CourseInOrder DEF Init
<1>4. TypeOK
  <2>1. todo \in [Reqs -> Seq(AllSteps)]
    BY <1>3 DEF Init
  <2>2. total = 0 /\ generated = 0 /\ recent = <<>>
    BY DEF Init, MetricsStart
  <2>3. starts \in 1 .. MaxStarts
    BY AccountingAssumption DEF Init
  <2>4. file \in [Days -> Seq(AllPieces)] /\ buffer \in Seq(AllPieces)
    BY DEF Init
  <2>5. stamp \in [Reqs -> Days] /\ today \in Days /\ current \in Days /\ oplog \subseteq Days
    BY <1>1 DEF Init
  <2>6. logging \in BOOLEAN /\ up \in BOOLEAN
    BY DEF Init
  <2> QED BY <2>1, <2>2, <2>3, <2>4, <2>5, <2>6, WindowAssumption DEF TypeOK, AllSteps, AllPieces
<1>5. Orders
  BY <1>3 DEF Init, Orders
<1>6. \A d \in Days : Flow(d) = <<>>
  BY DEF Init, Flow
<1>7. Whole(<<>>) /\ ToSet(<<>>) = {}
  BY DEF Whole, ToSet
<1>8. Flows
  BY <1>6, <1>7 DEF Flows
<1> QED BY <1>4, <1>5, <1>8 DEF Inv

LEMMA InvNext == Inv /\ [Next]_vars => Inv'
<1> SUFFICES ASSUME Inv, [Next]_vars PROVE Inv'
  OBVIOUS
<1>1. ASSUME NEW r \in Reqs, Count(r) \/ Sum(r) \/ PushSample(r) PROVE Inv'
  BY <1>1, MetricsSteps
<1>2. ASSUME NEW r \in Reqs, Stamp(r) PROVE Inv'
  BY <1>2, StampStep
<1>3. ASSUME NEW r \in Reqs, LockAndRotate(r) PROVE Inv'
  BY <1>3, RotateStep
<1>4. ASSUME NEW r \in Reqs, RotateFails(r) PROVE Inv'
  BY <1>4, RotateFailsStep
<1>5. ASSUME NEW r \in Reqs, WriteAndUnlock(r) PROVE Inv'
  BY <1>5, WriteStep
<1>6. ASSUME NEW r \in Reqs, Abandon(r) PROVE Inv'
  BY <1>6, AbandonStep
<1>7. ASSUME NEW route \in Routes, Scrape(route) PROVE Inv'
  BY <1>7, ViewSteps DEF Scrape
<1>8. CASE Look
  BY <1>8, ViewSteps DEF Look
<1>9. CASE Midnight
  BY <1>9, MidnightStep
<1>10. CASE Stop
  BY <1>10, StopStep
<1>11. CASE Start
  BY <1>11, StartStep
<1>12. CASE UNCHANGED vars
  BY <1>12, ViewSteps DEF vars
<1> QED BY <1>1, <1>2, <1>3, <1>4, <1>5, <1>6, <1>7, <1>8, <1>9, <1>10, <1>11, <1>12 DEF Next

LEMMA Invariant == Spec => []Inv
BY InvInit, InvNext, PTL DEF Spec

-----------------------------------------------------------------------------
\* The state of the metrics and of the log is of its type.
THEOREM AccountsTypeCorrect == Spec => []TypeOK
<1>1. Inv => TypeOK
  BY DEF Inv
<1> QED BY <1>1, Invariant, PTL

LEMMA FileBegins ==
  ASSUME TypeOK, NEW d \in Days
  PROVE  Begins(file[d], Flow(d))
<1>1. file[d] \in Seq(AllPieces) /\ buffer \in Seq(AllPieces)
  BY FlowTypes
<1>2. Begins(file[d], file[d] \o buffer)
  <2>1. /\ Len(file[d]) \in Nat /\ Len(buffer) \in Nat /\ Len(file[d] \o buffer) = Len(file[d]) + Len(buffer)
        /\ \A i \in 1 .. Len(file[d]) + Len(buffer) :
             (file[d] \o buffer)[i] = IF i <= Len(file[d]) THEN file[d][i] ELSE buffer[i - Len(file[d])]
    BY <1>1, ConcatProperties
  <2> QED BY <2>1 DEF Begins
<1> QED BY <1>1, <1>2, SelfBegins DEF Flow

LEMMA FilesAreFlows ==
  ASSUME Inv
  PROVE  \A d \in Days : file[d] \in Seq(AllPieces) /\ Whole(file[d]) /\ ToSet(file[d]) \subseteq ToSet(Flow(d))
<1>1. TypeOK /\ \A d \in Days : Whole(Flow(d))
  BY DEF Inv, Flows
<1> QED BY <1>1, FlowTypes, FileBegins, BeginningIsWhole

\* No entry is in the file of a day before its time stamp: a request is stamped
\* before it looks at the date, and the date never goes back.
THEOREM NoEntryInThePast == Spec => []NeverInThePast
<1>1. Inv => NeverInThePast
  BY FilesAreFlows DEF Inv, Flows, NeverInThePast, Pieces
<1> QED BY <1>1, Invariant, PTL

\* An entry is written once, in one place, with no other line in it and none of
\* it elsewhere, whatever writes fail and however the process ends.
THEOREM EntriesStayIntact == Spec => []EntriesIntact
<1>1. ASSUME Inv PROVE EntriesIntact
  <2>1. \A d, e \in Days : d # e => Pieces(d) \cap Pieces(e) = {}
    BY <1>1, FilesAreFlows DEF Inv, Flows, Pieces
  <2>2. ASSUME NEW d \in Days
        PROVE  /\ IsInjective(file[d])
               /\ \A i \in DOMAIN file[d], r \in Reqs :
                    file[d][i] = <<r, "end">> => i > 1 /\ file[d][i - 1] = <<r, "text">>
    <3>1. file[d] \in Seq(AllPieces) /\ Whole(file[d])
      BY <1>1, FilesAreFlows
    <3>2. DOMAIN file[d] = 1 .. Len(file[d])
      BY <3>1
    <3> QED BY <3>1, <3>2 DEF Whole, IsInjective
  <2> QED BY <2>1, <2>2 DEF EntriesIntact
<1> QED BY <1>1, Invariant, PTL

\* Nothing a step does takes from a file what is in it.
LEMMA FilesGrow ==
  ASSUME Inv, [Next]_vars, NEW d \in Days
  PROVE  \E t \in Seq(AllPieces) : file'[d] = file[d] \o t
<1>1. TypeOK /\ file[d] \o <<>> = file[d] /\ <<>> \in Seq(AllPieces)
  BY FlowTypes, SelfBegins DEF Inv
<1>2. CASE UNCHANGED file
  BY <1>1, <1>2
<1>3. ASSUME NEW r \in Reqs, LockAndRotate(r)
      PROVE  \E t \in Seq(AllPieces) : file'[d] = file[d] \o t
  <2>1. CASE today = current
    BY <1>2, <1>3, <2>1 DEF LockAndRotate
  <2>2. CASE today # current
    <3>1. Rotate
      BY <1>3, <2>2 DEF LockAndRotate
    <3> QED BY <1>1, <2>2, <3>1, RotateShrinks
  <2> QED BY <2>1, <2>2
<1>4. ASSUME NEW r \in Reqs, WriteAndUnlock(r)
      PROVE  \E t \in Seq(AllPieces) : file'[d] = file[d] \o t
  <2>1. (Write(r) \/ WriteFails(r)) /\ UNCHANGED current
    BY <1>4 DEF WriteAndUnlock
  <2> QED BY <1>1, <2>1, WriteGrows
<1>5. CASE Stop
  <2>1. Close /\ UNCHANGED current
    BY <1>5 DEF Stop
  <2> QED BY <1>1, <2>1, CloseShrinks
<1>6. CASE UNCHANGED vars
  BY <1>2, <1>6 DEF vars, logVars
<1>7. CASE Midnight \/ Start \/ Look
  BY <1>2, <1>7 DEF Midnight, Start, Open, Look, logVars
<1>8. ASSUME NEW route \in Routes, Scrape(route)
      PROVE  \E t \in Seq(AllPieces) : file'[d] = file[d] \o t
  BY <1>2, <1>8 DEF Scrape, logVars
<1>9. ASSUME NEW r \in Reqs, Count(r) \/ Sum(r) \/ PushSample(r) \/ Stamp(r) \/ RotateFails(r) \/ Abandon(r)
      PROVE  \E t \in Seq(AllPieces) : file'[d] = file[d] \o t
  BY <1>2, <1>9 DEF Count, Sum, PushSample, Stamp, RotateFails, Abandon, logVars
<1> QED BY <1>3, <1>4, <1>5, <1>6, <1>7, <1>8, <1>9 DEF Next

LEMMA JoinedBegins ==
  ASSUME NEW s \in Seq(AllPieces), NEW t \in Seq(AllPieces)
  PROVE  IsPrefix(s, s \o t)
<1>1. /\ Len(s) \in Nat /\ Len(t) \in Nat /\ s \o t \in Seq(AllPieces) /\ Len(s \o t) = Len(s) + Len(t)
      /\ \A i \in 1 .. Len(s) : (s \o t)[i] = s[i]
  <2>1. \A i \in 1 .. Len(s) + Len(t) : (s \o t)[i] = IF i <= Len(s) THEN s[i] ELSE t[i - Len(s)]
    BY ConcatProperties
  <2> QED BY <2>1, ConcatProperties
<1>2. SubSeq(s \o t, 1, Len(s)) = SubSeq(s, 1, Len(s))
  <2>1. CASE Len(s) = 0
    BY <1>1, <2>1, SubSeqEmpty
  <2>2. CASE Len(s) # 0
    <3>1. 1 \in 1 .. Len(s) /\ Len(s) \in 1 .. Len(s)
      BY <1>1, <2>2
    <3> QED BY <3>1, SubSeqOfConcat1
  <2> QED BY <2>1, <2>2
<1> QED BY <1>1, <1>2 DEF IsPrefix

\* What has reached the file of a day stays there, through rotations, failed
\* writes, crashes and restarts.
THEOREM HistoryIsKept == Spec => HistoryKept
<1>1. Inv /\ [Next]_vars =>
        [\A d \in Days : Retention = 0 \/ d > today - Retention => IsPrefix(file[d], file'[d])]_vars
  <2> SUFFICES ASSUME Inv, [Next]_vars, NEW d \in Days PROVE IsPrefix(file[d], file'[d])
    OBVIOUS
  <2>1. PICK t \in Seq(AllPieces) : file'[d] = file[d] \o t
    BY FilesGrow
  <2>2. file[d] \in Seq(AllPieces)
    BY FlowTypes DEF Inv
  <2> QED BY <2>1, <2>2, JoinedBegins
<1> QED BY <1>1, Invariant, PTL DEF Spec, HistoryKept

-----------------------------------------------------------------------------
(***************************************************************************)
(* The dates of the conversation log are right, for every day there is.    *)
(*                                                                         *)
(* The quotients of the algorithm are taken one by one (IsQuotient), then  *)
(* a day of an era is a day of one of its years (YearOfDay), a day of such *)
(* a year one of its months (MonthOfDay), and a year of an era has its     *)
(* leap days where the calendar has them (EraLeapDays).                    *)
(***************************************************************************)

IsQuotient(q, n, k) == q \in Int /\ k * q <= n /\ n < k * q + k

LEMMA Quotients ==
  ASSUME NEW n \in Int
  PROVE  /\ IsQuotient(n \div 4, n, 4)
         /\ IsQuotient(n \div 5, n, 5)
         /\ IsQuotient(n \div 100, n, 100)
         /\ IsQuotient(n \div 153, n, 153)
         /\ IsQuotient(n \div 365, n, 365)
         /\ IsQuotient(n \div 400, n, 400)
         /\ IsQuotient(n \div 1460, n, 1460)
         /\ IsQuotient(n \div 36524, n, 36524)
         /\ IsQuotient(n \div 146096, n, 146096)
         /\ IsQuotient(n \div 146097, n, 146097)
BY DEF IsQuotient

LEMMA Centuries ==
  ASSUME NEW d \in Int, 0 <= d, d <= 146096, NEW b, IsQuotient(b, d, 36524)
  PROVE  b \in 0 .. 4 /\ (b = 4 <=> d = 146096)
BY DEF IsQuotient

LEMMA LastDayOfEra ==
  ASSUME NEW d \in Int, 0 <= d, d <= 146096, NEW c, IsQuotient(c, d, 146096)
  PROVE  c \in 0 .. 1 /\ (c = 1 <=> d = 146096)
BY DEF IsQuotient

LEMMA YearOfQuotients ==
  ASSUME NEW d \in Int, 0 <= d, d <= 146096,
         NEW a, IsQuotient(a, d, 1460), NEW b, IsQuotient(b, d, 36524),
         NEW c, IsQuotient(c, d, 146096), NEW y, IsQuotient(y, d - a + b - c, 365),
         NEW p, IsQuotient(p, y, 4), NEW q, IsQuotient(q, y, 100)
  PROVE  /\ 0 <= y /\ y <= 399
         /\ 0 <= d - (365 * y + p - q)
         /\ d - (365 * y + p - q) <= 365
         /\ d - (365 * y + p - q) = 365 => y = 4 * p + 3 /\ (y # 100 * q + 99 \/ y = 399)
<1>1. b \in 0 .. 4 /\ (b = 4 <=> d = 146096)
  BY Centuries
<1>2. c \in 0 .. 1 /\ (c = 1 <=> d = 146096)
  BY LastDayOfEra
<1>3. CASE b = 0 BY <1>1, <1>2, <1>3, SMTT(30) DEF IsQuotient
<1>4. CASE b = 1 BY <1>1, <1>2, <1>4, SMTT(30) DEF IsQuotient
<1>5. CASE b = 2 BY <1>1, <1>2, <1>5, SMTT(30) DEF IsQuotient
<1>6. CASE b = 3 BY <1>1, <1>2, <1>6, SMTT(30) DEF IsQuotient
<1>7. CASE b = 4
  <2>1. d = 146096 /\ c = 1 BY <1>1, <1>2, <1>7
  <2>2. a = 100 BY <2>1 DEF IsQuotient
  <2>3. y = 399 BY <2>1, <2>2, <1>7 DEF IsQuotient
  <2>4. p = 99 /\ q = 3 BY <2>3 DEF IsQuotient
  <2> QED BY <2>1, <2>3, <2>4
<1> QED BY <1>1, <1>3, <1>4, <1>5, <1>6, <1>7

\* The year and the day of a day of an era.
LEMMA YearOfDay ==
  ASSUME NEW doe \in Int, 0 <= doe, doe <= 146096, NEW y, y = YearOfEra(doe)
  PROVE  /\ y \in Int /\ 0 <= y /\ y <= 399
         /\ DayOfYear(doe, y) \in 0 .. 365
         /\ DayOfYear(doe, y) = 365 =>
              y = 4 * (y \div 4) + 3 /\ (y # 100 * (y \div 100) + 99 \/ y = 399)
<1> DEFINE a == doe \div 1460
           b == doe \div 36524
           c == doe \div 146096
           p == y \div 4
           q == y \div 100
<1>2. IsQuotient(a, doe, 1460) /\ IsQuotient(b, doe, 36524) /\ IsQuotient(c, doe, 146096)
  BY Quotients
<1>3. y = (doe - a + b - c) \div 365
  BY DEF YearOfEra
<1> HIDE DEF a, b, c
<1>4. doe - a + b - c \in Int
  BY <1>2 DEF IsQuotient
<1>5. IsQuotient(y, doe - a + b - c, 365)
  BY <1>3, <1>4, Quotients
<1>6. y \in Int
  BY <1>5 DEF IsQuotient
<1>7. IsQuotient(p, y, 4) /\ IsQuotient(q, y, 100)
  BY ONLY <1>6 DEF IsQuotient
<1>8. p \in Int /\ q \in Int
  BY <1>7 DEF IsQuotient
<1>9. DayOfYear(doe, y) = doe - (365 * y + p - q)
  BY DEF DayOfYear
<1> HIDE DEF p, q
<1>10. /\ 0 <= y /\ y <= 399
       /\ 0 <= doe - (365 * y + p - q)
       /\ doe - (365 * y + p - q) <= 365
       /\ doe - (365 * y + p - q) = 365 => y = 4 * p + 3 /\ (y # 100 * q + 99 \/ y = 399)
  BY <1>2, <1>5, <1>7, YearOfQuotients
<1>11. doe - (365 * y + p - q) \in Int
  BY <1>6, <1>8
<1>12. DayOfYear(doe, y) \in 0 .. 365
  BY <1>9, <1>10, <1>11
<1>13. DayOfYear(doe, y) = 365 => y = 4 * p + 3 /\ (y # 100 * q + 99 \/ y = 399)
  BY <1>9, <1>10
<1> QED BY <1>6, <1>10, <1>12, <1>13 DEF p, q

\* The first day of a month, counted from March, in a year that begins in March.
MonthStart(mp) ==
  IF mp = 0 THEN 0 ELSE IF mp = 1 THEN 31 ELSE IF mp = 2 THEN 61 ELSE IF mp = 3 THEN 92
  ELSE IF mp = 4 THEN 122 ELSE IF mp = 5 THEN 153 ELSE IF mp = 6 THEN 184
  ELSE IF mp = 7 THEN 214 ELSE IF mp = 8 THEN 245 ELSE IF mp = 9 THEN 275
  ELSE IF mp = 10 THEN 306 ELSE 337

\* Day doy of the year is day d of month mp.
InMonth(doy, mp, d) ==
  /\ doy \in 0 .. 365 /\ mp \in 0 .. 11
  /\ d = doy - MonthStart(mp) + 1
  /\ MonthStart(mp) <= doy
  /\ mp < 11 => doy < MonthStart(mp + 1)

\* The month and the day of a day of a year.
LEMMA MonthOfDay ==
  ASSUME NEW doy \in 0 .. 365, NEW mp, mp = MonthFromMarch(doy)
  PROVE  InMonth(doy, mp, DayOfMonth(doy, mp))
<1>1. IsQuotient(mp, 5 * doy + 2, 153)
  BY DEF MonthFromMarch, IsQuotient
<1>2. mp \in 0 .. 11
  BY <1>1 DEF IsQuotient
<1>3. IsQuotient((153 * mp + 2) \div 5, 153 * mp + 2, 5)
  BY <1>2 DEF IsQuotient
<1>4. (153 * mp + 2) \div 5 = MonthStart(mp)
  BY <1>2, <1>3 DEF IsQuotient, MonthStart
<1>5. /\ MonthStart(mp) <= doy
      /\ mp < 11 => doy < MonthStart(mp + 1)
  BY <1>1, <1>2 DEF IsQuotient, MonthStart
<1> QED BY <1>2, <1>4, <1>5 DEF DayOfMonth, InMonth

\* Leap days up to the end of a year.
LeapDaysOf(y) == y \div 4 - y \div 100 + y \div 400

LEMMA Remainders ==
  ASSUME NEW y \in Int
  PROVE  /\ y % 4 = 0 <=> y = 4 * (y \div 4)
         /\ y % 100 = 0 <=> y = 100 * (y \div 100)
         /\ y % 400 = 0 <=> y = 400 * (y \div 400)
OBVIOUS

LEMMA LeapQuotients ==
  ASSUME NEW y \in Int,
         NEW a, IsQuotient(a, y, 4), NEW b, IsQuotient(b, y, 100), NEW c, IsQuotient(c, y, 400),
         NEW d, IsQuotient(d, y - 1, 4), NEW e, IsQuotient(e, y - 1, 100),
         NEW f, IsQuotient(f, y - 1, 400)
  PROVE  d - e + f + (IF y = 4 * a /\ (~(y = 100 * b) \/ y = 400 * c) THEN 1 ELSE 0) = a - b + c
<1>1. d = (IF y = 4 * a THEN a - 1 ELSE a)
  BY DEF IsQuotient
<1>2. e = (IF y = 100 * b THEN b - 1 ELSE b)
  BY DEF IsQuotient
<1>3. f = (IF y = 400 * c THEN c - 1 ELSE c)
  BY DEF IsQuotient
<1>4. y = 400 * c => y = 100 * b
  BY DEF IsQuotient
<1>5. y = 100 * b => y = 4 * a
  BY DEF IsQuotient
<1>6. a \in Int /\ b \in Int /\ c \in Int
  BY DEF IsQuotient
<1> QED BY <1>1, <1>2, <1>3, <1>4, <1>5, <1>6

LEMMA LeapYears ==
  ASSUME NEW y \in Int
  PROVE  /\ LeapDaysBefore(y) + (IF IsLeap(y) THEN 1 ELSE 0) = LeapDaysOf(y)
         /\ LeapDaysBefore(y + 1) = LeapDaysOf(y)
         /\ LeapDaysOf(y) \in Int
<1> DEFINE a == y \div 4
           b == y \div 100
           c == y \div 400
           d == (y - 1) \div 4
           e == (y - 1) \div 100
           f == (y - 1) \div 400
<1>1. IsQuotient(a, y, 4) /\ IsQuotient(b, y, 100) /\ IsQuotient(c, y, 400)
  BY Quotients
<1>2. y - 1 \in Int
  OBVIOUS
<1>3. IsQuotient(d, y - 1, 4) /\ IsQuotient(e, y - 1, 100) /\ IsQuotient(f, y - 1, 400)
  BY <1>2, Quotients
<1>4. IsLeap(y) <=> y = 4 * a /\ (~(y = 100 * b) \/ y = 400 * c)
  BY Remainders DEF IsLeap
<1>5. LeapDaysBefore(y) = d - e + f /\ LeapDaysOf(y) = a - b + c
  BY DEF LeapDaysBefore, LeapDaysOf
<1>6. LeapDaysBefore(y + 1) = LeapDaysOf(y)
  <2>1. (y + 1) - 1 = y
    OBVIOUS
  <2> QED BY <2>1 DEF LeapDaysBefore, LeapDaysOf
<1> HIDE DEF a, b, c, d, e, f
<1>7. a \in Int /\ b \in Int /\ c \in Int
  BY <1>1 DEF IsQuotient
<1>8. d - e + f + (IF y = 4 * a /\ (~(y = 100 * b) \/ y = 400 * c) THEN 1 ELSE 0) = a - b + c
  BY <1>1, <1>3, LeapQuotients
<1> QED BY <1>4, <1>5, <1>6, <1>7, <1>8

\* Year n is year y of an era.
InEra(n, y, era) == y \in Int /\ 0 <= y /\ y <= 399 /\ era \in Int /\ n = y + 400 * era

\* Four hundred years have 97 leap days, wherever they begin.
LEMMA EraLeapDays ==
  ASSUME NEW n, NEW y, NEW era, InEra(n, y, era)
  PROVE  LeapDaysOf(n) = y \div 4 - y \div 100 + 97 * era
<1>1. n \div 4 = y \div 4 + 100 * era
  BY DEF InEra
<1>2. n \div 100 = y \div 100 + 4 * era
  BY DEF InEra
<1>3. n \div 400 = era
  BY DEF InEra
<1>4. y \div 4 \in Int /\ y \div 100 \in Int /\ era \in Int
  BY DEF InEra
<1> QED BY <1>1, <1>2, <1>3, <1>4 DEF LeapDaysOf

\* The years of an era, from March to February, that have 366 days.
IsLong(y) == y = 4 * (y \div 4) + 3 /\ (y # 100 * (y \div 100) + 99 \/ y = 399)

\* Such a year ends in a leap year.
LEMMA LongYear ==
  ASSUME NEW n, NEW y, NEW era, InEra(n, y, era), IsLong(y)
  PROVE  IsLeap(n + 1)
<1>1. (n + 1) % 4 = 0
  BY DEF InEra, IsLong
<1>2. CASE y = 399
  <2>1. (n + 1) % 400 = 0
    BY <1>2 DEF InEra
  <2> QED BY <1>1, <2>1 DEF IsLeap
<1>3. CASE y # 100 * (y \div 100) + 99
  <2>1. (n + 1) % 100 # 0
    BY <1>3 DEF InEra
  <2> QED BY <1>1, <2>1 DEF IsLeap
<1> QED BY <1>2, <1>3 DEF IsLong

\* The months of the algorithm are those of the calendar: those from March to
\* December, and the two that belong to the next year.
LEMMA MonthFits ==
  ASSUME NEW doy, NEW mp, NEW d, InMonth(doy, mp, d),
         NEW y \in Int, doy = 365 => IsLeap(y)
  PROVE  /\ Month(mp) \in 1 .. 12
         /\ d \in 1 .. MonthLength(y, Month(mp))
         /\ Month(mp) > 2 => DaysBefore[Month(mp)] + d = doy + 60
         /\ Month(mp) <= 2 => DaysBefore[Month(mp)] + d + 365 = doy + 60
<1>0. CASE mp = 0   BY <1>0 DEF InMonth, MonthStart, Month, MonthLength, DaysBefore
<1>1. CASE mp = 1   BY <1>1 DEF InMonth, MonthStart, Month, MonthLength, DaysBefore
<1>2. CASE mp = 2   BY <1>2 DEF InMonth, MonthStart, Month, MonthLength, DaysBefore
<1>3. CASE mp = 3   BY <1>3 DEF InMonth, MonthStart, Month, MonthLength, DaysBefore
<1>4. CASE mp = 4   BY <1>4 DEF InMonth, MonthStart, Month, MonthLength, DaysBefore
<1>5. CASE mp = 5   BY <1>5 DEF InMonth, MonthStart, Month, MonthLength, DaysBefore
<1>6. CASE mp = 6   BY <1>6 DEF InMonth, MonthStart, Month, MonthLength, DaysBefore
<1>7. CASE mp = 7   BY <1>7 DEF InMonth, MonthStart, Month, MonthLength, DaysBefore
<1>8. CASE mp = 8   BY <1>8 DEF InMonth, MonthStart, Month, MonthLength, DaysBefore
<1>9. CASE mp = 9   BY <1>9 DEF InMonth, MonthStart, Month, MonthLength, DaysBefore
<1>10. CASE mp = 10 BY <1>10 DEF InMonth, MonthStart, Month, MonthLength, DaysBefore
<1>11. CASE mp = 11 BY <1>11 DEF InMonth, MonthStart, Month, MonthLength, DaysBefore
<1> QED BY <1>0, <1>1, <1>2, <1>3, <1>4, <1>5, <1>6, <1>7, <1>8, <1>9, <1>10, <1>11 DEF InMonth

-----------------------------------------------------------------------------
\* Every day since 1970 gets the date that the calendar gives it, for ever
\* (conversation_log.rs:165).
THEOREM DatesAreRight ==
  ASSUME NEW days \in Nat
  PROVE  IsDate(DaysToYmd(days)) /\ DayNumber(DaysToYmd(days)) = days
<1> DEFINE z   == days + 719468
           era == z \div EraDays
           doe == z - era * EraDays
           yoe == YearOfEra(doe)
           doy == DayOfYear(doe, yoe)
           mp  == MonthFromMarch(doy)
           m   == Month(mp)
           d   == DayOfMonth(doy, mp)
           Y   == yoe + era * 400
<1>1. DaysToYmd(days) = [y |-> Y + (IF m <= 2 THEN 1 ELSE 0), m |-> m, d |-> d]
  BY DEF DaysToYmd
<1>2. z \in Int
  OBVIOUS
<1>3. IsQuotient(era, z, 146097)
  BY <1>2, Quotients DEF EraDays
<1>4. doe = z - era * 146097
  BY DEF EraDays
<1>5. z = days + 719468
  OBVIOUS
<1> HIDE DEF z, era, doe
<1>6. era \in Int /\ doe \in Int /\ 0 <= doe /\ doe <= 146096 /\ days = 146097 * era + doe - 719468
  BY <1>2, <1>3, <1>4, <1>5 DEF IsQuotient
<1>7. /\ yoe \in Int /\ 0 <= yoe /\ yoe <= 399
      /\ doy \in 0 .. 365
      /\ doy = 365 => IsLong(yoe)
  BY <1>6, YearOfDay DEF IsLong
<1>8. doe = 365 * yoe + yoe \div 4 - yoe \div 100 + doy
  <2>1. doy = doe - (365 * yoe + yoe \div 4 - yoe \div 100)
    BY DEF DayOfYear
  <2>2. yoe \div 4 \in Int /\ yoe \div 100 \in Int
    BY <1>7
  <2> HIDE DEF doy, yoe
  <2> QED BY <1>6, <1>7, <2>1, <2>2
<1> HIDE DEF yoe, doy
<1>9. InMonth(doy, mp, d)
  BY <1>7, MonthOfDay
<1> HIDE DEF mp, d
<1>10. InEra(Y, yoe, era) /\ Y \in Int
  BY <1>6, <1>7 DEF InEra
<1> HIDE DEF Y
<1>11. doy = 365 => IsLeap(Y + 1)
  BY <1>7, <1>10, LongYear
<1>12. LeapDaysOf(Y) = yoe \div 4 - yoe \div 100 + 97 * era
  BY <1>10, EraLeapDays
<1>13. /\ m \in 1 .. 12
       /\ d \in 1 .. MonthLength(Y + 1, m)
       /\ m > 2 => DaysBefore[m] + d = doy + 60
       /\ m <= 2 => DaysBefore[m] + d + 365 = doy + 60
  <2> DEFINE next == Y + 1
  <2>1. next \in Int /\ (doy = 365 => IsLeap(next))
    BY <1>10, <1>11
  <2> HIDE DEF m, next
  <2>2. /\ Month(mp) \in 1 .. 12
        /\ d \in 1 .. MonthLength(next, Month(mp))
        /\ Month(mp) > 2 => DaysBefore[Month(mp)] + d = doy + 60
        /\ Month(mp) <= 2 => DaysBefore[Month(mp)] + d + 365 = doy + 60
    BY <1>9, <2>1, MonthFits
  <2> QED BY <2>2 DEF m, next
<1> HIDE DEF m
<1>14. days = 365 * Y + LeapDaysOf(Y) + doy - 719468
  <2>1. yoe \div 4 \in Int /\ yoe \div 100 \in Int
    BY <1>7
  <2> QED BY <1>6, <1>7, <1>8, <1>10, <1>12, <2>1 DEF InEra
<1>15. LeapDaysBefore(1970) = 477
  BY DEF LeapDaysBefore
<1>16. /\ LeapDaysBefore(Y) + (IF IsLeap(Y) THEN 1 ELSE 0) = LeapDaysOf(Y)
       /\ LeapDaysBefore(Y + 1) = LeapDaysOf(Y)
       /\ LeapDaysBefore(Y) \in Int /\ LeapDaysOf(Y) \in Int
  <2>1. LeapDaysBefore(Y) \in Int
    BY <1>10 DEF LeapDaysBefore
  <2> QED BY <1>10, <2>1, LeapYears
<1>17. CASE m <= 2
  <2>1. DaysToYmd(days) = [y |-> Y + 1, m |-> m, d |-> d]
    BY <1>1, <1>17
  <2>2. IsDate(DaysToYmd(days))
    BY <1>10, <1>13, <2>1 DEF IsDate
  <2>3. DayNumber(DaysToYmd(days))
          = 365 * (Y + 1 - 1970) + LeapDaysBefore(Y + 1) - 477 + DaysBefore[m]
            + (IF m > 2 /\ IsLeap(Y + 1) THEN 1 ELSE 0) + d - 1
    BY <1>10, <1>13, <1>15, <1>17, <2>1 DEF DayNumber
  <2>4. m = 1 \/ m = 2
    BY <1>13, <1>17
  <2>5. DaysBefore[m] \in Int /\ d \in Int
    BY <1>13, <2>4 DEF DaysBefore, MonthLength
  <2> QED BY <1>7, <1>10, <1>13, <1>14, <1>16, <1>17, <2>2, <2>3, <2>5
<1>18. CASE m > 2
  <2>1. DaysToYmd(days) = [y |-> Y, m |-> m, d |-> d]
    BY <1>1, <1>10, <1>13, <1>18
  <2>2. MonthLength(Y, m) = MonthLength(Y + 1, m)
    BY <1>18, <1>13 DEF MonthLength
  <2>3. IsDate(DaysToYmd(days))
    BY <1>10, <1>13, <2>1, <2>2 DEF IsDate
  <2>4. DayNumber(DaysToYmd(days))
          = 365 * (Y - 1970) + LeapDaysBefore(Y) - 477 + DaysBefore[m]
            + (IF IsLeap(Y) THEN 1 ELSE 0) + d - 1
    BY <1>13, <1>15, <1>18, <2>1 DEF DayNumber
  <2>5. DaysBefore[m] \in Int /\ d \in Int
    BY <1>13 DEF DaysBefore, MonthLength
  <2> QED BY <1>7, <1>10, <1>13, <1>14, <1>16, <1>18, <2>3, <2>4, <2>5
<1> QED BY <1>13, <1>17, <1>18

\* No two days share a file: the name of a file is the date of its day
\* (conversation_log.rs:155).
THEOREM DaysKeptApart ==
  ASSUME NEW k \in Nat, NEW l \in Nat, DaysToYmd(k) = DaysToYmd(l)
  PROVE  k = l
BY DatesAreRight

-----------------------------------------------------------------------------
(* What is shown of the window of the latest requests.                     *)

Has(steps, s) == \E i \in 1 .. Len(steps) : steps[i] = s

\* A request is counted, then summed up, then put into the window, once each.
MetricsOrder(steps) ==
  /\ \A i \in 1 .. Len(steps) : steps[i] = "count" => i + 1 <= Len(steps) /\ steps[i + 1] = "sum"
  /\ \A i \in 1 .. Len(steps) : steps[i] = "sum" => i + 1 <= Len(steps) /\ steps[i + 1] = "push"
  /\ \A i, j \in 1 .. Len(steps) : i < j /\ steps[i] \in {"count", "sum", "push"} => steps[j] # "count"
  /\ \A i, j \in 1 .. Len(steps) : i < j /\ steps[i] \in {"sum", "push"} => steps[j] # "sum"
  /\ \A i, j \in 1 .. Len(steps) : i < j /\ steps[i] = "push" => steps[j] # "push"

Counted == {r \in Reqs : Has(todo[r], "push") /\ ~Has(todo[r], "count")}
Summed  == {r \in Reqs : Has(todo[r], "push") /\ ~Has(todo[r], "sum")}

TokensOf == [r \in Reqs |-> Sample[r].tokens]

Covered ==
  /\ \A r \in Reqs : MetricsOrder(todo[r])
  /\ IsFiniteSet(Counted) /\ Len(recent) + Cardinality(Counted) <= total
  /\ IsFiniteSet(Summed) /\ RecentTokens + SumFunctionOnSet(TokensOf, Summed) <= generated
  /\ ~up => Counted = {} /\ Summed = {}

\* What a reader still has to read.
Lefts ==
  {<<>>, <<"generated">>, <<"total", "generated">>, <<"reasons", "total", "generated">>,
   <<"tokens", "reasons", "total", "generated">>}
Views ==
  [route : Routes \cup {"none"},
   left  : Lefts \cup {<<"reasons">>, <<"generated", "reasons">>, <<"total", "generated", "reasons">>},
   tokens : Nat, reasons : Nat, total : Nat, generated : Nat]

\* A total that is yet to be read covers what was read of the window by then.
ViewOK ==
  /\ view \in Views
  /\ ~up => view = NoView
  /\ view.route \in {"health", "stats"} =>
       /\ view.left \in Lefts
       /\ Has(view.left, "reasons") => view.reasons = 0
       /\ Has(view.left, "tokens") => view.tokens = 0
       /\ view.reasons <= IF Has(view.left, "total") THEN total ELSE view.total
       /\ view.tokens <= IF Has(view.left, "generated") THEN generated ELSE view.generated

-----------------------------------------------------------------------------
(* Sums.                                                                   *)

\* Among the parts of a finite set, one of a kind has no smaller one of the
\* kind inside it: what stands in for induction over finite sets.
LEMMA Smallest ==
  ASSUME NEW S, IsFiniteSet(S), NEW B \in SUBSET SUBSET S, B # {}
  PROVE  \E m \in B : \A t \in B : t \subseteq m => t = m
<1>1. B \subseteq FiniteSubsetsOf(S)
  BY FS_FiniteSubsetsOfFinite
<1>2. PICK m \in B : \A t \in B : <<t, m>> \notin StrictSubsetOrdering(S)
  BY <1>1, FS_StrictSubsetOrderingWellFounded, WFMin
<1>3. \A a, b \in SUBSET S : a \subseteq b /\ a # b => <<a, b>> \in StrictSubsetOrdering(S)
  BY DEF StrictSubsetOrdering
<1> QED BY <1>2, <1>3

\* What SumFunctionOnSet computes with: the sum of f over each part of S, one
\* element taken out at a time.
Pick(s) == CHOOSE x \in s : TRUE

Sums(g, f, S) ==
  g = [s \in SUBSET S |-> IF s = {} THEN 0 ELSE f[Pick(s)] + g[s \ {Pick(s)}]]

LEMMA SumUnfolds ==
  ASSUME NEW f, NEW S
  PROVE  SumFunctionOnSet(f, S) = (CHOOSE g : Sums(g, f, S))[S]
BY DEF SumFunctionOnSet, FoldFunctionOnSet, MapThenFoldSet, Sums, Pick

LEMMA PickIn == ASSUME NEW s, s # {} PROVE Pick(s) \in s
BY DEF Pick

LEMMA SumsAt ==
  ASSUME NEW f, NEW S, NEW g, Sums(g, f, S), NEW s \in SUBSET S
  PROVE  g[s] = IF s = {} THEN 0 ELSE f[Pick(s)] + g[s \ {Pick(s)}]
<1>1. \A h : h = [t \in SUBSET S |-> IF t = {} THEN 0 ELSE f[Pick(t)] + g[t \ {Pick(t)}]]
          => h[s] = IF s = {} THEN 0 ELSE f[Pick(s)] + g[s \ {Pick(s)}]
  OBVIOUS
<1> QED BY <1>1 DEF Sums

\* Two such functions agree where both are defined.
LEMMA SumsAgree ==
  ASSUME NEW f, NEW S, NEW T, NEW g, NEW h, Sums(g, f, S), Sums(h, f, T),
         NEW u \in SUBSET S, u \in SUBSET T, IsFiniteSet(u)
  PROVE  g[u] = h[u]
<1> DEFINE B == {s \in SUBSET u : g[s] # h[s]}
<1> SUFFICES ASSUME B # {} PROVE FALSE
  OBVIOUS
<1>1. PICK m \in B : \A t \in B : t \subseteq m => t = m
  <2>1. B \in SUBSET SUBSET u
    OBVIOUS
  <2> HIDE DEF B
  <2> QED BY <2>1, Smallest
<1>2. m \in SUBSET u /\ m \in SUBSET S /\ m \in SUBSET T /\ g[m] # h[m]
  OBVIOUS
<1>3. m # {}
  <2>1. {} \in SUBSET S /\ {} \in SUBSET T
    OBVIOUS
  <2>2. g[{}] = 0 /\ h[{}] = 0
    BY <2>1, SumsAt
  <2> QED BY <1>2, <2>2
<1>4. Pick(m) \in m
  BY <1>3, PickIn
<1>5. m \ {Pick(m)} \notin B
  BY <1>1, <1>4
<1>6. g[m \ {Pick(m)}] = h[m \ {Pick(m)}]
  BY <1>2, <1>5
<1>7. g[m] = f[Pick(m)] + g[m \ {Pick(m)}] /\ h[m] = f[Pick(m)] + h[m \ {Pick(m)}]
  BY <1>2, <1>3, SumsAt
<1> QED BY <1>2, <1>6, <1>7

\* There is one for every finite set: a smallest set without one has one, made
\* of those of its parts.
LEMMA SumsExist ==
  ASSUME NEW f, NEW S, IsFiniteSet(S)
  PROVE  \E g : Sums(g, f, S)
<1> DEFINE B == {s \in SUBSET S : ~ \E g : Sums(g, f, s)}
<1> SUFFICES ASSUME B # {} PROVE FALSE
  OBVIOUS
<1>1. PICK m \in B : \A t \in B : t \subseteq m => t = m
  <2>1. B \in SUBSET SUBSET S
    OBVIOUS
  <2> HIDE DEF B
  <2> QED BY <2>1, Smallest
<1> DEFINE G(t) == CHOOSE g : Sums(g, f, t)
           h == [s \in SUBSET m |-> IF s = {} THEN 0 ELSE f[Pick(s)] + G(s \ {Pick(s)})[s \ {Pick(s)}]]
<1>2. \A t \in SUBSET m : t # m => Sums(G(t), f, t)
  <2> SUFFICES ASSUME NEW t \in SUBSET m, t # m PROVE \E g : Sums(g, f, t)
    OBVIOUS
  <2> QED BY <1>1
<1>3. \A s \in SUBSET m : IsFiniteSet(s)
  BY FS_Subset
<1> HIDE DEF G
<1>4. \A s \in SUBSET m : h[s] = IF s = {} THEN 0 ELSE f[Pick(s)] + G(s \ {Pick(s)})[s \ {Pick(s)}]
  OBVIOUS
<1>5. \A s \in SUBSET m : s # {} => Pick(s) \in s
  BY PickIn
<1>6. ASSUME NEW t \in SUBSET m, t # m PROVE h[t] = G(t)[t]
  <2> HIDE DEF h
  <2>1. G(t)[t] = IF t = {} THEN 0 ELSE f[Pick(t)] + G(t)[t \ {Pick(t)}]
    BY <1>2, <1>6, SumsAt
  <2>2. CASE t = {}
    BY <1>4, <2>1, <2>2
  <2>3. CASE t # {}
    <3>1. t \ {Pick(t)} # m /\ t \ {Pick(t)} \in SUBSET m
      BY <1>5, <2>3
    <3>2. G(t)[t \ {Pick(t)}] = G(t \ {Pick(t)})[t \ {Pick(t)}]
      BY <1>2, <1>3, <1>6, <3>1, SumsAgree
    <3>3. h[t] = f[Pick(t)] + G(t \ {Pick(t)})[t \ {Pick(t)}]
      BY <1>4, <2>3
    <3> QED BY <2>1, <2>3, <3>2, <3>3
  <2> QED BY <2>2, <2>3
<1>7. h = [s \in SUBSET m |-> IF s = {} THEN 0 ELSE f[Pick(s)] + h[s \ {Pick(s)}]]
  <2>1. \A s \in SUBSET m : s # {} => h[s \ {Pick(s)}] = G(s \ {Pick(s)})[s \ {Pick(s)}]
    BY <1>5, <1>6
  <2> DEFINE k == [s \in SUBSET m |-> IF s = {} THEN 0 ELSE f[Pick(s)] + h[s \ {Pick(s)}]]
  <2>2. \A s \in SUBSET m : h[s] = k[s]
    BY <1>4, <2>1
  <2> QED BY <2>2
<1>8. Sums(h, f, m)
  BY <1>7 DEF Sums
<1> QED BY <1>8

LEMMA SumStep ==
  ASSUME NEW f, NEW S, IsFiniteSet(S)
  PROVE  SumFunctionOnSet(f, S) = IF S = {} THEN 0 ELSE f[Pick(S)] + SumFunctionOnSet(f, S \ {Pick(S)})
<1> DEFINE G(s) == CHOOSE g : Sums(g, f, s)
<1>1. \A s \in SUBSET S : Sums(G(s), f, s) /\ SumFunctionOnSet(f, s) = G(s)[s] /\ IsFiniteSet(s)
  BY FS_Subset, SumsExist, SumUnfolds
<1> HIDE DEF G
<1>2. S \in SUBSET S /\ S \ {Pick(S)} \in SUBSET S
  OBVIOUS
<1>3. G(S)[S] = IF S = {} THEN 0 ELSE f[Pick(S)] + G(S)[S \ {Pick(S)}]
  BY <1>1, <1>2, SumsAt
<1>4. G(S)[S \ {Pick(S)}] = G(S \ {Pick(S)})[S \ {Pick(S)}]
  BY <1>1, <1>2, SumsAgree
<1>5. /\ SumFunctionOnSet(f, S) = G(S)[S]
      /\ SumFunctionOnSet(f, S \ {Pick(S)}) = G(S \ {Pick(S)})[S \ {Pick(S)}]
  BY <1>1, <1>2
<1> QED BY <1>3, <1>4, <1>5

LEMMA SumEmpty == ASSUME NEW f PROVE SumFunctionOnSet(f, {}) = 0
BY SumStep, FS_EmptySet

LEMMA SumNat ==
  ASSUME NEW f, NEW S, IsFiniteSet(S), \A x \in S : f[x] \in Nat
  PROVE  SumFunctionOnSet(f, S) \in Nat
<1> DEFINE B == {s \in SUBSET S : SumFunctionOnSet(f, s) \notin Nat}
<1> SUFFICES ASSUME B # {} PROVE FALSE
  OBVIOUS
<1>1. PICK m \in B : \A t \in B : t \subseteq m => t = m
  <2>1. B \in SUBSET SUBSET S
    OBVIOUS
  <2> HIDE DEF B
  <2> QED BY <2>1, Smallest
<1>2. m \in SUBSET S /\ IsFiniteSet(m) /\ SumFunctionOnSet(f, m) \notin Nat
  BY FS_Subset
<1>3. m # {}
  BY <1>2, SumEmpty
<1>4. Pick(m) \in m /\ f[Pick(m)] \in Nat
  BY <1>2, <1>3, PickIn
<1>5. SumFunctionOnSet(f, m \ {Pick(m)}) \in Nat
  BY <1>1, <1>4
<1>6. SumFunctionOnSet(f, m) = f[Pick(m)] + SumFunctionOnSet(f, m \ {Pick(m)})
  BY <1>2, <1>3, SumStep
<1> QED BY ONLY <1>2, <1>4, <1>5, <1>6

\* Whichever element is taken out first.
LEMMA SumTake ==
  ASSUME NEW f, NEW S, IsFiniteSet(S), \A y \in S : f[y] \in Nat, NEW z \in S
  PROVE  SumFunctionOnSet(f, S) = f[z] + SumFunctionOnSet(f, S \ {z})
<1> DEFINE T(s) == SumFunctionOnSet(f, s)
           B == {s \in SUBSET S : \E x \in s : T(s) # f[x] + T(s \ {x})}
<1> SUFFICES ASSUME B # {} PROVE FALSE
  OBVIOUS
<1>1. PICK m \in B : \A t \in B : t \subseteq m => t = m
  <2>1. B \in SUBSET SUBSET S
    OBVIOUS
  <2> HIDE DEF B
  <2> QED BY <2>1, Smallest
<1>2. PICK x \in m : T(m) # f[x] + T(m \ {x})
  OBVIOUS
<1>3. \A s \in SUBSET S : IsFiniteSet(s) /\ T(s) \in Nat
  BY FS_Subset, SumNat
<1>4. m \in SUBSET S /\ m # {}
  OBVIOUS
<1> DEFINE p == Pick(m)
<1>5. p \in m /\ T(m) = f[p] + T(m \ {p})
  BY <1>3, <1>4, PickIn, SumStep
<1>6. \A s \in SUBSET m : s # m => \A y \in s : T(s) = f[y] + T(s \ {y})
  BY <1>1
<1> HIDE DEF p, T, B
<1>7. p # x
  BY <1>2, <1>5
<1>8. T(m \ {p}) = f[x] + T((m \ {p}) \ {x})
  BY <1>5, <1>6, <1>7
<1>9. T(m \ {x}) = f[p] + T((m \ {x}) \ {p})
  BY <1>5, <1>6, <1>7
<1> DEFINE rest == T((m \ {p}) \ {x})
<1>10. (m \ {x}) \ {p} = (m \ {p}) \ {x} /\ (m \ {p}) \ {x} \in SUBSET S
  BY <1>4
<1>11. f[p] \in Nat /\ f[x] \in Nat /\ rest \in Nat
  BY <1>3, <1>4, <1>5, <1>10
<1>12. T(m) = f[p] + (f[x] + rest) /\ T(m \ {x}) = f[p] + rest
  BY <1>5, <1>8, <1>9, <1>10
<1>13. T(m) = f[x] + T(m \ {x})
  <2> HIDE DEF rest
  <2> QED BY ONLY <1>11, <1>12
<1> QED BY <1>2, <1>13

\* The sum depends on nothing but the values.
LEMMA SumSame ==
  ASSUME NEW f, NEW g, NEW S, IsFiniteSet(S), \A x \in S : f[x] = g[x]
  PROVE  SumFunctionOnSet(f, S) = SumFunctionOnSet(g, S)
<1> DEFINE B == {s \in SUBSET S : SumFunctionOnSet(f, s) # SumFunctionOnSet(g, s)}
<1> SUFFICES ASSUME B # {} PROVE FALSE
  OBVIOUS
<1>1. PICK m \in B : \A t \in B : t \subseteq m => t = m
  <2>1. B \in SUBSET SUBSET S
    OBVIOUS
  <2> HIDE DEF B
  <2> QED BY <2>1, Smallest
<1>2. m \in SUBSET S /\ IsFiniteSet(m) /\ SumFunctionOnSet(f, m) # SumFunctionOnSet(g, m)
  BY FS_Subset
<1>3. m # {}
  BY <1>2, SumEmpty
<1>4. Pick(m) \in m /\ f[Pick(m)] = g[Pick(m)]
  BY <1>2, <1>3, PickIn
<1>5. SumFunctionOnSet(f, m \ {Pick(m)}) = SumFunctionOnSet(g, m \ {Pick(m)})
  BY <1>1, <1>4
<1>6. /\ SumFunctionOnSet(f, m) = f[Pick(m)] + SumFunctionOnSet(f, m \ {Pick(m)})
      /\ SumFunctionOnSet(g, m) = g[Pick(m)] + SumFunctionOnSet(g, m \ {Pick(m)})
  BY <1>2, <1>3, SumStep
<1> QED BY <1>2, <1>4, <1>5, <1>6

\* The sum over a sequence, and over the same one place to the right.
LEMMA SumMoved ==
  ASSUME NEW n \in Nat, NEW f, NEW g, \A i \in 1 .. n : g[i] = f[i + 1] /\ g[i] \in Nat
  PROVE  SumFunctionOnSet(f, 2 .. n + 1) = SumFunctionOnSet(g, 1 .. n)
<1> DEFINE B == {s \in SUBSET (1 .. n) : \E k \in 0 .. n : s = 1 .. k /\ SumFunctionOnSet(f, 2 .. k + 1) # SumFunctionOnSet(g, 1 .. k)}
<1> SUFFICES ASSUME B # {} PROVE FALSE
  <2>1. n \in 0 .. n /\ 1 .. n \in SUBSET (1 .. n)
    OBVIOUS
  <2> QED BY <2>1
<1>1. PICK m \in B : \A t \in B : t \subseteq m => t = m
  <2>1. B \in SUBSET SUBSET (1 .. n)
    OBVIOUS
  <2> DEFINE U == 1 .. n
  <2>2. IsFiniteSet(U)
    BY FS_Interval
  <2>3. B \in SUBSET SUBSET U
    BY <2>1
  <2> HIDE DEF B, U
  <2> QED BY <2>2, <2>3, Smallest
<1>2. PICK k \in 0 .. n : m = 1 .. k /\ SumFunctionOnSet(f, 2 .. k + 1) # SumFunctionOnSet(g, 1 .. k)
  OBVIOUS
<1>3. k # 0
  <2> SUFFICES ASSUME k = 0 PROVE FALSE
    OBVIOUS
  <2>1. 1 .. k = {} /\ 2 .. k + 1 = {}
    OBVIOUS
  <2> QED BY <1>2, <2>1, SumEmpty
<1>4. SumFunctionOnSet(f, 2 .. k) = SumFunctionOnSet(g, 1 .. k - 1)
  <2>1. k - 1 \in 0 .. n /\ 1 .. k - 1 \subseteq m /\ 1 .. k - 1 # m /\ (k - 1) + 1 = k /\ 1 .. k - 1 \in SUBSET (1 .. n)
    BY <1>2, <1>3
  <2>2. 1 .. k - 1 \notin B
    BY <1>1, <2>1
  <2> QED BY <2>1, <2>2
<1>5. /\ k \in 1 .. k /\ k \in 1 .. n /\ (1 .. k) \ {k} = 1 .. k - 1
      /\ k + 1 \in 2 .. k + 1 /\ (2 .. k + 1) \ {k + 1} = 2 .. k
  BY <1>3
<1>6. IsFiniteSet(1 .. k) /\ IsFiniteSet(2 .. k + 1)
  <2>1. 1 \in Int /\ 2 \in Int /\ k \in Int /\ k + 1 \in Int
    OBVIOUS
  <2> QED BY ONLY <2>1, FS_Interval
<1>7. (\A i \in 1 .. k : g[i] \in Nat) /\ \A i \in 2 .. k + 1 : f[i] \in Nat
  <2> SUFFICES ASSUME NEW i \in 2 .. k + 1 PROVE f[i] \in Nat
    OBVIOUS
  <2>1. i - 1 \in 1 .. n /\ (i - 1) + 1 = i
    OBVIOUS
  <2> QED BY <2>1
<1>8. SumFunctionOnSet(g, 1 .. k) = g[k] + SumFunctionOnSet(g, 1 .. k - 1)
  <2>1. SumFunctionOnSet(g, 1 .. k) = g[k] + SumFunctionOnSet(g, (1 .. k) \ {k})
    <3> DEFINE U == 1 .. k
               x == k
    <3>1. IsFiniteSet(U) /\ x \in U /\ \A i \in U : g[i] \in Nat
      BY <1>5, <1>6, <1>7
    <3> HIDE DEF U, x, B
    <3>2. SumFunctionOnSet(g, U) = g[x] + SumFunctionOnSet(g, U \ {x})
      BY ONLY <3>1, SumTake
    <3> QED BY <3>2 DEF U, x
  <2> QED BY <1>5, <2>1
<1>9. SumFunctionOnSet(f, 2 .. k + 1) = f[k + 1] + SumFunctionOnSet(f, 2 .. k)
  <2>1. SumFunctionOnSet(f, 2 .. k + 1) = f[k + 1] + SumFunctionOnSet(f, (2 .. k + 1) \ {k + 1})
    <3> DEFINE U == 2 .. k + 1
               x == k + 1
    <3>1. IsFiniteSet(U) /\ x \in U /\ \A i \in U : f[i] \in Nat
      BY <1>5, <1>6, <1>7
    <3> HIDE DEF U, x, B
    <3>2. SumFunctionOnSet(f, U) = f[x] + SumFunctionOnSet(f, U \ {x})
      BY ONLY <3>1, SumTake
    <3> QED BY <3>2 DEF U, x
  <2> QED BY <1>5, <2>1
<1> QED BY <1>2, <1>4, <1>5, <1>8, <1>9

-----------------------------------------------------------------------------
(* The window.                                                             *)

TokensIn(s) == SumFunction([i \in DOMAIN s |-> s[i].tokens])

LEMMA TokensOfSeq ==
  ASSUME NEW s \in Seq(Samples)
  PROVE  /\ IsFiniteSet(1 .. Len(s)) /\ \A i \in 1 .. Len(s) : s[i].tokens \in Nat
         /\ TokensIn(s) = SumFunctionOnSet([i \in 1 .. Len(s) |-> s[i].tokens], 1 .. Len(s))
         /\ TokensIn(s) \in Nat
<1> DEFINE f == [i \in 1 .. Len(s) |-> s[i].tokens]
           U == 1 .. Len(s)
<1>1. IsFiniteSet(U)
  BY FS_Interval
<1>2. \A i \in U : f[i] = s[i].tokens /\ s[i].tokens \in Nat
  <2>1. \A i \in U : s[i] \in Samples
    OBVIOUS
  <2>2. \A m \in Samples : m.tokens \in Nat
    BY DEF Samples
  <2> QED BY <2>1, <2>2
<1>3. TokensIn(s) = SumFunctionOnSet(f, U)
  <2>1. DOMAIN s = 1 .. Len(s)
    OBVIOUS
  <2>2. [i \in DOMAIN s |-> s[i].tokens] = f /\ DOMAIN f = U
    BY <2>1
  <2> QED BY <2>2 DEF TokensIn, SumFunction
<1>4. SumFunctionOnSet(f, U) \in Nat
  <2>1. \A i \in U : f[i] \in Nat
    BY <1>2
  <2> HIDE DEF f, U
  <2> QED BY <1>1, <2>1, SumNat
<1> QED BY <1>1, <1>2, <1>3, <1>4

\* A sample that joins the window.
LEMMA TokensAppend ==
  ASSUME NEW s \in Seq(Samples), NEW m \in Samples
  PROVE  TokensIn(Append(s, m)) = m.tokens + TokensIn(s)
<1> DEFINE t == Append(s, m)
           n == Len(s)
           f == [i \in 1 .. n |-> s[i].tokens]
           g == [i \in 1 .. n + 1 |-> t[i].tokens]
<1>1. n \in Nat /\ t \in Seq(Samples) /\ Len(t) = n + 1 /\ t[n + 1] = m /\ \A i \in 1 .. n : t[i] = s[i]
  BY AppendProperties
<1> HIDE DEF t, n
<1>2. TokensIn(s) = SumFunctionOnSet(f, 1 .. n) /\ TokensIn(t) = SumFunctionOnSet(g, 1 .. n + 1)
  BY <1>1, TokensOfSeq DEF n
<1>3. /\ n + 1 \in 1 .. n + 1 /\ g[n + 1] = m.tokens
      /\ (1 .. n + 1) \ {n + 1} = 1 .. n /\ \A i \in 1 .. n : f[i] = g[i]
  BY <1>1
<1>4. IsFiniteSet(1 .. n) /\ IsFiniteSet(1 .. n + 1) /\ \A i \in 1 .. n + 1 : g[i] \in Nat
  BY <1>1, TokensOfSeq DEF n
<1>5. SumFunctionOnSet(g, 1 .. n + 1) = m.tokens + SumFunctionOnSet(g, (1 .. n + 1) \ {n + 1})
  <2> DEFINE U == 1 .. n + 1
             x == n + 1
  <2>1. IsFiniteSet(U) /\ x \in U /\ (\A i \in U : g[i] \in Nat) /\ g[x] = m.tokens
    BY <1>3, <1>4
  <2> HIDE DEF U, x, g
  <2>2. SumFunctionOnSet(g, U) = g[x] + SumFunctionOnSet(g, U \ {x})
    BY ONLY <2>1, SumTake
  <2> QED BY <2>1, <2>2 DEF U, x
<1>6. SumFunctionOnSet(f, 1 .. n) = SumFunctionOnSet(g, 1 .. n)
  <2> DEFINE U == 1 .. n
  <2>1. IsFiniteSet(U) /\ \A i \in U : f[i] = g[i]
    BY <1>3, <1>4
  <2> HIDE DEF U, f, g
  <2>2. SumFunctionOnSet(f, U) = SumFunctionOnSet(g, U)
    BY ONLY <2>1, SumSame
  <2> QED BY <2>2 DEF U
<1> QED BY <1>2, <1>3, <1>5, <1>6 DEF t

\* The oldest sample leaves it.
LEMMA TokensTail ==
  ASSUME NEW s \in Seq(Samples), s # <<>>
  PROVE  TokensIn(Tail(s)) <= TokensIn(s)
<1> DEFINE t == Tail(s)
           n == Len(t)
           f == [i \in 1 .. n + 1 |-> s[i].tokens]
           g == [i \in 1 .. n |-> t[i].tokens]
<1>1. n \in Nat /\ t \in Seq(Samples) /\ Len(s) = n + 1 /\ \A i \in 1 .. n : t[i] = s[i + 1]
  BY HeadTailProperties
<1> HIDE DEF t, n
<1>2. TokensIn(s) = SumFunctionOnSet(f, 1 .. n + 1) /\ TokensIn(t) = SumFunctionOnSet(g, 1 .. n)
  BY <1>1, TokensOfSeq DEF n
<1>3. TokensIn(t) \in Nat /\ IsFiniteSet(1 .. n + 1) /\ (\A i \in 1 .. n + 1 : f[i] \in Nat) /\ \A i \in 1 .. n : g[i] \in Nat
  BY <1>1, TokensOfSeq DEF n
<1>4. \A i \in 1 .. n : g[i] = f[i + 1] /\ g[i] \in Nat
  BY <1>1, <1>3
<1>5. SumFunctionOnSet(f, 1 .. n + 1) = f[1] + SumFunctionOnSet(f, (1 .. n + 1) \ {1})
  <2> DEFINE U == 1 .. n + 1
             x == 1
  <2>1. IsFiniteSet(U) /\ x \in U /\ (\A i \in U : f[i] \in Nat)
    BY <1>1, <1>3
  <2> HIDE DEF U, x, f
  <2>2. SumFunctionOnSet(f, U) = f[x] + SumFunctionOnSet(f, U \ {x})
    BY ONLY <2>1, SumTake
  <2> QED BY <2>2 DEF U, x
<1>6. (1 .. n + 1) \ {1} = 2 .. n + 1 /\ f[1] \in Nat
  BY <1>1, <1>3
<1>7. SumFunctionOnSet(f, 2 .. n + 1) = SumFunctionOnSet(g, 1 .. n)
  <2> HIDE DEF f, g
  <2> QED BY <1>1, <1>4, SumMoved
<1>8. TokensIn(s) = f[1] + TokensIn(t)
  BY <1>2, <1>5, <1>6, <1>7
<1>9. TokensIn(t) <= TokensIn(s)
  <2> HIDE DEF f
  <2> QED BY ONLY <1>3, <1>6, <1>8
<1> QED BY <1>9 DEF t

-----------------------------------------------------------------------------
(* The steps of a request.                                                 *)

LEMMA HasTail ==
  ASSUME NEW steps \in Seq(AllSteps), steps # <<>>, MetricsOrder(steps)
  PROVE  /\ MetricsOrder(Tail(steps))
         /\ \A s : Has(steps, s) <=> s = Head(steps) \/ Has(Tail(steps), s)
         /\ Head(steps) = "count" => ~Has(Tail(steps), "count") /\ Has(Tail(steps), "push")
         /\ Head(steps) = "sum" => ~Has(Tail(steps), "count") /\ ~Has(Tail(steps), "sum") /\ Has(Tail(steps), "push")
         /\ Head(steps) = "push" => \A s \in {"count", "sum", "push"} : ~Has(Tail(steps), s)
<1> DEFINE n == Len(steps)
           rest == Tail(steps)
<1>1. /\ n \in Nat /\ n > 0 /\ rest \in Seq(AllSteps) /\ Len(rest) = n - 1
      /\ \A i \in 1 .. n - 1 : rest[i] = steps[i + 1] /\ i + 1 \in 1 .. n /\ 1 < i + 1
      /\ \A i \in 1 .. n : i # 1 => i - 1 \in 1 .. n - 1 /\ rest[i - 1] = steps[i]
      /\ Head(steps) = steps[1] /\ 1 \in 1 .. n
  <2>1. /\ n \in Nat /\ n > 0 /\ rest \in Seq(AllSteps) /\ Len(rest) = n - 1
        /\ \A i \in 1 .. n - 1 : rest[i] = steps[i + 1]
        /\ Head(steps) = steps[1]
    BY HeadTailProperties
  <2>2. ASSUME NEW i \in 1 .. n, i # 1
        PROVE  i - 1 \in 1 .. n - 1 /\ (i - 1) + 1 = i
    BY <2>1, <2>2
  <2>3. \A i \in 1 .. n : i # 1 => i - 1 \in 1 .. n - 1 /\ rest[i - 1] = steps[i]
    BY <2>1, <2>2
  <2>4. \A i \in 1 .. n - 1 : i + 1 \in 1 .. n /\ 1 < i + 1
    BY <2>1
  <2> QED BY <2>1, <2>3, <2>4
<1> HIDE DEF n, rest
<1>2. MetricsOrder(rest)
  <2>1. ASSUME NEW i \in 1 .. n - 1
        PROVE  /\ rest[i] = "count" => i + 1 <= n - 1 /\ rest[i + 1] = "sum"
               /\ rest[i] = "sum" => i + 1 <= n - 1 /\ rest[i + 1] = "push"
    <3>1. rest[i] = steps[i + 1] /\ i + 1 \in 1 .. n
      BY <1>1
    <3>2. rest[i] \in {"count", "sum"} => (i + 1) + 1 <= n
      BY <3>1 DEF MetricsOrder, n
    <3>3. ASSUME rest[i] \in {"count", "sum"} PROVE i + 1 \in 1 .. n - 1 /\ rest[i + 1] = steps[(i + 1) + 1]
      BY <1>1, <3>2, <3>3
    <3> QED BY <3>1, <3>2, <3>3 DEF MetricsOrder, n
  <2>2. ASSUME NEW i \in 1 .. n - 1, NEW j \in 1 .. n - 1, i < j
        PROVE  /\ rest[i] \in {"count", "sum", "push"} => rest[j] # "count"
               /\ rest[i] \in {"sum", "push"} => rest[j] # "sum"
               /\ rest[i] = "push" => rest[j] # "push"
    <3>1. rest[i] = steps[i + 1] /\ rest[j] = steps[j + 1] /\ i + 1 \in 1 .. n /\ j + 1 \in 1 .. n /\ i + 1 < j + 1
      BY <1>1, <2>2
    <3> QED BY <3>1 DEF MetricsOrder, n
  <2> QED BY <1>1, <2>1, <2>2 DEF MetricsOrder
<1>3. \A s : Has(steps, s) <=> s = steps[1] \/ Has(rest, s)
  BY <1>1 DEF Has, n
<1>4. ASSUME NEW s \in {"count", "sum", "push"},
             s = "count" => steps[1] \in {"count", "sum", "push"},
             s = "sum" => steps[1] \in {"sum", "push"},
             s = "push" => steps[1] = "push"
      PROVE  ~Has(rest, s)
  <2> SUFFICES ASSUME NEW i \in 1 .. n - 1 PROVE rest[i] # s
    BY <1>1 DEF Has
  <2>1. rest[i] = steps[i + 1] /\ 1 \in 1 .. n /\ i + 1 \in 1 .. n /\ 1 < i + 1
    BY <1>1
  <2> QED BY <1>4, <2>1 DEF MetricsOrder, n
<1>5. ASSUME steps[1] = "sum" PROVE Has(rest, "push")
  <2>1. 1 + 1 <= n /\ steps[1 + 1] = "push"
    BY <1>1, <1>5 DEF MetricsOrder, n
  <2>2. 1 \in 1 .. n - 1 /\ rest[1] = "push"
    BY <1>1, <2>1
  <2> QED BY <1>1, <2>2 DEF Has
<1>6. ASSUME steps[1] = "count" PROVE Has(rest, "push")
  <2>1. 1 + 1 <= n /\ steps[1 + 1] = "sum"
    BY <1>1, <1>6 DEF MetricsOrder, n
  <2>2. 1 + 1 \in 1 .. n
    BY <1>1, <2>1
  <2>3. (1 + 1) + 1 <= n /\ steps[(1 + 1) + 1] = "push"
    BY <2>1, <2>2 DEF MetricsOrder, n
  <2>4. 1 + 1 \in 1 .. n - 1 /\ rest[1 + 1] = "push"
    BY <1>1, <2>3
  <2> QED BY <1>1, <2>4 DEF Has
<1>7. /\ steps[1] = "count" => ~Has(rest, "count")
      /\ steps[1] = "sum" => ~Has(rest, "count") /\ ~Has(rest, "sum")
      /\ steps[1] = "push" => \A s \in {"count", "sum", "push"} : ~Has(rest, s)
  BY <1>4
<1> QED BY <1>1, <1>2, <1>3, <1>5, <1>6, <1>7 DEF rest

LEMMA NoneLeft == MetricsOrder(<<>>) /\ \A s : ~Has(<<>>, s)
BY DEF MetricsOrder, Has

\* Where a request is after a step of its own: in the totals but not in the
\* window, or out of both sets.
LEMMA RequestMoves ==
  ASSUME TypeOK, \A q \in Reqs : MetricsOrder(todo[q]), NEW r \in Reqs, NEW s \in AllSteps, At(r, s), Onward(r)
  PROVE  /\ \A q \in Reqs : MetricsOrder(todo'[q])
         /\ s = "count" => r \notin Counted /\ Counted' = Counted \cup {r} /\ Summed' = Summed
         /\ s = "sum" => r \notin Summed /\ Summed' = Summed \cup {r} /\ Counted' = Counted
         /\ s = "push" => /\ r \in Counted /\ Counted' = Counted \ {r}
                          /\ r \in Summed /\ Summed' = Summed \ {r}
         /\ s \notin {"count", "sum", "push"} => Counted' = Counted /\ Summed' = Summed
<1>1. todo[r] \in Seq(AllSteps) /\ todo[r] # <<>> /\ Head(todo[r]) = s /\ MetricsOrder(todo[r])
  BY DEF TypeOK, AllSteps, At
<1>2. todo'[r] = Tail(todo[r]) /\ \A q \in Reqs \ {r} : todo'[q] = todo[q]
  BY DEF TypeOK, Onward
<1>3. /\ MetricsOrder(todo'[r])
      /\ \A x : Has(todo[r], x) <=> x = s \/ Has(todo'[r], x)
      /\ s = "count" => ~Has(todo'[r], "count") /\ Has(todo'[r], "push")
      /\ s = "sum" => ~Has(todo'[r], "count") /\ ~Has(todo'[r], "sum") /\ Has(todo'[r], "push")
      /\ s = "push" => \A x \in {"count", "sum", "push"} : ~Has(todo'[r], x)
  BY <1>1, <1>2, HasTail
<1>4. \A q \in Reqs : MetricsOrder(todo'[q])
  BY <1>2, <1>3
<1>5. /\ \A q \in Reqs \ {r} : (q \in Counted <=> q \in Counted') /\ (q \in Summed <=> q \in Summed')
      /\ r \in Counted <=> Has(todo[r], "push") /\ ~Has(todo[r], "count")
      /\ r \in Counted' <=> Has(todo'[r], "push") /\ ~Has(todo'[r], "count")
      /\ r \in Summed <=> Has(todo[r], "push") /\ ~Has(todo[r], "sum")
      /\ r \in Summed' <=> Has(todo'[r], "push") /\ ~Has(todo'[r], "sum")
  BY <1>2 DEF Counted, Summed
<1>6. Counted \subseteq Reqs /\ Counted' \subseteq Reqs /\ Summed \subseteq Reqs /\ Summed' \subseteq Reqs
  BY DEF Counted, Summed
<1>7. CASE s = "count"
  <2>1. r \notin Counted /\ r \in Counted' /\ (r \in Summed <=> r \in Summed')
    BY <1>3, <1>5, <1>7
  <2> QED BY <1>4, <1>5, <1>6, <1>7, <2>1
<1>8. CASE s = "sum"
  <2>1. r \notin Summed /\ r \in Summed' /\ (r \in Counted <=> r \in Counted')
    BY <1>3, <1>5, <1>8
  <2> QED BY <1>4, <1>5, <1>6, <1>8, <2>1
<1>9. CASE s = "push"
  <2>1. r \in Counted /\ r \notin Counted' /\ r \in Summed /\ r \notin Summed'
    BY <1>3, <1>5, <1>9
  <2> QED BY <1>4, <1>5, <1>6, <1>9, <2>1
<1>10. CASE s \notin {"count", "sum", "push"}
  <2>1. (r \in Counted <=> r \in Counted') /\ (r \in Summed <=> r \in Summed')
    BY <1>3, <1>5, <1>10
  <2> QED BY <1>4, <1>5, <1>6, <1>10, <2>1
<1> QED BY <1>7, <1>8, <1>9, <1>10

LEMMA CourseCounts ==
  ASSUME NEW r \in Reqs, logging \in BOOLEAN
  PROVE  MetricsOrder(Course(r)) /\ Has(Course(r), "count") /\ Has(Course(r), "sum")
<1>1. ASSUME NEW s, Len(s) = 3, s[1] = "count", s[2] = "sum", s[3] = "push"
      PROVE  MetricsOrder(s) /\ Has(s, "count") /\ Has(s, "sum")
  BY <1>1 DEF MetricsOrder, Has
<1>2. ASSUME NEW s, Len(s) = 6, s[1] = "count", s[2] = "sum", s[3] = "push",
             s[4] = "stamp", s[5] = "rotate", s[6] = "write"
      PROVE  MetricsOrder(s) /\ Has(s, "count") /\ Has(s, "sum")
  BY <1>2 DEF MetricsOrder, Has
<1>3. ASSUME NEW s, Len(s) = 6, s[1] = "stamp", s[2] = "rotate", s[3] = "write",
             s[4] = "count", s[5] = "sum", s[6] = "push"
      PROVE  MetricsOrder(s) /\ Has(s, "count") /\ Has(s, "sum")
  BY <1>3 DEF MetricsOrder, Has
<1>4. CASE ~logging
  <2>1. Course(r) = <<"count", "sum", "push">>
    BY <1>4 DEF Course, Counting, Logging
  <2> QED BY <1>1, <2>1
<1>5. CASE logging
  <2>0. {"count", "sum", "push", "stamp", "rotate", "write"} \subseteq AllSteps
    BY DEF AllSteps
  <2>1. Counting \o Logging = <<"count", "sum", "push", "stamp", "rotate", "write">>
    BY <1>5, <2>0, ThreeAndThree DEF Counting, Logging
  <2>2. Logging \o Counting = <<"stamp", "rotate", "write", "count", "sum", "push">>
    BY <1>5, <2>0, ThreeAndThree DEF Counting, Logging
  <2>3. CASE r \in Streams
    <3>1. Course(r) = <<"count", "sum", "push", "stamp", "rotate", "write">>
      BY <2>1, <2>3 DEF Course
    <3> QED BY <1>2, <3>1
  <2>4. CASE r \notin Streams
    <3>1. Course(r) = <<"stamp", "rotate", "write", "count", "sum", "push">>
      BY <2>2, <2>4 DEF Course
    <3> QED BY <1>3, <3>1
  <2> QED BY <2>3, <2>4
<1> QED BY <1>4, <1>5

-----------------------------------------------------------------------------
(* The totals cover the window.                                            *)

LEMMA RecentTypes ==
  ASSUME TypeOK
  PROVE  recent \in Seq(Samples) /\ Len(recent) \in Nat /\ RecentTokens \in Nat /\ RecentTokens = TokensIn(recent)
<1>1. recent \in Seq(Samples)
  BY DEF TypeOK, Samples
<1>2. RecentTokens = TokensIn(recent)
  BY DEF RecentTokens, TokensIn
<1>3. TokensIn(recent) \in Nat
  BY <1>1, TokensOfSeq
<1>4. Len(recent) \in Nat
  BY <1>1
<1> QED BY <1>1, <1>2, <1>3, <1>4

LEMMA PushBounds ==
  ASSUME TypeOK, TypeOK', NEW r \in Reqs, PushRecent(Sample[r])
  PROVE  Len(recent') <= Len(recent) + 1 /\ RecentTokens' <= Sample[r].tokens + RecentTokens
<1>1. recent \in Seq(Samples) /\ Len(recent) \in Nat /\ RecentTokens = TokensIn(recent)
  BY RecentTypes
<1>2. RecentTokens' = TokensIn(recent')
  BY DEF RecentTokens, TokensIn
<1>3. Sample[r] \in Samples /\ Sample[r].tokens \in Nat
  BY SampleTypes DEF Samples
<1>4. CASE Len(recent) >= Window
  <2>1. recent # <<>>
    BY <1>4, WindowAssumption
  <2>2. Tail(recent) \in Seq(Samples) /\ Len(Tail(recent)) = Len(recent) - 1
    BY <1>1, <2>1, HeadTailProperties
  <2>3. recent' = Append(Tail(recent), Sample[r])
    BY <1>4 DEF PushRecent
  <2>4. Len(recent') = Len(recent)
    BY <1>1, <1>3, <2>2, <2>3, AppendProperties
  <2>5. TokensIn(recent') = Sample[r].tokens + TokensIn(Tail(recent))
    BY <1>3, <2>2, <2>3, TokensAppend
  <2>6. TokensIn(Tail(recent)) <= TokensIn(recent)
    BY <1>1, <2>1, TokensTail
  <2>7. TokensIn(Tail(recent)) \in Nat /\ TokensIn(recent) \in Nat
    BY <1>1, <2>2, TokensOfSeq
  <2>8. TokensIn(recent') <= Sample[r].tokens + TokensIn(recent)
    BY ONLY <1>3, <2>5, <2>6, <2>7
  <2> QED BY <1>1, <1>2, <2>4, <2>8
<1>5. CASE ~(Len(recent) >= Window)
  <2>1. recent' = Append(recent, Sample[r])
    BY <1>5 DEF PushRecent
  <2>2. Len(recent') = Len(recent) + 1
    BY <1>1, <1>3, <2>1, AppendProperties
  <2>3. TokensIn(recent') = Sample[r].tokens + TokensIn(recent) /\ TokensIn(recent) \in Nat
    BY <1>1, <1>3, <2>1, TokensAppend, TokensOfSeq
  <2>4. TokensIn(recent') <= Sample[r].tokens + TokensIn(recent)
    BY ONLY <1>3, <2>3
  <2> QED BY <1>1, <1>2, <2>2, <2>4
<1> QED BY <1>4, <1>5

\* Numbers of the sets of Covered.
LEMMA CoveredTypes ==
  ASSUME TypeOK, Covered
  PROVE  /\ Cardinality(Counted) \in Nat /\ SumFunctionOnSet(TokensOf, Summed) \in Nat
         /\ \A x \in Reqs : TokensOf[x] = Sample[x].tokens /\ TokensOf[x] \in Nat
         /\ total \in Nat /\ generated \in Nat
<1>1. \A x \in Reqs : TokensOf[x] = Sample[x].tokens /\ TokensOf[x] \in Nat
  <2> SUFFICES ASSUME NEW x \in Reqs PROVE TokensOf[x] = Sample[x].tokens /\ Sample[x].tokens \in Nat
    OBVIOUS
  <2>1. Sample[x] \in Samples
    BY SampleTypes
  <2> QED BY <2>1 DEF Samples, TokensOf
<1>2. \A x \in Summed : TokensOf[x] \in Nat
  BY <1>1 DEF Summed
<1>3. SumFunctionOnSet(TokensOf, Summed) \in Nat
  BY <1>2, SumNat DEF Covered
<1> QED BY <1>1, <1>3, FS_CardinalityType DEF Covered, TypeOK

LEMMA CountCovers ==
  ASSUME TypeOK, Covered, NEW r \in Reqs, Count(r)
  PROVE  Covered'
<1>1. "count" \in AllSteps /\ At(r, "count") /\ Onward(r) /\ total' = total + 1
      /\ UNCHANGED <<generated, recent, up>> /\ up
  BY DEF AllSteps, Count, IncRequests, At
<1>2. /\ \A q \in Reqs : MetricsOrder(todo'[q])
      /\ r \notin Counted /\ Counted' = Counted \cup {r} /\ Summed' = Summed
  BY <1>1, RequestMoves DEF Covered
<1>3. IsFiniteSet(Counted') /\ Cardinality(Counted') = Cardinality(Counted) + 1
  BY <1>2, FS_AddElement DEF Covered
<1>4. Len(recent') + Cardinality(Counted') <= total'
  <2>1. Len(recent) \in Nat /\ Cardinality(Counted) \in Nat /\ total \in Nat
    BY CoveredTypes, RecentTypes
  <2>2. Len(recent) + Cardinality(Counted) <= total
    BY DEF Covered
  <2> QED BY <1>1, <1>3, <2>1, <2>2
<1>5. RecentTokens' = RecentTokens /\ SumFunctionOnSet(TokensOf, Summed)' = SumFunctionOnSet(TokensOf, Summed)
  BY <1>1, <1>2 DEF RecentTokens, TokensOf
<1> QED BY <1>1, <1>2, <1>3, <1>4, <1>5 DEF Covered

LEMMA SumCovers ==
  ASSUME TypeOK, Covered, NEW r \in Reqs, Sum(r)
  PROVE  Covered'
<1>1. "sum" \in AllSteps /\ At(r, "sum") /\ Onward(r) /\ generated' = generated + Sample[r].tokens
      /\ UNCHANGED <<total, recent, up>> /\ up
  BY DEF AllSteps, Sum, AddTokens, At
<1>2. /\ \A q \in Reqs : MetricsOrder(todo'[q])
      /\ r \notin Summed /\ Summed' = Summed \cup {r} /\ Counted' = Counted
  BY <1>1, RequestMoves DEF Covered
<1>3. IsFiniteSet(Summed')
  BY <1>2, FS_AddElement DEF Covered
<1>4. SumFunctionOnSet(TokensOf, Summed') = Sample[r].tokens + SumFunctionOnSet(TokensOf, Summed)
  <2>1. \A x \in Summed' : TokensOf[x] \in Nat
    BY <1>2, CoveredTypes DEF Summed
  <2>2. SumFunctionOnSet(TokensOf, Summed') = TokensOf[r] + SumFunctionOnSet(TokensOf, Summed' \ {r})
    BY <1>2, <1>3, <2>1, SumTake
  <2>3. Summed' \ {r} = Summed
    BY <1>2
  <2> QED BY <2>2, <2>3, CoveredTypes
<1>5. RecentTokens' + SumFunctionOnSet(TokensOf, Summed') <= generated'
  <2>1. RecentTokens' = RecentTokens
    BY <1>1 DEF RecentTokens
  <2>2. RecentTokens \in Nat /\ SumFunctionOnSet(TokensOf, Summed) \in Nat /\ Sample[r].tokens \in Nat /\ generated \in Nat
    BY CoveredTypes, RecentTypes
  <2>3. RecentTokens + SumFunctionOnSet(TokensOf, Summed) <= generated
    BY DEF Covered
  <2> QED BY ONLY <1>1, <1>4, <2>1, <2>2, <2>3
<1>6. Len(recent') + Cardinality(Counted') <= total'
  BY <1>1, <1>2 DEF Covered
<1> QED BY <1>1, <1>2, <1>3, <1>5, <1>6 DEF Covered, TokensOf

\* A share that moves from one part of a sum to another, which may lose some.
Moves(mine, now, next, before, after, all) ==
  next <= mine + now /\ before = mine + after /\ now + before <= all => next + after <= all

LEMMA MovesFit ==
  ASSUME NEW mine \in Nat, NEW now \in Nat, NEW next \in Nat,
         NEW before \in Nat, NEW after \in Nat, NEW all \in Nat
  PROVE  Moves(mine, now, next, before, after, all)
BY DEF Moves

LEMMA PushCovers ==
  ASSUME TypeOK, TypeOK', Covered, NEW r \in Reqs, PushSample(r)
  PROVE  Covered'
<1>1. "push" \in AllSteps /\ At(r, "push") /\ Onward(r) /\ PushRecent(Sample[r])
      /\ UNCHANGED <<total, generated, up>> /\ up
  BY DEF AllSteps, PushSample, At
<1>2. /\ \A q \in Reqs : MetricsOrder(todo'[q])
      /\ r \in Counted /\ Counted' = Counted \ {r}
      /\ r \in Summed /\ Summed' = Summed \ {r}
  BY <1>1, RequestMoves DEF Covered
<1>3. /\ IsFiniteSet(Counted') /\ Cardinality(Counted') = Cardinality(Counted) - 1
      /\ IsFiniteSet(Summed')
  BY <1>2, FS_RemoveElement DEF Covered
<1>4. SumFunctionOnSet(TokensOf, Summed) = Sample[r].tokens + SumFunctionOnSet(TokensOf, Summed')
  <2>1. \A x \in Summed : TokensOf[x] \in Nat
    BY CoveredTypes DEF Summed
  <2>2. SumFunctionOnSet(TokensOf, Summed) = TokensOf[r] + SumFunctionOnSet(TokensOf, Summed \ {r})
    BY <1>2, <2>1, SumTake DEF Covered
  <2> QED BY <1>2, <2>2, CoveredTypes
<1>5. Len(recent') <= Len(recent) + 1 /\ RecentTokens' <= Sample[r].tokens + RecentTokens
  BY <1>1, PushBounds
<1>6. Len(recent') \in Nat /\ RecentTokens' \in Nat
  <2>1. recent' \in Seq(Samples)
    BY DEF TypeOK, Samples
  <2>2. RecentTokens' = TokensIn(recent')
    BY DEF RecentTokens, TokensIn
  <2>3. TokensIn(recent') \in Nat
    BY <2>1, TokensOfSeq
  <2> QED BY <2>1, <2>2, <2>3
<1>7. SumFunctionOnSet(TokensOf, Summed') \in Nat
  <2>1. \A x \in Summed' : TokensOf[x] \in Nat
    BY <1>2, CoveredTypes DEF Summed
  <2> QED BY <1>3, <2>1, SumNat
<1>8. /\ Len(recent) \in Nat /\ Cardinality(Counted) \in Nat /\ total \in Nat /\ generated \in Nat
      /\ RecentTokens \in Nat /\ Sample[r].tokens \in Nat
      /\ Len(recent) + Cardinality(Counted) <= total
      /\ RecentTokens + SumFunctionOnSet(TokensOf, Summed) <= generated
  BY CoveredTypes, RecentTypes DEF Covered
<1>9. Len(recent') + Cardinality(Counted') <= total'
  BY ONLY <1>1, <1>3, <1>5, <1>6, <1>8
<1>10. RecentTokens' + SumFunctionOnSet(TokensOf, Summed') <= generated'
  <2>1. Moves(Sample[r].tokens, RecentTokens, RecentTokens', SumFunctionOnSet(TokensOf, Summed),
              SumFunctionOnSet(TokensOf, Summed'), generated)
    <3>1. SumFunctionOnSet(TokensOf, Summed) \in Nat
      BY CoveredTypes
    <3> QED BY ONLY <1>6, <1>7, <1>8, <3>1, MovesFit, Zenon
  <2>2. generated' = generated
    BY <1>1
  <2> QED BY <1>4, <1>5, <1>8, <2>1, <2>2, Zenon DEF Moves
<1> QED BY <1>1, <1>2, <1>3, <1>9, <1>10 DEF Covered, TokensOf

\* A step that moves no request between the totals and the window.
LEMMA OthersCover ==
  ASSUME TypeOK, Covered, \A q \in Reqs : MetricsOrder(todo'[q]), UNCHANGED metricsVars, up' => up,
         NEW R \in SUBSET Reqs, Counted' = Counted \ R, Summed' = Summed \ R,
         R \in {{}, Reqs} \cup {{q} : q \in Reqs}, ~up' => R = Reqs \/ ~up
  PROVE  Covered'
<1>1. total' = total /\ generated' = generated /\ recent' = recent /\ RecentTokens' = RecentTokens
  BY DEF metricsVars, RecentTokens
<1>2. IsFiniteSet(Counted') /\ Cardinality(Counted') <= Cardinality(Counted) /\ Cardinality(Counted') \in Nat
  <2>1. Counted' \in SUBSET Counted
    OBVIOUS
  <2> QED BY <2>1, FS_Subset, FS_CardinalityType DEF Covered
<1>3. IsFiniteSet(Summed')
  <2>1. Summed' \in SUBSET Summed
    OBVIOUS
  <2> QED BY <2>1, FS_Subset DEF Covered
<1>4. /\ \A x \in Summed : TokensOf[x] \in Nat
      /\ SumFunctionOnSet(TokensOf, Summed) \in Nat
      /\ SumFunctionOnSet(TokensOf, Summed') \in Nat
      /\ SumFunctionOnSet(TokensOf, Summed') <= SumFunctionOnSet(TokensOf, Summed)
  <2>1. \A x \in Summed : TokensOf[x] \in Nat
    BY CoveredTypes DEF Summed
  <2>2. SumFunctionOnSet(TokensOf, Summed) \in Nat
    BY CoveredTypes
  <2>3. SumFunctionOnSet(TokensOf, Summed') \in Nat
    BY <1>3, <2>1, SumNat
  <2>4. CASE Summed' = Summed
    BY <2>1, <2>2, <2>4
  <2>5. CASE Summed' = {}
    <3>1. SumFunctionOnSet(TokensOf, Summed') = 0
      BY <2>5, SumEmpty
    <3> QED BY <2>1, <2>2, <2>3, <3>1
  <2>6. ASSUME NEW q \in Summed, Summed' = Summed \ {q}
        PROVE  SumFunctionOnSet(TokensOf, Summed') <= SumFunctionOnSet(TokensOf, Summed)
    <3>1. SumFunctionOnSet(TokensOf, Summed) = TokensOf[q] + SumFunctionOnSet(TokensOf, Summed')
      BY <2>1, <2>6, SumTake DEF Covered
    <3>2. TokensOf[q] \in Nat
      BY <2>1
    <3> QED BY ONLY <2>3, <3>1, <3>2
  <2>7. Summed' = Summed \/ Summed' = {} \/ \E q \in Summed : Summed' = Summed \ {q}
    <3>1. Summed \subseteq Reqs
      BY DEF Summed
    <3> QED BY <3>1
  <2> QED BY <2>1, <2>2, <2>3, <2>4, <2>5, <2>6, <2>7
<1>5. Len(recent') + Cardinality(Counted') <= total'
  <2>1. Len(recent) \in Nat /\ Cardinality(Counted) \in Nat /\ total \in Nat
    BY CoveredTypes, RecentTypes
  <2>2. Len(recent) + Cardinality(Counted) <= total
    BY DEF Covered
  <2> QED BY <1>1, <1>2, <2>1, <2>2
<1>6. RecentTokens' + SumFunctionOnSet(TokensOf, Summed') <= generated'
  <2>1. RecentTokens \in Nat /\ generated \in Nat
    BY CoveredTypes, RecentTypes
  <2>2. RecentTokens + SumFunctionOnSet(TokensOf, Summed) <= generated
    BY DEF Covered
  <2> QED BY ONLY <1>1, <1>4, <2>1, <2>2
<1>7. ~up' => Counted' = {} /\ Summed' = {}
  BY DEF Covered, Counted, Summed
<1> QED BY <1>2, <1>3, <1>5, <1>6, <1>7 DEF Covered, TokensOf

LEMMA SecondIsWrite ==
  ASSUME NEW steps \in Seq(AllSteps), steps # <<>>, InOrder(steps), Head(steps) = "rotate"
  PROVE  Head(Tail(steps)) = "write"
<1> DEFINE n == Len(steps)
           rest == Tail(steps)
<1>1. /\ n \in Nat /\ rest \in Seq(AllSteps) /\ Len(rest) = n - 1
      /\ \A i \in 1 .. n - 1 : rest[i] = steps[i + 1]
      /\ Head(steps) = steps[1]
  BY HeadTailProperties
<1>2. rest # <<>>
  BY StepsTail
<1>3. Head(rest) = rest[1] /\ Len(rest) # 0
  BY <1>1, <1>2
<1> HIDE DEF n, rest
<1>4. 1 \in 1 .. n - 1 /\ 1 \in 1 .. n /\ 1 + 1 \in 1 .. n
  BY <1>1, <1>3
<1>5. steps[1 + 1] = "write"
  BY <1>1, <1>4 DEF InOrder, n
<1>6. Head(rest) = "write"
  BY <1>1, <1>3, <1>4, <1>5
<1> QED BY <1>6 DEF rest

\* A rotation that fails drops the two steps of the write.
LEMMA WriteDropped ==
  ASSUME Inv, Covered, NEW r \in Reqs, RotateFails(r)
  PROVE  /\ \A q \in Reqs : MetricsOrder(todo'[q])
         /\ Counted' = Counted /\ Summed' = Summed
<1>1. /\ todo[r] \in Seq(AllSteps) /\ todo[r] # <<>> /\ Head(todo[r]) = "rotate"
      /\ MetricsOrder(todo[r]) /\ InOrder(todo[r])
  BY DEF Inv, TypeOK, AllSteps, RotateFails, At, Covered, Orders
<1>2. todo'[r] = Tail(Tail(todo[r])) /\ \A q \in Reqs \ {r} : todo'[q] = todo[q]
  BY DEF Inv, TypeOK, RotateFails
<1>3. /\ Tail(todo[r]) \in Seq(AllSteps) /\ Tail(todo[r]) # <<>>
      /\ MetricsOrder(Tail(todo[r]))
      /\ \A x : Has(todo[r], x) <=> x = "rotate" \/ Has(Tail(todo[r]), x)
  BY <1>1, StepsTail, HasTail
<1>4. Head(Tail(todo[r])) = "write"
  BY <1>1, SecondIsWrite
<1>5. /\ MetricsOrder(todo'[r])
      /\ \A x : Has(Tail(todo[r]), x) <=> x = "write" \/ Has(todo'[r], x)
  BY <1>2, <1>3, <1>4, HasTail
<1>6. \A x \in {"count", "sum", "push"} : Has(todo[r], x) <=> Has(todo'[r], x)
  BY <1>3, <1>5
<1>7. \A q \in Reqs : MetricsOrder(todo'[q])
  BY <1>2, <1>5 DEF Covered
<1>8. \A q \in Reqs, x \in {"count", "sum", "push"} : Has(todo[q], x) <=> Has(todo'[q], x)
  BY <1>2, <1>6
<1> QED BY <1>7, <1>8 DEF Counted, Summed

\* The process starts with an empty window, and no request of the last one goes on.
LEMMA StartCovers ==
  ASSUME Inv, Covered, Start
  PROVE  Covered'
<1>1. /\ total' = 0 /\ generated' = 0 /\ recent' = <<>> /\ todo' = todo /\ ~up /\ up'
  BY DEF Start
<1>2. Counted' = {} /\ Summed' = {}
  BY <1>1 DEF Covered, Counted, Summed
<1>3. Len(recent') + Cardinality(Counted') <= total' /\ IsFiniteSet(Counted') /\ IsFiniteSet(Summed')
  BY <1>1, <1>2, FS_EmptySet
<1>4. RecentTokens' = 0
  <2>1. <<>> \in Seq(Samples) /\ Len(<<>>) = 0 /\ 1 .. 0 = {}
    OBVIOUS
  <2>2. TokensIn(<<>>) = 0
    BY <2>1, TokensOfSeq, SumEmpty
  <2> QED BY <1>1, <2>2 DEF RecentTokens, TokensIn
<1>5. SumFunctionOnSet(TokensOf, Summed') = 0
  BY <1>2, SumEmpty
<1>6. RecentTokens' + SumFunctionOnSet(TokensOf, Summed') <= generated'
  BY ONLY <1>1, <1>4, <1>5
<1>7. \A r \in Reqs : MetricsOrder(todo'[r])
  BY <1>1 DEF Covered
<1> QED BY <1>1, <1>3, <1>6, <1>7 DEF Covered, TokensOf

LEMMA CoveredInit == Init => Covered
<1> SUFFICES ASSUME Init PROVE Covered
  OBVIOUS
<1>1. total = 0 /\ generated = 0 /\ recent = <<>> /\ logging \in BOOLEAN /\ up
      /\ \A r \in Reqs : todo[r] = Course(r)
  BY DEF Init, MetricsStart
<1>2. \A r \in Reqs : MetricsOrder(todo[r]) /\ Has(todo[r], "count") /\ Has(todo[r], "sum")
  BY <1>1, CourseCounts
<1>3. Counted = {} /\ Summed = {}
  BY <1>2 DEF Counted, Summed
<1>4. Len(recent) + Cardinality(Counted) <= total /\ IsFiniteSet(Counted) /\ IsFiniteSet(Summed)
  BY <1>1, <1>3, FS_EmptySet
<1>5. RecentTokens = 0
  <2>1. <<>> \in Seq(Samples) /\ Len(<<>>) = 0 /\ 1 .. 0 = {}
    OBVIOUS
  <2>2. TokensIn(<<>>) = 0
    BY <2>1, TokensOfSeq, SumEmpty
  <2> QED BY <1>1, <2>2 DEF RecentTokens, TokensIn
<1>6. SumFunctionOnSet(TokensOf, Summed) = 0
  BY <1>3, SumEmpty
<1>7. RecentTokens + SumFunctionOnSet(TokensOf, Summed) <= generated
  BY ONLY <1>1, <1>5, <1>6
<1> QED BY <1>1, <1>2, <1>4, <1>7 DEF Covered

LEMMA CoveredNext ==
  ASSUME Inv, Inv', Covered, [Next]_vars
  PROVE  Covered'
<1>0. TypeOK /\ TypeOK'
  BY DEF Inv
<1>1. ASSUME NEW r \in Reqs, Count(r) \/ Sum(r) \/ PushSample(r) PROVE Covered'
  BY <1>0, <1>1, CountCovers, SumCovers, PushCovers
<1>2. ASSUME UNCHANGED metricsVars, up' = up, Counted' = Counted, Summed' = Summed,
             \A q \in Reqs : MetricsOrder(todo'[q])
      PROVE  Covered'
  <2>1. Counted' = Counted \ {} /\ Summed' = Summed \ {} /\ {} \in SUBSET Reqs
    BY <1>2
  <2> QED BY <1>0, <1>2, <2>1, OthersCover
<1>3. ASSUME NEW r \in Reqs, Stamp(r) \/ LockAndRotate(r) \/ WriteAndUnlock(r) PROVE Covered'
  <2>1. /\ UNCHANGED metricsVars /\ up' = up
        /\ \E s \in {"stamp", "rotate", "write"} : At(r, s) /\ Onward(r)
    BY <1>3 DEF Stamp, LockAndRotate, WriteAndUnlock
  <2>2. Counted' = Counted /\ Summed' = Summed /\ \A q \in Reqs : MetricsOrder(todo'[q])
    BY <1>0, <2>1, RequestMoves DEF Covered, AllSteps
  <2> QED BY <1>2, <2>1, <2>2
<1>4. ASSUME NEW r \in Reqs, RotateFails(r) PROVE Covered'
  <2>1. UNCHANGED metricsVars /\ up' = up
    BY <1>4 DEF RotateFails
  <2> QED BY <1>2, <1>4, <2>1, WriteDropped
<1>5. ASSUME NEW r \in Reqs, Abandon(r) PROVE Covered'
  <2>1. UNCHANGED metricsVars /\ up' = up /\ up
    BY <1>5 DEF Abandon, At
  <2>2. todo'[r] = <<>> /\ \A q \in Reqs \ {r} : todo'[q] = todo[q]
    BY <1>0, <1>5 DEF TypeOK, Abandon
  <2>3. Counted' = Counted \ {r} /\ Summed' = Summed \ {r} /\ \A q \in Reqs : MetricsOrder(todo'[q])
    BY <2>2, NoneLeft DEF Counted, Summed, Covered
  <2>4. {r} \in SUBSET Reqs /\ {r} \in {{}, Reqs} \cup {{q} : q \in Reqs}
    OBVIOUS
  <2> QED BY <1>0, <2>1, <2>3, <2>4, OthersCover
<1>6. ASSUME UNCHANGED <<metricsVars, up, todo>> PROVE Covered'
  <2>1. Counted' = Counted /\ Summed' = Summed /\ \A q \in Reqs : MetricsOrder(todo'[q])
    BY <1>6 DEF Counted, Summed, Covered
  <2> QED BY <1>2, <1>6, <2>1
<1>7. ASSUME NEW route \in Routes, Scrape(route) PROVE Covered'
  BY <1>6, <1>7 DEF Scrape
<1>8. CASE Look \/ Midnight \/ UNCHANGED vars
  BY <1>6, <1>8 DEF Look, Midnight, vars
<1>9. CASE Stop
  <2>1. UNCHANGED metricsVars /\ ~up' /\ logging \in BOOLEAN
        /\ \A q \in Reqs : todo'[q] = Course(q) \/ todo'[q] = <<>>
    BY <1>0, <1>9 DEF Stop, TypeOK
  <2>2. \A q \in Reqs : MetricsOrder(todo'[q])
    BY <2>1, CourseCounts, NoneLeft
  <2>3. \A q \in Reqs : q \notin Counted' /\ q \notin Summed'
    BY <2>1, CourseCounts, NoneLeft DEF Counted, Summed
  <2>4. Counted' = Counted \ Reqs /\ Summed' = Summed \ Reqs
    BY <2>3 DEF Counted, Summed
  <2> QED BY <1>0, <2>1, <2>2, <2>4, OthersCover
<1>10. CASE Start
  BY <1>10, StartCovers
<1> QED BY <1>1, <1>3, <1>4, <1>5, <1>7, <1>8, <1>9, <1>10 DEF Next

-----------------------------------------------------------------------------
(* What is read.                                                           *)

ReadReasons == FinishReasons["stop"] + FinishReasons["length"] + FinishReasons["tool_calls"]

\* Three parts of a set that have nothing in common fit in it.
LEMMA ThreeParts ==
  ASSUME NEW S, IsFiniteSet(S), NEW A \in SUBSET S, NEW B \in SUBSET S, NEW C \in SUBSET S,
         A \cap B = {}, A \cap C = {}, B \cap C = {}
  PROVE  /\ Cardinality(A) + Cardinality(B) + Cardinality(C) <= Cardinality(S)
         /\ Cardinality(A) + Cardinality(B) + Cardinality(C) \in Nat
<1>1. IsFiniteSet(A) /\ IsFiniteSet(B) /\ IsFiniteSet(C)
  BY FS_Subset
<1>2. /\ Cardinality(A \cup B) = Cardinality(A) + Cardinality(B) - Cardinality(A \cap B)
      /\ IsFiniteSet(A \cup B)
  BY <1>1, FS_Union
<1>3. /\ Cardinality((A \cup B) \cup C) = Cardinality(A \cup B) + Cardinality(C) - Cardinality((A \cup B) \cap C)
      /\ IsFiniteSet((A \cup B) \cup C)
  BY <1>1, <1>2, FS_Union
<1>4. A \cap B = {} /\ (A \cup B) \cap C = {} /\ (A \cup B) \cup C \in SUBSET S
  OBVIOUS
<1>5. Cardinality((A \cup B) \cup C) <= Cardinality(S)
  BY <1>4, FS_Subset
<1>6. Cardinality({}) = 0
  BY FS_EmptySet
<1>7. Cardinality(A) \in Nat /\ Cardinality(B) \in Nat /\ Cardinality(C) \in Nat
      /\ Cardinality(A \cup B) \in Nat /\ Cardinality((A \cup B) \cup C) \in Nat /\ Cardinality(S) \in Nat
  BY <1>1, <1>2, <1>3, FS_CardinalityType
<1>8. Cardinality(A \cap B) = 0 /\ Cardinality((A \cup B) \cap C) = 0
  BY <1>4, <1>6
<1> QED BY ONLY <1>2, <1>3, <1>5, <1>7, <1>8

LEMMA ReasonsInWindow ==
  ASSUME TypeOK
  PROVE  ReadReasons \in Nat /\ ReadReasons <= Len(recent)
<1> DEFINE Of(reason) == {i \in DOMAIN recent : Reason(recent[i].why) = reason}
           U == 1 .. Len(recent)
<1>1. DOMAIN recent = U /\ Len(recent) \in Nat
  BY DEF TypeOK
<1>2. IsFiniteSet(U) /\ Cardinality(U) = Len(recent)
  <2>1. 1 \in Int /\ Len(recent) \in Int
    BY <1>1
  <2>2. IsFiniteSet(U) /\ Cardinality(U) = IF 1 > Len(recent) THEN 0 ELSE Len(recent) - 1 + 1
    BY <2>1, FS_Interval
  <2> HIDE DEF U
  <2> QED BY <1>1, <2>2
<1>3. /\ Of("stop") \in SUBSET U /\ Of("length") \in SUBSET U /\ Of("tool_calls") \in SUBSET U
      /\ Of("stop") \cap Of("length") = {} /\ Of("stop") \cap Of("tool_calls") = {}
      /\ Of("length") \cap Of("tool_calls") = {}
  BY <1>1
<1>4. ReadReasons = Cardinality(Of("stop")) + Cardinality(Of("length")) + Cardinality(Of("tool_calls"))
  BY DEF ReadReasons, FinishReasons
<1> HIDE DEF Of, U
<1> QED BY <1>2, <1>3, <1>4, ThreeParts

\* What is in the window is in the totals.
LEMMA WindowCovered ==
  ASSUME TypeOK, Covered
  PROVE  /\ total \in Nat /\ generated \in Nat
         /\ ReadReasons \in Nat /\ ReadReasons <= total
         /\ RecentTokens \in Nat /\ RecentTokens <= generated
<1>1. /\ Len(recent) \in Nat /\ Cardinality(Counted) \in Nat /\ total \in Nat
      /\ RecentTokens \in Nat /\ SumFunctionOnSet(TokensOf, Summed) \in Nat /\ generated \in Nat
  BY CoveredTypes, RecentTypes
<1>2. Len(recent) + Cardinality(Counted) <= total /\ RecentTokens + SumFunctionOnSet(TokensOf, Summed) <= generated
  BY DEF Covered
<1>3. ReadReasons \in Nat /\ ReadReasons <= Len(recent)
  BY ReasonsInWindow
<1> QED BY ONLY <1>1, <1>2, <1>3

\* The totals do not shrink while the process runs.
LEMMA TotalsGrow ==
  ASSUME TypeOK, [Next]_vars, ~Start
  PROVE  total' >= total /\ generated' >= generated
<1>1. total \in Nat /\ generated \in Nat /\ \A r \in Reqs : Sample[r].tokens \in Nat
  BY SampleTypes DEF TypeOK, Samples
<1>2. ASSUME NEW r \in Reqs, Sum(r) PROVE total' >= total /\ generated' >= generated
  <2>1. total' = total /\ generated' = generated + Sample[r].tokens /\ Sample[r].tokens \in Nat
    BY <1>1, <1>2 DEF Sum, AddTokens
  <2> QED BY ONLY <1>1, <2>1
<1>3. ASSUME NEW r \in Reqs, Count(r) PROVE total' >= total /\ generated' >= generated
  <2>1. total' = total + 1 /\ generated' = generated
    BY <1>3 DEF Count, IncRequests
  <2> QED BY ONLY <1>1, <2>1
<1>4. ASSUME UNCHANGED <<total, generated>> PROVE total' >= total /\ generated' >= generated
  BY <1>1, <1>4
<1>5. ASSUME NEW r \in Reqs,
             PushSample(r) \/ Stamp(r) \/ LockAndRotate(r) \/ RotateFails(r) \/ WriteAndUnlock(r) \/ Abandon(r)
      PROVE  UNCHANGED <<total, generated>>
  BY <1>5 DEF PushSample, Stamp, LockAndRotate, RotateFails, WriteAndUnlock, Abandon, metricsVars
<1>6. ASSUME NEW route \in Routes, Scrape(route) PROVE UNCHANGED <<total, generated>>
  BY <1>6 DEF Scrape, metricsVars
<1>7. CASE Look \/ Midnight \/ Stop \/ UNCHANGED vars
  <2>1. UNCHANGED <<total, generated>>
    BY <1>7 DEF Look, Midnight, Stop, vars, metricsVars
  <2> QED BY <1>4, <2>1
<1> QED BY <1>2, <1>3, <1>4, <1>5, <1>6, <1>7 DEF Next

-----------------------------------------------------------------------------
(* A reader.                                                               *)

\* What a reader has left, and what it has left after the next look.
LEMMA LeftsAre ==
  /\ \A x : ~Has(<<>>, x)
  /\ \A x : Has(<<"generated">>, x) <=> x = "generated"
  /\ \A x : Has(<<"total", "generated">>, x) <=> x \in {"total", "generated"}
  /\ \A x : Has(<<"reasons", "total", "generated">>, x) <=> x \in {"reasons", "total", "generated"}
  /\ \A x : Has(<<"tokens", "reasons", "total", "generated">>, x)
             <=> x \in {"tokens", "reasons", "total", "generated"}
<1>1. \A x : ~Has(<<>>, x)
  BY DEF Has
<1>2. \A x : Has(<<"generated">>, x) <=> x = "generated"
  <2>1. Len(<<"generated">>) = 1 /\ 1 .. 1 = {1} /\ <<"generated">>[1] = "generated"
    OBVIOUS
  <2> QED BY <2>1 DEF Has
<1>3. \A x : Has(<<"total", "generated">>, x) <=> x \in {"total", "generated"}
  <2> DEFINE t == <<"total", "generated">>
  <2>1. Len(t) = 2 /\ 1 .. 2 = {1, 2} /\ t[1] = "total" /\ t[2] = "generated"
    OBVIOUS
  <2> HIDE DEF t
  <2>2. \A x : Has(t, x) <=> x \in {"total", "generated"}
    BY <2>1 DEF Has
  <2> QED BY <2>2 DEF t
<1>4. \A x : Has(<<"reasons", "total", "generated">>, x) <=> x \in {"reasons", "total", "generated"}
  <2> DEFINE t == <<"reasons", "total", "generated">>
  <2>1. Len(t) = 3 /\ 1 .. 3 = {1, 2, 3} /\ t[1] = "reasons" /\ t[2] = "total" /\ t[3] = "generated"
    OBVIOUS
  <2> HIDE DEF t
  <2>2. \A x : Has(t, x) <=> x \in {"reasons", "total", "generated"}
    BY <2>1 DEF Has
  <2> QED BY <2>2 DEF t
<1>5. \A x : Has(<<"tokens", "reasons", "total", "generated">>, x)
            <=> x \in {"tokens", "reasons", "total", "generated"}
  <2> DEFINE t == <<"tokens", "reasons", "total", "generated">>
  <2>1. Len(t) = 4 /\ 1 .. 4 = {1, 2, 3, 4}
        /\ t[1] = "tokens" /\ t[2] = "reasons" /\ t[3] = "total" /\ t[4] = "generated"
    OBVIOUS
  <2> HIDE DEF t
  <2>2. \A x : Has(t, x) <=> x \in {"tokens", "reasons", "total", "generated"}
    BY <2>1 DEF Has
  <2> QED BY <2>2 DEF t
<1> QED BY <1>1, <1>2, <1>3, <1>4, <1>5

\* One look at one of the four.
LEMMA LookAt ==
  ASSUME ViewOK, Look
  PROVE  /\ view'.left = Tail(view.left) /\ view'.route = view.route
         /\ \/ /\ Head(view.left) = "tokens"
               /\ view' = [view EXCEPT !.tokens = RecentTokens, !.left = Tail(view.left)]
            \/ /\ Head(view.left) = "reasons"
               /\ view' = [view EXCEPT !.reasons = ReadReasons, !.left = Tail(view.left)]
            \/ /\ Head(view.left) = "total"
               /\ view' = [view EXCEPT !.total = total, !.left = Tail(view.left)]
            \/ /\ Head(view.left) = "generated"
               /\ view' = [view EXCEPT !.generated = generated, !.left = Tail(view.left)]
<1> DEFINE what == Head(view.left)
<1>1. view \in Views /\ view.left # <<>>
  BY DEF ViewOK, Look
<1>2. what \in {"tokens", "reasons", "total", "generated"}
  BY <1>1 DEF Views, Lefts
<1> HIDE DEF what
<1>3. view.left \in Lefts \cup {<<"reasons">>, <<"generated", "reasons">>, <<"total", "generated", "reasons">>}
  BY <1>1 DEF Views
<1>4. CASE what = "tokens"
  <2>1. view' = [view EXCEPT !.tokens = RecentTokens, !.left = Tail(view.left)]
    BY <1>1, <1>4 DEF Look, what, Views
  <2> QED BY <1>1, <1>4, <2>1 DEF what, Views
<1>5. CASE what = "reasons"
  <2>1. view' = [view EXCEPT !.reasons = ReadReasons, !.left = Tail(view.left)]
    BY <1>1, <1>5 DEF Look, what, Views, ReadReasons
  <2> QED BY <1>1, <1>5, <2>1 DEF what, Views
<1>6. CASE what = "total"
  <2>1. view' = [view EXCEPT !.total = total, !.left = Tail(view.left)]
    BY <1>1, <1>6 DEF Look, what, Views
  <2> QED BY <1>1, <1>6, <2>1 DEF what, Views
<1>7. CASE what = "generated"
  <2>1. view' = [view EXCEPT !.generated = generated, !.left = Tail(view.left)]
    BY <1>1, <1>7 DEF Look, what, Views
  <2> QED BY <1>1, <1>7, <2>1 DEF what, Views
<1> QED BY <1>2, <1>4, <1>5, <1>6, <1>7

LEMMA ViewInit == Init => ViewOK
<1> SUFFICES ASSUME Init PROVE ViewOK
  OBVIOUS
<1>1. view = NoView /\ up
  BY DEF Init
<1>2. NoView \in Views /\ NoView.route = "none"
  BY DEF NoView, Views, Lefts
<1> QED BY <1>1, <1>2 DEF ViewOK

\* A reader begins with nothing read.
LEMMA ScrapeViews ==
  ASSUME ViewOK, TypeOK, NEW route \in Routes, Scrape(route)
  PROVE  ViewOK'
<1>1. /\ view' = [NoView EXCEPT !.route = route, !.left = Plan(route)]
      /\ up' = up /\ up /\ total' = total /\ generated' = generated
  BY DEF Scrape, metricsVars
<1>2. /\ view'.route = route /\ view'.left = Plan(route)
      /\ view'.tokens = 0 /\ view'.reasons = 0 /\ view'.total = 0 /\ view'.generated = 0
      /\ view' = [route |-> route, left |-> Plan(route), tokens |-> 0, reasons |-> 0, total |-> 0, generated |-> 0]
  BY <1>1 DEF NoView
<1>3. /\ Plan(route) \in Lefts \cup {<<"reasons">>, <<"generated", "reasons">>, <<"total", "generated", "reasons">>}
      /\ route \in {"health", "stats"} => Plan(route) \in Lefts
  BY DEF Routes, Plan, Lefts
<1>4. view' \in Views
  BY <1>2, <1>3 DEF Views
<1>5. 0 <= total' /\ 0 <= generated'
  BY <1>1 DEF TypeOK
<1> QED BY <1>1, <1>2, <1>3, <1>4, <1>5 DEF ViewOK

\* What was read of the window is covered by a total read later.
LEMMA LookViews ==
  ASSUME ViewOK, TypeOK, Covered, Look
  PROVE  ViewOK'
<1> DEFINE left == view.left
<1>1. /\ view \in Views /\ left # <<>> /\ up /\ up' = up /\ total' = total /\ generated' = generated
      /\ view.tokens \in Nat /\ view.reasons \in Nat /\ view.total \in Nat /\ view.generated \in Nat
  BY DEF ViewOK, Look, metricsVars, Views
<1>2. /\ total \in Nat /\ generated \in Nat /\ ReadReasons \in Nat /\ ReadReasons <= total
      /\ RecentTokens \in Nat /\ RecentTokens <= generated
  BY WindowCovered
<1>3. /\ view'.left = Tail(left) /\ view'.route = view.route
      /\ view'.tokens = IF Head(left) = "tokens" THEN RecentTokens ELSE view.tokens
      /\ view'.reasons = IF Head(left) = "reasons" THEN ReadReasons ELSE view.reasons
      /\ view'.total = IF Head(left) = "total" THEN total ELSE view.total
      /\ view'.generated = IF Head(left) = "generated" THEN generated ELSE view.generated
      /\ view' = [route |-> view'.route, left |-> view'.left, tokens |-> view'.tokens,
                  reasons |-> view'.reasons, total |-> view'.total, generated |-> view'.generated]
  BY <1>1, LookAt DEF Views
<1>4. Tail(left) \in Lefts \cup {<<"reasons">>, <<"generated", "reasons">>, <<"total", "generated", "reasons">>}
  <2>1. left \in Lefts \cup {<<"reasons">>, <<"generated", "reasons">>, <<"total", "generated", "reasons">>}
    BY <1>1 DEF Views
  <2>2. Tail(<<"generated">>) = <<>> /\ Tail(<<"reasons">>) = <<>>
    OBVIOUS
  <2>3. Tail(<<"total", "generated">>) = <<"generated">>
    OBVIOUS
  <2>4. Tail(<<"reasons", "total", "generated">>) = <<"total", "generated">>
    OBVIOUS
  <2>5. Tail(<<"tokens", "reasons", "total", "generated">>) = <<"reasons", "total", "generated">>
    OBVIOUS
  <2>6. Tail(<<"generated", "reasons">>) = <<"reasons">>
    OBVIOUS
  <2>7. Tail(<<"total", "generated", "reasons">>) = <<"generated", "reasons">>
    OBVIOUS
  <2> HIDE DEF left
  <2> QED BY <1>1, <2>1, <2>2, <2>3, <2>4, <2>5, <2>6, <2>7, Zenon DEF Lefts
<1>5. view' \in Views
  <2>1. view.route \in Routes \cup {"none"}
    BY <1>1 DEF Views
  <2> HIDE DEF left
  <2> QED BY <1>1, <1>2, <1>3, <1>4, <2>1 DEF Views
<1>6. ASSUME view.route \in {"health", "stats"}
      PROVE  /\ view'.left \in Lefts
             /\ Has(view'.left, "reasons") => view'.reasons = 0
             /\ Has(view'.left, "tokens") => view'.tokens = 0
             /\ view'.reasons <= IF Has(view'.left, "total") THEN total ELSE view'.total
             /\ view'.tokens <= IF Has(view'.left, "generated") THEN generated ELSE view'.generated
  <2>1. /\ left \in Lefts
        /\ Has(left, "reasons") => view.reasons = 0
        /\ Has(left, "tokens") => view.tokens = 0
        /\ view.reasons <= IF Has(left, "total") THEN total ELSE view.total
        /\ view.tokens <= IF Has(left, "generated") THEN generated ELSE view.generated
    BY <1>6 DEF ViewOK
  <2>2. CASE left = <<"generated">>
    <3>1. Tail(left) = <<>> /\ Head(left) = "generated"
      BY <2>2
    <3> HIDE DEF left
    <3> QED BY <1>1, <1>2, <1>3, <2>1, <2>2, <3>1, LeftsAre DEF Lefts
  <2>3. CASE left = <<"total", "generated">>
    <3>1. Tail(left) = <<"generated">> /\ Head(left) = "total"
      BY <2>3
    <3> HIDE DEF left
    <3> QED BY <1>1, <1>2, <1>3, <2>1, <2>3, <3>1, LeftsAre DEF Lefts
  <2>4. CASE left = <<"reasons", "total", "generated">>
    <3>1. Tail(left) = <<"total", "generated">> /\ Head(left) = "reasons"
      BY <2>4
    <3> HIDE DEF left
    <3> QED BY <1>1, <1>2, <1>3, <2>1, <2>4, <3>1, LeftsAre DEF Lefts
  <2>5. CASE left = <<"tokens", "reasons", "total", "generated">>
    <3>1. Tail(left) = <<"reasons", "total", "generated">> /\ Head(left) = "tokens"
      BY <2>5
    <3> HIDE DEF left
    <3> QED BY <1>1, <1>2, <1>3, <2>1, <2>5, <3>1, LeftsAre DEF Lefts
  <2> QED BY <1>1, <2>1, <2>2, <2>3, <2>4, <2>5 DEF Lefts
<1> QED BY <1>1, <1>3, <1>5, <1>6 DEF ViewOK

\* While nobody reads, what was read stays covered: the totals only grow.
LEMMA ViewStays ==
  ASSUME ViewOK, TypeOK, TypeOK', UNCHANGED <<view, up>>, total' >= total, generated' >= generated
  PROVE  ViewOK'
<1>1. total \in Nat /\ generated \in Nat /\ total' \in Nat /\ generated' \in Nat
  BY DEF TypeOK
<1>2. view \in Views /\ view.tokens \in Nat /\ view.reasons \in Nat
  BY DEF ViewOK, Views
<1>3. view' = view /\ up' = up
  OBVIOUS
<1>4. ASSUME view.route \in {"health", "stats"}
      PROVE  /\ view.reasons <= IF Has(view.left, "total") THEN total' ELSE view.total
             /\ view.tokens <= IF Has(view.left, "generated") THEN generated' ELSE view.generated
  <2>1. /\ view.reasons <= IF Has(view.left, "total") THEN total ELSE view.total
        /\ view.tokens <= IF Has(view.left, "generated") THEN generated ELSE view.generated
    BY <1>4 DEF ViewOK
  <2> QED BY ONLY <1>1, <1>2, <2>1, total' >= total, generated' >= generated
<1> QED BY <1>2, <1>3, <1>4 DEF ViewOK

LEMMA ViewNext ==
  ASSUME Inv, Inv', Covered, ViewOK, [Next]_vars
  PROVE  ViewOK'
<1>0. TypeOK /\ TypeOK'
  BY DEF Inv
<1>1. ASSUME NEW route \in Routes, Scrape(route) PROVE ViewOK'
  BY <1>0, <1>1, ScrapeViews
<1>2. CASE Look
  BY <1>0, <1>2, LookViews
<1>3. NoView \in Views /\ NoView.route = "none"
  BY DEF NoView, Views, Lefts
<1>4. CASE Stop
  <2>1. view' = NoView /\ ~up'
    BY <1>4 DEF Stop
  <2> QED BY <1>3, <2>1 DEF ViewOK
<1>5. CASE Start
  <2>1. view' = view /\ ~up /\ up'
    BY <1>5 DEF Start
  <2>2. view = NoView
    BY <2>1 DEF ViewOK
  <2> QED BY <1>3, <2>1, <2>2 DEF ViewOK
<1>6. ASSUME UNCHANGED <<view, up>>, ~Start PROVE ViewOK'
  BY <1>0, <1>6, TotalsGrow, ViewStays
<1>7. ASSUME NEW r \in Reqs,
             \/ Count(r) \/ Sum(r) \/ PushSample(r) \/ Stamp(r)
             \/ LockAndRotate(r) \/ RotateFails(r) \/ WriteAndUnlock(r) \/ Abandon(r)
      PROVE  UNCHANGED <<view, up>>
  BY <1>7 DEF Count, Sum, PushSample, Stamp, LockAndRotate, RotateFails, WriteAndUnlock, Abandon
<1>8. Midnight \/ UNCHANGED vars => UNCHANGED <<view, up>>
  BY DEF Midnight, vars
<1> QED BY <1>1, <1>2, <1>4, <1>5, <1>6, <1>7, <1>8 DEF Next

\* The totals that /health and /v1/admin/stats show cover what they show of the
\* window, whichever requests are counted, forgotten or lost while they read
\* (metrics.rs:87, routes/metrics.rs:31 and 239).
THEOREM TotalsCover == Spec => []TotalsCoverWindow
<1> DEFINE All == Inv /\ Covered /\ ViewOK
<1>1. Init => All
  BY InvInit, CoveredInit, ViewInit
<1>2. All /\ [Next]_vars => All'
  BY InvNext, CoveredNext, ViewNext
<1>3. All => TotalsCoverWindow
  <2> SUFFICES ASSUME ViewOK, view.route \in {"health", "stats"}, view.left = <<>>
               PROVE  view.reasons <= view.total /\ view.tokens <= view.generated
    BY DEF TotalsCoverWindow
  <2> QED BY LeftsAre DEF ViewOK
<1> QED BY <1>1, <1>2, <1>3, PTL DEF Spec

-----------------------------------------------------------------------------
(* Percentiles.                                                            *)

LEMMA HasGreatest ==
  ASSUME NEW S, IsFiniteSet(S), S # {}, NEW f, \A x \in S : f[x] \in Nat
  PROVE  \E x \in S : \A y \in S : f[y] <= f[x]
<1> DEFINE Greatest(s) == \E x \in s : \A y \in s : f[y] <= f[x]
           B == {s \in SUBSET S : s # {} /\ ~Greatest(s)}
<1> SUFFICES ASSUME B # {} PROVE FALSE
  OBVIOUS
<1>1. PICK m \in B : \A t \in B : t \subseteq m => t = m
  <2>1. B \in SUBSET SUBSET S
    OBVIOUS
  <2> HIDE DEF B
  <2> QED BY <2>1, Smallest
<1>2. m \in SUBSET S /\ m # {} /\ ~Greatest(m)
  OBVIOUS
<1>3. PICK y \in m : TRUE
  BY <1>2
<1>4. CASE m \ {y} = {}
  <2>1. m = {y} /\ f[y] \in Nat
    BY <1>2, <1>4
  <2> QED BY <1>2, <2>1
<1>5. CASE m \ {y} # {}
  <2>1. Greatest(m \ {y})
    <3>1. m \ {y} \in SUBSET S /\ m \ {y} \subseteq m /\ m \ {y} # m
      BY <1>2, <1>3
    <3> HIDE DEF Greatest
    <3> QED BY <1>1, <1>5, <3>1
  <2>2. PICK x \in m \ {y} : \A z \in m \ {y} : f[z] <= f[x]
    BY <2>1
  <2>3. f[x] \in Nat /\ f[y] \in Nat /\ \A z \in m : f[z] \in Nat
    BY <1>2
  <2>4. CASE f[y] <= f[x]
    BY <1>2, <2>2, <2>4
  <2>5. CASE f[x] <= f[y]
    <3>1. \A z \in m : f[z] <= f[y]
      BY <2>2, <2>3, <2>5
    <3> QED BY <1>2, <3>1
  <2> QED BY <2>3, <2>4, <2>5
<1> QED BY <1>4, <1>5

\* p puts n different places in an order in which the values of f ascend.
RisesOn(f, p, n) ==
  /\ \A i, j \in 1 .. n : p[i] = p[j] => i = j
  /\ \A i, j \in 1 .. n : i < j => f[p[i]] <= f[p[j]]

\* One more place, with a value no smaller than the others.
LEMMA RisesOneMore ==
  ASSUME NEW S, NEW n \in Nat, NEW f, NEW x \in S, NEW q \in [1 .. n -> S \ {x}], RisesOn(f, q, n),
         \A y \in S : f[y] \in Nat /\ f[y] <= f[x]
  PROVE  LET p == [i \in 1 .. n + 1 |-> IF i = n + 1 THEN x ELSE q[i]]
         IN  p \in [1 .. n + 1 -> S] /\ RisesOn(f, p, n + 1)
<1> DEFINE p == [i \in 1 .. n + 1 |-> IF i = n + 1 THEN x ELSE q[i]]
<1>1. \A i \in 1 .. n + 1 : i = n + 1 \/ (i \in 1 .. n /\ i # n + 1)
  OBVIOUS
<1>2. \A i \in 1 .. n : q[i] \in S /\ q[i] # x
  OBVIOUS
<1>3. p[n + 1] = x /\ \A i \in 1 .. n : p[i] = q[i]
  BY <1>1
<1>4. p \in [1 .. n + 1 -> S]
  BY <1>1, <1>2
<1> HIDE DEF p
<1>5. ASSUME NEW i \in 1 .. n + 1, NEW j \in 1 .. n + 1, p[i] = p[j] PROVE i = j
  BY <1>1, <1>2, <1>3, <1>5 DEF RisesOn
<1>6. ASSUME NEW i \in 1 .. n + 1, NEW j \in 1 .. n + 1, i < j PROVE f[p[i]] <= f[p[j]]
  <2>1. i \in 1 .. n
    BY <1>6
  <2>2. CASE j = n + 1
    BY <1>2, <1>3, <2>1, <2>2
  <2>3. CASE j \in 1 .. n
    BY <1>3, <1>6, <2>1, <2>3 DEF RisesOn
  <2> QED BY <1>1, <2>2, <2>3
<1> QED BY <1>4, <1>5, <1>6 DEF RisesOn, p

\* Every finite set can be put in order.
LEMMA OrderExists ==
  ASSUME NEW S, IsFiniteSet(S), NEW f, \A x \in S : f[x] \in Nat
  PROVE  \E p \in [1 .. Cardinality(S) -> S] : RisesOn(f, p, Cardinality(S))
<1> DEFINE Good(s) == \E p \in [1 .. Cardinality(s) -> s] : RisesOn(f, p, Cardinality(s))
           B == {s \in SUBSET S : ~Good(s)}
<1> SUFFICES ASSUME B # {} PROVE FALSE
  OBVIOUS
<1>1. PICK m \in B : \A t \in B : t \subseteq m => t = m
  <2>1. B \in SUBSET SUBSET S
    OBVIOUS
  <2> HIDE DEF B
  <2> QED BY <2>1, Smallest
<1>2. m \in SUBSET S /\ ~Good(m) /\ IsFiniteSet(m)
  BY FS_Subset
<1>3. CASE m = {}
  <2>1. Cardinality(m) = 0 /\ 1 .. 0 = {}
    BY <1>3, FS_EmptySet
  <2>2. [i \in 1 .. 0 |-> 0] \in [1 .. 0 -> m] /\ RisesOn(f, [i \in 1 .. 0 |-> 0], 0)
    BY <2>1 DEF RisesOn
  <2> QED BY <1>2, <2>1, <2>2
<1>4. CASE m # {}
  <2>1. \A y \in m : f[y] \in Nat
    BY <1>2
  <2>2. PICK x \in m : \A y \in m : f[y] <= f[x]
    BY <1>2, <1>4, <2>1, HasGreatest
  <2>3. Good(m \ {x})
    <3>1. m \ {x} \in SUBSET S /\ m \ {x} \subseteq m /\ m \ {x} # m
      BY <1>2, <2>2
    <3> HIDE DEF Good
    <3> QED BY <1>1, <3>1
  <2> DEFINE n == Cardinality(m \ {x})
  <2>4. n \in Nat /\ Cardinality(m) = n + 1
    <3>1. /\ IsFiniteSet(m \ {x}) /\ Cardinality(m \ {x}) = Cardinality(m) - 1
      BY <1>2, FS_RemoveElement
    <3>2. Cardinality(m) \in Nat /\ Cardinality(m \ {x}) \in Nat
      BY <1>2, <3>1, FS_CardinalityType
    <3> QED BY ONLY <3>1, <3>2
  <2>5. PICK q \in [1 .. n -> m \ {x}] : RisesOn(f, q, n)
    BY <2>3
  <2> HIDE DEF n, B
  <2>6. \E p \in [1 .. n + 1 -> m] : RisesOn(f, p, n + 1)
    BY <2>1, <2>2, <2>4, <2>5, RisesOneMore
  <2> QED BY <1>2, <2>4, <2>6
<1> QED BY <1>3, <1>4

\* Sorting: there is an order in which the values ascend, and it is the one taken.
LEMMA SortedAscends ==
  ASSUME NEW s \in Seq(Nat)
  PROVE  \E p \in [1 .. Len(s) -> 1 .. Len(s)] :
           RisesOn(s, p, Len(s)) /\ Sorted(s) = [i \in 1 .. Len(s) |-> s[p[i]]]
<1> DEFINE U == 1 .. Len(s)
           order == CHOOSE p \in [DOMAIN s -> DOMAIN s] : Ascends(s, p)
<1>1. DOMAIN s = U /\ \A i \in U : s[i] \in Nat
  OBVIOUS
<1>2. IsFiniteSet(U) /\ Cardinality(U) = Len(s)
  <2>1. 1 \in Int /\ Len(s) \in Nat
    OBVIOUS
  <2>2. IsFiniteSet(U) /\ Cardinality(U) = IF 1 > Len(s) THEN 0 ELSE Len(s) - 1 + 1
    BY <2>1, FS_Interval
  <2> HIDE DEF U
  <2> QED BY <2>1, <2>2
<1>3. PICK p \in [U -> U] : RisesOn(s, p, Len(s))
  <2>1. \E p \in [1 .. Cardinality(U) -> U] : RisesOn(s, p, Cardinality(U))
    <3> HIDE DEF U
    <3> QED BY <1>1, <1>2, OrderExists
  <2> QED BY <1>2, <2>1
<1>4. Ascends(s, p)
  BY <1>1, <1>3 DEF Ascends, IsInjective, RisesOn
<1>5. order \in [DOMAIN s -> DOMAIN s] /\ Ascends(s, order)
  BY <1>1, <1>4
<1>6. Sorted(s) = [i \in DOMAIN s |-> s[order[i]]]
  BY DEF Sorted
<1> HIDE DEF order
<1>7. RisesOn(s, order, Len(s))
  BY <1>1, <1>5 DEF Ascends, IsInjective, RisesOn
<1> QED BY <1>1, <1>5, <1>6, <1>7

\* The place of a percentile: within the values, its share of them at or before
\* it, and no more than its share before it.
Shares(share, n, i) ==
  i \in Nat /\ i + 1 \in 1 .. n /\ 100 * (i + 1) >= share /\ 100 * i <= share

LEMMA IndexShares ==
  ASSUME NEW n \in Nat, n # 0, NEW pct \in {50, 95, 99}
  PROVE  pct * n \in Nat /\ Shares(pct * n, n, Index(pct, n))
<1> DEFINE a == pct * n
           d == a \div 100
<1>1. a \in Nat /\ a <= 100 * n
  <2>1. CASE pct = 50
    BY <2>1
  <2>2. CASE pct = 95
    BY <2>2
  <2>3. CASE pct = 99
    BY <2>3
  <2> QED BY <2>1, <2>2, <2>3
<1>2. Index(pct, n) = IF d <= n - 1 THEN d ELSE n - 1
  BY DEF Index
<1> HIDE DEF a
<1>3. d \in Nat /\ 100 * d <= a /\ a < 100 * (d + 1)
  BY <1>1
<1> HIDE DEF d
<1>4. CASE d <= n - 1
  <2>1. Index(pct, n) = d
    BY <1>2, <1>4
  <2>2. Shares(a, n, d)
    BY <1>1, <1>3, <1>4 DEF Shares
  <2> QED BY <1>1, <2>1, <2>2 DEF a
<1>5. CASE ~(d <= n - 1)
  <2>1. Index(pct, n) = n - 1
    BY <1>2, <1>5
  <2>2. Shares(a, n, n - 1)
    BY <1>1, <1>3, <1>5 DEF Shares
  <2> QED BY <1>1, <2>1, <2>2 DEF a
<1> QED BY <1>4, <1>5

AtMost(s, n, v) == {i \in 1 .. n : s[i] <= v}
LessThan(s, n, v) == {i \in 1 .. n : s[i] < v}
InPlace(s, n, p, k) ==
  /\ n \in Nat /\ k \in 1 .. n /\ \A i \in 1 .. n : s[i] \in Nat
  /\ p \in [1 .. n -> 1 .. n] /\ RisesOn(s, p, n)
HasRank(s, n, v, k) ==
  /\ Cardinality(AtMost(s, n, v)) \in Nat /\ Cardinality(AtMost(s, n, v)) >= k
  /\ Cardinality(LessThan(s, n, v)) \in Nat /\ Cardinality(LessThan(s, n, v)) <= k - 1

\* How many values stand at or below the one in place k, and how many below it.
LEMMA RankOf ==
  ASSUME NEW n, NEW s, NEW p, NEW k, InPlace(s, n, p, k)
  PROVE  HasRank(s, n, s[p[k]], k)
<1> DEFINE U == 1 .. n
           A == AtMost(s, n, s[p[k]])
           B == LessThan(s, n, s[p[k]])
           early == 1 .. k
           late == k .. n
<1>0. /\ n \in Nat /\ k \in 1 .. n /\ \A i \in 1 .. n : s[i] \in Nat
      /\ p \in [1 .. n -> 1 .. n] /\ RisesOn(s, p, n)
  BY DEF InPlace
<1>1. \A i \in U : p[i] \in U /\ s[p[i]] \in Nat
  BY <1>0
<1>2. /\ IsFiniteSet(U) /\ Cardinality(U) = n /\ IsFiniteSet(early) /\ Cardinality(early) = k
      /\ IsFiniteSet(late) /\ Cardinality(late) = n - k + 1
  <2>1. 1 \in Int /\ n \in Int /\ k \in Int /\ 1 <= k /\ k <= n
    BY <1>0
  <2>2. /\ IsFiniteSet(U) /\ Cardinality(U) = (IF 1 > n THEN 0 ELSE n - 1 + 1)
        /\ IsFiniteSet(early) /\ Cardinality(early) = (IF 1 > k THEN 0 ELSE k - 1 + 1)
        /\ IsFiniteSet(late) /\ Cardinality(late) = (IF k > n THEN 0 ELSE n - k + 1)
    BY <2>1, FS_Interval
  <2> HIDE DEF U, early, late
  <2> QED BY ONLY <2>1, <2>2
<1>3. A \in SUBSET U /\ B \in SUBSET U /\ IsFiniteSet(A) /\ IsFiniteSet(B)
  <2>1. A \in SUBSET U /\ B \in SUBSET U
    BY DEF AtMost, LessThan
  <2> HIDE DEF A, B, U
  <2> QED BY <1>2, <2>1, FS_Subset
<1>4. k <= Cardinality(A)
  <2> DEFINE f == [i \in early |-> p[i]]
  <2>1. ASSUME NEW i \in early PROVE i \in U /\ f[i] = p[i] /\ p[i] \in A
    <3>1. i \in U /\ (i < k \/ i = k)
      BY <1>0
    <3>2. s[p[i]] <= s[p[k]]
      BY <1>0, <1>1, <3>1 DEF RisesOn
    <3> QED BY <1>0, <1>1, <3>1, <3>2 DEF AtMost
  <2>2. f \in [early -> A] /\ \A i, j \in early : f[i] = f[j] => i = j
    BY <1>0, <2>1 DEF RisesOn
  <2> HIDE DEF f, A, early
  <2>3. f \in Injection(early, A)
    BY <2>2, Fun_IsInj
  <2> QED BY <1>2, <1>3, <2>3, FS_Injection
<1>5. Cardinality(late) <= Cardinality(U \ B) /\ Cardinality(U \ B) = Cardinality(U) - Cardinality(B)
  <2> DEFINE f == [i \in late |-> p[i]]
             C == U \ B
  <2>1. ASSUME NEW i \in late PROVE i \in U /\ f[i] = p[i] /\ p[i] \in C
    <3>1. i \in U /\ (k < i \/ i = k)
      BY <1>0
    <3>2. s[p[k]] <= s[p[i]]
      BY <1>0, <1>1, <3>1 DEF RisesOn
    <3>3. s[p[k]] \in Nat /\ s[p[i]] \in Nat /\ p[i] \in U
      BY <1>0, <1>1, <3>1
    <3>4. ~(s[p[i]] < s[p[k]])
      <4>1. \A x, y \in Nat : x <= y => ~(y < x)
        OBVIOUS
      <4> QED BY ONLY <3>2, <3>3, <4>1, Zenon
    <3>5. p[i] \in C
      BY <3>3, <3>4 DEF LessThan
    <3> QED BY <3>1, <3>5
  <2>2. f \in [late -> C] /\ \A i, j \in late : f[i] = f[j] => i = j
    BY <1>0, <2>1 DEF RisesOn
  <2>3. IsFiniteSet(C) /\ Cardinality(C) = Cardinality(U) - Cardinality(U \cap B) /\ U \cap B = B
    <3>1. U \cap B = B
      BY <1>3
    <3> HIDE DEF U, B
    <3> QED BY <1>2, <3>1, FS_Difference
  <2> HIDE DEF f, C, late, U, B
  <2>4. f \in Injection(late, C)
    BY <2>2, Fun_IsInj
  <2>5. Cardinality(late) <= Cardinality(C)
    BY <2>3, <2>4, FS_Injection
  <2> QED BY <2>3, <2>5 DEF C
<1>6. Cardinality(A) \in Nat /\ Cardinality(B) \in Nat
  BY <1>3, FS_CardinalityType
<1>7. Cardinality(B) <= k - 1
  <2>1. k \in Nat
    BY <1>0
  <2> HIDE DEF U, B, late
  <2> QED BY ONLY <1>2, <1>5, <1>6, <1>0, <2>1
<1>8. Cardinality(A) >= k
  <2>1. k \in Nat
    BY <1>0
  <2> HIDE DEF A
  <2> QED BY ONLY <1>4, <1>6, <2>1
<1> QED BY <1>6, <1>7, <1>8 DEF HasRank

\* The value in place k of the sorted window.
LEMMA WindowRank ==
  ASSUME TypeOK, recent # <<>>, NEW k \in 1 .. Len(recent)
  PROVE  /\ Len(recent) \in Nat /\ Len(recent) # 0 /\ DOMAIN recent = 1 .. Len(recent)
         /\ \A i \in 1 .. Len(recent) : Speeds[i] = recent[i].speed
         /\ HasRank(Speeds, Len(recent), Sorted(Speeds)[k], k)
<1> DEFINE n == Len(recent)
           s == [i \in 1 .. n |-> recent[i].speed]
<1>1. n \in Nat /\ n # 0 /\ DOMAIN recent = 1 .. n /\ \A i \in 1 .. n : recent[i].speed \in Nat
  <2>1. recent \in Seq(Samples)
    BY DEF TypeOK, Samples
  <2>2. \A i \in 1 .. Len(recent) : recent[i] \in Samples
    BY <2>1
  <2> QED BY <2>1, <2>2 DEF Samples
<1>2. k \in 1 .. n
  OBVIOUS
<1> HIDE DEF n
<1>3. s \in Seq(Nat) /\ Len(s) = n /\ Speeds = s /\ \A i \in 1 .. n : s[i] = recent[i].speed /\ s[i] \in Nat
  <2>1. s \in [1 .. n -> Nat]
    BY <1>1
  <2>2. s \in Seq(Nat) /\ Len(s) = n
    BY <1>1, <2>1
  <2> QED BY <1>1, <2>2 DEF Speeds
<1> HIDE DEF s
<1>4. PICK p \in [1 .. n -> 1 .. n] : RisesOn(s, p, n) /\ Sorted(s) = [i \in 1 .. n |-> s[p[i]]]
  BY <1>3, SortedAscends
<1>5. HasRank(s, n, s[p[k]], k)
  <2>1. InPlace(s, n, p, k)
    BY <1>1, <1>2, <1>3, <1>4 DEF InPlace
  <2> QED BY ONLY <2>1, RankOf
<1>6. Sorted(s)[k] = s[p[k]]
  BY <1>2, <1>4
<1> QED BY <1>1, <1>3, <1>5, <1>6 DEF n

\* The middle, the slow and the slowest of the latest requests: each percentile
\* has its share of the window at or below it, and no more than its share below,
\* for every window, from one request to a full one (metrics.rs:157).
THEOREM PercentilesAreRanks == Spec => []PercentilesRank
<1>1. TypeOK => PercentilesRank
  <2> SUFFICES ASSUME TypeOK, recent # <<>>, NEW pct \in {50, 95, 99}
               PROVE  LET v == Percentile(pct)
                      IN  /\ 100 * Cardinality({i \in DOMAIN recent : recent[i].speed <= v}) >= pct * Len(recent)
                          /\ 100 * Cardinality({i \in DOMAIN recent : recent[i].speed < v}) <= pct * Len(recent)
    BY DEF PercentilesRank
  <2> DEFINE n == Len(recent)
             i == Index(pct, n)
             share == pct * n
             v == Percentile(pct)
             A == AtMost(Speeds, n, v)
             B == LessThan(Speeds, n, v)
  <2>1. n \in Nat /\ n # 0
    BY DEF TypeOK
  <2>2. share \in Nat /\ Shares(share, n, i)
    BY <2>1, IndexShares
  <2>3. i + 1 \in 1 .. n
    BY <2>2 DEF Shares
  <2>4. /\ DOMAIN recent = 1 .. n /\ \A j \in 1 .. n : Speeds[j] = recent[j].speed
        /\ HasRank(Speeds, n, Sorted(Speeds)[i + 1], i + 1)
    BY <2>3, WindowRank
  <2>5. HasRank(Speeds, n, v, i + 1)
    BY <2>4 DEF Percentile
  <2> HIDE DEF v, n, i, share
  <2>6. 100 * Cardinality(A) >= share /\ 100 * Cardinality(B) <= share
    <3>1. /\ Cardinality(A) \in Nat /\ Cardinality(A) >= i + 1
          /\ Cardinality(B) \in Nat /\ Cardinality(B) <= (i + 1) - 1
      BY <2>5 DEF HasRank
    <3>2. i \in Nat /\ 100 * (i + 1) >= share /\ 100 * i <= share /\ share \in Nat
      BY <2>2 DEF Shares
    <3> HIDE DEF A, B
    <3> QED BY ONLY <3>1, <3>2
  <2>7. /\ A = {j \in DOMAIN recent : recent[j].speed <= v}
        /\ B = {j \in DOMAIN recent : recent[j].speed < v}
    BY <2>4 DEF AtMost, LessThan
  <2> HIDE DEF A, B
  <2>8. /\ 100 * Cardinality({j \in DOMAIN recent : recent[j].speed <= v}) >= pct * Len(recent)
        /\ 100 * Cardinality({j \in DOMAIN recent : recent[j].speed < v}) <= pct * Len(recent)
    BY <2>6, <2>7 DEF n, share
  <2> QED BY <2>8 DEF v
<1> QED BY <1>1, AccountsTypeCorrect, PTL
=============================================================================
