--------------------------- MODULE PipelineProofs ---------------------------
(***************************************************************************)
(* What a client reads of a stream, for any number of requests, tokens and *)
(* any capacity of the channels.                                           *)
(*                                                                         *)
(* As long as the emitter works and the client reads, nothing is lost: the *)
(* client's part, what the emitter holds, and what is on the way behind it *)
(* make up Story(r), all that the event reader was told.  When one of the  *)
(* tasks goes, what it held is gone, but what the client has then still    *)
(* begins the story.                                                       *)
(***************************************************************************)
EXTENDS StreamPipeline, FiniteSetTheorems, SequenceTheorems, TLAPS

Events == Seq(GenerateEvent)

Story(r) ==
  IF up[r].state \in {"complete", "failed"} THEN Append(Tokens(up[r].read), Done)
  ELSE IF up[r].state = "cut" THEN Append(Tokens(up[r].read), Error)
  ELSE Tokens(up[r].read)

Held(r)      == IF reader[r] \in {"send", "done", "error"} THEN <<Holds(r)>> ELSE <<>>
InTracker(r) == IF tracker[r].pc = "send" THEN <<tracker[r].ev>> ELSE <<>>
InEmitter(r) == IF emitter[r].pc \in {"emit", "log", "final"} THEN <<emitter[r].ev>> ELSE <<>>

Before(r) == got[r] \o output[r]
Behind(r) == InEmitter(r) \o (chan2[r] \o (InTracker(r) \o (chan1[r] \o Held(r))))

Begins(s, t) == Len(s) <= Len(t) /\ \A i \in 1 .. Len(s) : s[i] = t[i]

Delivered(r) ==
  /\ Begins(Before(r), Story(r))
  /\ \A i \in 1 .. Len(Before(r)) : Before(r)[i] # Error

OnTheWay(r) ==
  client[r] = "reading" /\ emitter[r].pc # "closed" => Before(r) \o Behind(r) = Story(r)

\* What each place of the program means.
Places(r) ==
  /\ client[r] \in {"idle", "waiting"} =>
       /\ up[r] = [state |-> "none", read |-> 0]
       /\ chan1[r] = <<>> /\ chan2[r] = <<>> /\ output[r] = <<>> /\ got[r] = <<>>
       /\ tracker[r] = Off /\ emitter[r] = Off
       /\ reader[r] = IF client[r] = "idle" THEN "off" ELSE "request"
  /\ reader[r] = "request" => client[r] = "waiting"
  /\ reader[r] = "send" => up[r].read > 0
  /\ tracker[r].pc = "send" => tracker[r].ev \in GenerateEvent
  /\ emitter[r].pc \notin Raised
  /\ emitter[r].pc = "emit" => emitter[r].ev \in GenerateEvent \ {Error}
  /\ emitter[r].pc \in {"log", "final"} => emitter[r].ev = Done
  /\ tracker[r].pc \in {"end", "closed"} /\ emitter[r].pc # "closed" =>
       chan1[r] = <<>> /\ reader[r] = "closed"

StreamInv(r) == Delivered(r) /\ OnTheWay(r) /\ Places(r)

\* A request that does not stream has one handler and no tasks.
WholeInv(r) ==
  reader[r] = "off" /\ tracker[r].pc = "off" /\ emitter[r].pc \in {"off", "closed"} \cup Raised

Inv == /\ TypeOK
       /\ \A r \in Streaming : StreamInv(r)
       /\ \A r \in Reqs \ Streaming : WholeInv(r)

\* The places of the emitter are few words: every step may look at them.
USE DEF Raised, EmitterPcs

-----------------------------------------------------------------------------
(* Sequences.                                                              *)

LEMMA Assoc ==
  ASSUME NEW s \in Events, NEW t \in Events, NEW u \in Events
  PROVE  (s \o t) \o u = s \o (t \o u)
BY ConcatAssociative DEF Events

LEMMA Joins ==
  ASSUME NEW s \in Events, NEW t \in Events
  PROVE  /\ s \o t \in Events /\ Len(s \o t) = Len(s) + Len(t)
         /\ s \o <<>> = s /\ <<>> \o s = s
         /\ \A i \in 1 .. Len(s) : (s \o t)[i] = s[i]
<1>1. s \o t \in Events /\ Len(s \o t) = Len(s) + Len(t)
  BY ConcatProperties DEF Events
<1>2. s \o <<>> = s /\ <<>> \o s = s
  BY ConcatEmptySeq DEF Events
<1>3. \A i \in 1 .. Len(s) : (s \o t)[i] = s[i]
  <2>1. \A i \in 1 .. Len(s) + Len(t) : (s \o t)[i] = IF i <= Len(s) THEN s[i] ELSE t[i - Len(s)]
    BY ConcatProperties DEF Events
  <2>2. Len(s) \in Nat /\ Len(t) \in Nat
    BY DEF Events
  <2> QED BY <2>1, <2>2
<1> QED BY <1>1, <1>2, <1>3

\* The first event of a sequence, put in front of the others, and the last.
LEMMA Moves ==
  ASSUME NEW s \in Events, NEW x \in GenerateEvent
  PROVE  /\ s # <<>> => /\ Head(s) \in GenerateEvent /\ Tail(s) \in Events /\ <<Head(s)>> \o Tail(s) = s
                        /\ Len(Tail(s)) = Len(s) - 1
         /\ <<x>> \in Events /\ Append(s, x) \in Events /\ Append(s, x) = s \o <<x>>
         /\ Len(Append(s, x)) = Len(s) + 1
         /\ \A i \in 1 .. Len(s) : Append(s, x)[i] = s[i]
         /\ Append(s, x)[Len(s) + 1] = x
<1>1. <<x>> \in Events
  BY DEF Events
<1>2. /\ Append(s, x) \in Events /\ Len(Append(s, x)) = Len(s) + 1
      /\ \A i \in 1 .. Len(s) : Append(s, x)[i] = s[i]
      /\ Append(s, x)[Len(s) + 1] = x
  BY AppendProperties DEF Events
<1>3. Append(s, x) = s \o <<x>>
  BY AppendIsConcat DEF Events
<1>5. ASSUME s # <<>>
      PROVE  Head(s) \in GenerateEvent /\ Tail(s) \in Events /\ <<Head(s)>> \o Tail(s) = s /\ Len(Tail(s)) = Len(s) - 1
  <2>1. Head(s) \in GenerateEvent /\ Tail(s) \in Events /\ Len(Tail(s)) = Len(s) - 1
    BY <1>5, HeadTailProperties DEF Events
  <2>2. Len(s) \in Nat /\ Len(s) # 0 /\ s[1] = Head(s)
    BY <1>5 DEF Events
  <2>3. 1 \in 1 .. Len(s) /\ Len(s) \in 1 .. Len(s)
    BY <2>2
  <2>4. SubSeq(s, 1, Len(s)) = <<s[1]>> \o SubSeq(s, 1 + 1, Len(s))
    BY <2>3, SubSeqRecursiveFirst DEF Events
  <2>5. SubSeq(s, 1, Len(s)) = s /\ SubSeq(s, 2, Len(s)) = Tail(s)
    BY <1>5, SubSeqFull, TailIsSubSeq DEF Events
  <2> QED BY <2>1, <2>2, <2>4, <2>5
<1> QED BY <1>1, <1>2, <1>3, <1>5

LEMMA Handed ==
  ASSUME NEW s \in Events, NEW t \in Events, NEW x \in GenerateEvent
  PROVE  Append(s, x) \o t = s \o (<<x>> \o t)
<1>1. <<x>> \in Events /\ Append(s, x) = s \o <<x>>
  BY Moves
<1> DEFINE y == <<x>>
<1> HIDE DEF y
<1>2. (s \o y) \o t = s \o (y \o t)
  BY <1>1, Assoc DEF y
<1> QED BY <1>1, <1>2 DEF y
-----------------------------------------------------------------------------
(* The story.                                                              *)

LEMMA EventTypes ==
  /\ Done \in GenerateEvent /\ Error \in GenerateEvent /\ Done # Error
  /\ \A n \in 1 .. MaxTokens : Token(n) \in GenerateEvent /\ Token(n) # Error /\ Token(n) # Done
  /\ Nothing \notin GenerateEvent
BY DEF GenerateEvent, Token, Done, Error, Nothing

LEMMA StoryTypes ==
  ASSUME TypeOK, NEW r \in Reqs
  PROVE  /\ Tokens(up[r].read) \in Events /\ Len(Tokens(up[r].read)) = up[r].read
         /\ \A i \in 1 .. up[r].read : Tokens(up[r].read)[i] = Token(i)
         /\ up[r].read \in 0 .. MaxTokens
         /\ Story(r) \in Events
<1>1. up[r].read \in 0 .. MaxTokens
  BY DEF TypeOK
<1>2. /\ Tokens(up[r].read) \in Events /\ Len(Tokens(up[r].read)) = up[r].read
      /\ \A i \in 1 .. up[r].read : Tokens(up[r].read)[i] = Token(i)
  BY <1>1, EventTypes, PipelineAssumption DEF Tokens, Events
<1>3. Append(Tokens(up[r].read), Done) \in Events /\ Append(Tokens(up[r].read), Error) \in Events
  BY <1>2, EventTypes, Moves
<1> QED BY <1>1, <1>2, <1>3 DEF Story

\* One more token.
LEMMA OneMore ==
  ASSUME NEW n \in Nat, n < MaxTokens
  PROVE  Tokens(n + 1) = Append(Tokens(n), Token(n + 1))
<1>1. n + 1 \in 1 .. MaxTokens /\ MaxTokens \in Nat
  BY PipelineAssumption
<1>2. Tokens(n) \in Seq(GenerateEvent) /\ Len(Tokens(n)) = n /\ \A i \in 1 .. n : Tokens(n)[i] = Token(i)
  BY <1>1, EventTypes DEF Tokens
<1>3. Tokens(n + 1) \in Seq(GenerateEvent) /\ Len(Tokens(n + 1)) = n + 1
      /\ \A i \in 1 .. n + 1 : Tokens(n + 1)[i] = Token(i)
  BY <1>1, EventTypes DEF Tokens
<1> DEFINE t == Append(Tokens(n), Token(n + 1))
<1>4. /\ t \in Seq(GenerateEvent) /\ Len(t) = n + 1
      /\ \A i \in 1 .. n : t[i] = Token(i)
      /\ t[n + 1] = Token(n + 1)
  BY <1>1, <1>2, EventTypes, Moves DEF Events
<1> HIDE DEF t
<1>5. \A i \in 1 .. n + 1 : t[i] = Tokens(n + 1)[i]
  BY <1>3, <1>4
<1>6. t = Tokens(n + 1)
  BY <1>3, <1>4, <1>5, SeqEqual
<1> QED BY <1>6 DEF t

LEMMA Beginnings ==
  ASSUME NEW s \in Events, NEW t \in Events, NEW u \in Events
  PROVE  /\ Begins(s, s \o t)
         /\ Begins(s \o t, u) => Begins(s, u)
         /\ Begins(s, t) => Begins(s, t \o u)
<1>1. /\ s \o t \in Events /\ Len(s \o t) = Len(s) + Len(t) /\ \A i \in 1 .. Len(s) : (s \o t)[i] = s[i]
      /\ t \o u \in Events /\ Len(t \o u) = Len(t) + Len(u) /\ \A i \in 1 .. Len(t) : (t \o u)[i] = t[i]
      /\ Len(s) \in Nat /\ Len(t) \in Nat /\ Len(u) \in Nat
  <2>1. Len(s) \in Nat /\ Len(t) \in Nat /\ Len(u) \in Nat
    BY DEF Events
  <2> QED BY <2>1, Joins
<1> QED BY <1>1 DEF Begins
-----------------------------------------------------------------------------
(* Frames.                                                                 *)

At(q) == <<up[q], reader[q], chan1[q], tracker[q], chan2[q], emitter[q], output[q], client[q], got[q]>>

Only(r) == \A q \in Reqs \ {r} : UNCHANGED At(q)

\* What a step leaves alone of a request.
LEMMA Others ==
  ASSUME NEW q \in Reqs, UNCHANGED At(q)
  PROVE  (StreamInv(q) => StreamInv(q)') /\ (WholeInv(q) => WholeInv(q)')
<1>1. /\ up'[q] = up[q] /\ reader'[q] = reader[q] /\ chan1'[q] = chan1[q] /\ tracker'[q] = tracker[q]
      /\ chan2'[q] = chan2[q] /\ emitter'[q] = emitter[q] /\ output'[q] = output[q]
      /\ client'[q] = client[q] /\ got'[q] = got[q]
  BY DEF At
<1>2. Story(q)' = Story(q) /\ Before(q)' = Before(q) /\ Behind(q)' = Behind(q)
  BY <1>1 DEF Story, Before, Behind, Held, Holds, InTracker, InEmitter
<1>3. ASSUME StreamInv(q) PROVE Delivered(q)' /\ OnTheWay(q)' /\ Places(q)'
  BY <1>1, <1>2, <1>3 DEF StreamInv, Delivered, OnTheWay, Places
<1>4. WholeInv(q) => WholeInv(q)'
  BY <1>1 DEF WholeInv
<1> QED BY <1>3, <1>4 DEF StreamInv

LEMMA StepOfOne ==
  ASSUME Inv, NEW r \in Reqs, TypeOK', Only(r),
         r \in Streaming => StreamInv(r)', r \notin Streaming => WholeInv(r)'
  PROVE  Inv'
<1>1. ASSUME NEW q \in Streaming PROVE StreamInv(q)'
  <2>1. q \in Reqs
    BY PipelineAssumption
  <2>2. CASE q = r
    BY <1>1, <2>2
  <2>3. CASE q # r
    BY <1>1, <2>1, <2>3, Others DEF Inv, Only
  <2> QED BY <2>2, <2>3
<1>2. ASSUME NEW q \in Reqs \ Streaming PROVE WholeInv(q)'
  <2>1. CASE q = r
    BY <2>1
  <2>2. CASE q # r
    BY <2>2, Others DEF Inv, Only
  <2> QED BY <2>1, <2>2
<1> QED BY <1>1, <1>2 DEF Inv

LEMMA Tasks ==
  ASSUME Inv, NEW r \in Reqs
  PROVE  reader[r] # "off" \/ tracker[r].pc # "off" \/ emitter[r].pc \in {"recv", "emit", "log", "final"}
           => r \in Streaming /\ StreamInv(r)
BY DEF Inv, WholeInv

-----------------------------------------------------------------------------
(* The handler of a streaming request.                                     *)

LEMMA AskStep ==
  ASSUME Inv, NEW r \in Reqs, Ask(r)
  PROVE  Inv'
<1>1. TypeOK'
  BY DEF Inv, TypeOK, Ask, Set, sharedVars
<1>2. Only(r)
  BY DEF Inv, TypeOK, Ask, Set, Only, At
<1>3. /\ client[r] = "idle" /\ client'[r] = "waiting" /\ reader'[r] = "request"
      /\ UNCHANGED <<up, chan1, tracker, chan2, emitter, output, got>>
      /\ r \in Streaming
  BY DEF Inv, TypeOK, Ask, Set
<1>4. StreamInv(r)
  BY <1>3 DEF Inv
<1>5. Delivered(r)'
  BY <1>3, <1>4 DEF StreamInv, Delivered, Before, Story
<1>6. OnTheWay(r)' /\ Places(r)'
  BY <1>3, <1>4 DEF StreamInv, OnTheWay, Places, Off
<1> QED BY <1>1, <1>2, <1>3, <1>5, <1>6, StepOfOne DEF StreamInv

LEMMA AnsweredStep ==
  ASSUME Inv, NEW r \in Reqs, Answered(r)
  PROVE  Inv'
<1>1. TypeOK'
  <2>1. up' \in [Reqs -> [state : {"none", "open", "complete", "failed", "cut"}, read : 0 .. MaxTokens]]
    <3>1. up \in [Reqs -> [state : {"none", "open", "complete", "failed", "cut"}, read : 0 .. MaxTokens]]
      BY DEF Inv, TypeOK
    <3>2. up' = [up EXCEPT ![r].state = "open"]
      BY DEF Answered
    <3> QED BY ONLY <3>1, <3>2
  <2>2. /\ reader' \in [Reqs -> {"off", "request", "read", "send", "done", "error", "closed"}]
        /\ client' \in [Reqs -> {"idle", "waiting", "reading", "gone", "over"}]
    BY DEF Inv, TypeOK, Answered, Set
  <2>3. tracker' \in [Reqs -> [pc : {"off", "start", "recv", "send", "end", "closed"},
                               ev : GenerateEvent \cup {Nothing}]]
    BY DEF Inv, TypeOK, Answered, Set, To
  <2>4. emitter' \in [Reqs -> [pc : EmitterPcs,
                               ev : GenerateEvent \cup {Nothing}]]
    BY DEF Inv, TypeOK, Answered, Set, To
  <2> QED BY <2>1, <2>2, <2>3, <2>4 DEF Inv, TypeOK, Answered, sharedVars
<1>2. Only(r)
  BY DEF Inv, TypeOK, Answered, Set, Only, At
<1>3. /\ client[r] = "waiting" /\ client'[r] = "reading"
      /\ reader[r] = "request" /\ reader'[r] = "read"
      /\ up'[r] = [up[r] EXCEPT !.state = "open"]
      /\ tracker'[r] = To("start", Nothing) /\ emitter'[r] = To("recv", Nothing)
      /\ UNCHANGED <<chan1, chan2, output, got>>
  BY DEF Inv, TypeOK, Answered, Set
<1>4. r \in Streaming /\ StreamInv(r)
  BY <1>3, Tasks
<1>5. StreamInv(r)'
  <2>1. /\ up[r] = [state |-> "none", read |-> 0]
        /\ chan1[r] = <<>> /\ chan2[r] = <<>> /\ output[r] = <<>> /\ got[r] = <<>>
    BY <1>3, <1>4 DEF Inv, StreamInv, Places
  <2>2. up'[r] = [state |-> "open", read |-> 0]
    BY <1>3, <2>1
  <2>3. Tokens(0) = <<>>
    BY DEF Tokens
  <2>4. Story(r)' = <<>>
    BY <2>2, <2>3 DEF Story
  <2>5. Before(r)' = <<>> /\ Behind(r)' = <<>>
    BY <1>3, <2>1 DEF Before, Behind, InEmitter, InTracker, Held, To
  <2>6. Delivered(r)'
    BY <1>3, <2>1, <2>4, <2>5 DEF Delivered, Begins, Events
  <2>7. OnTheWay(r)'
    BY <2>4, <2>5 DEF OnTheWay
  <2>8. Places(r)'
    BY <1>3 DEF Places, To
  <2> QED BY <2>6, <2>7, <2>8 DEF StreamInv
<1> QED BY <1>1, <1>2, <1>4, <1>5, StepOfOne

LEMMA RefusedStep ==
  ASSUME Inv, NEW r \in Reqs, Refused(r)
  PROVE  Inv'
<1>1. TypeOK'
  BY DEF Inv, TypeOK, Refused, Set, sharedVars
<1>2. Only(r)
  BY DEF Inv, TypeOK, Refused, Set, Only, At
<1>3. /\ reader[r] = "request" /\ client'[r] = "over" /\ reader'[r] = "closed"
      /\ UNCHANGED <<up, chan1, tracker, chan2, emitter, output, got>>
  BY DEF Inv, TypeOK, Refused, Set
<1>4. r \in Streaming /\ StreamInv(r)
  BY <1>3, Tasks
<1>5. StreamInv(r)'
  <2>1. StreamInv(r)
    BY <1>4 DEF Inv
  <2>2. Delivered(r)'
    BY <1>3, <2>1 DEF StreamInv, Delivered, Before, Story
  <2>3. OnTheWay(r)' /\ Places(r)'
    BY <1>3, <2>1 DEF StreamInv, OnTheWay, Places
  <2> QED BY <2>2, <2>3 DEF StreamInv
<1> QED BY <1>1, <1>2, <1>4, <1>5, StepOfOne
-----------------------------------------------------------------------------
(* The event reader.                                                       *)

LEMMA BehindTypes ==
  ASSUME TypeOK, NEW r \in Reqs, Places(r)
  PROVE  /\ InEmitter(r) \in Events /\ chan2[r] \in Events /\ InTracker(r) \in Events
         /\ chan1[r] \in Events /\ Held(r) \in Events /\ Behind(r) \in Events
         /\ reader[r] \in {"send", "done", "error"} => Holds(r) \in GenerateEvent /\ Held(r) = <<Holds(r)>>
<1>1. chan1[r] \in Events /\ chan2[r] \in Events
  BY DEF TypeOK, Events
<1>2. ASSUME reader[r] \in {"send", "done", "error"} PROVE Holds(r) \in GenerateEvent
  <2>1. CASE reader[r] = "send"
    <3>1. up[r].read \in 1 .. MaxTokens
      BY <2>1, PipelineAssumption DEF TypeOK, Places
    <3> QED BY <2>1, <3>1, EventTypes DEF Holds
  <2>2. CASE reader[r] \in {"done", "error"}
    BY <2>2, EventTypes DEF Holds
  <2> QED BY <1>2, <2>1, <2>2
<1>3. Held(r) \in Events
  BY <1>2 DEF Held, Events
<1>4. InTracker(r) \in Events
  BY DEF Places, InTracker, Events
<1>5. InEmitter(r) \in Events
  <2>1. emitter[r].pc \in {"emit", "log", "final"} => emitter[r].ev \in GenerateEvent
    BY EventTypes DEF Places
  <2> QED BY <2>1 DEF InEmitter, Events
<1>6. chan1[r] \o Held(r) \in Events
  BY <1>1, <1>3, Joins
<1>7. InTracker(r) \o (chan1[r] \o Held(r)) \in Events
  BY <1>4, <1>6, Joins
<1>8. chan2[r] \o (InTracker(r) \o (chan1[r] \o Held(r))) \in Events
  BY <1>1, <1>7, Joins
<1>9. Behind(r) \in Events
  BY <1>5, <1>8, Joins DEF Behind
<1> QED BY <1>1, <1>2, <1>3, <1>4, <1>5, <1>9 DEF Held

LEMMA BeforeTypes ==
  ASSUME TypeOK, NEW r \in Reqs
  PROVE  got[r] \in Events /\ output[r] \in Events /\ Before(r) \in Events /\ Len(Before(r)) \in Nat
<1>1. got[r] \in Events /\ output[r] \in Events
  BY DEF TypeOK, Events
<1>2. Before(r) \in Events
  BY <1>1, Joins DEF Before
<1> QED BY <1>1, <1>2 DEF Events

\* Concatenation under a name of its own: nothing but what CatLaws says of it
\* is visible where sequences are regrouped.
Cat(s, t) == s \o t

Regroups(s1, s2, s3, s4, s5, s6) ==
  (s1 \o (s2 \o (s3 \o (s4 \o s5)))) \o s6 = s1 \o (s2 \o (s3 \o (s4 \o (s5 \o s6))))

LEMMA CatLaws ==
  ASSUME NEW s \in Events, NEW t \in Events, NEW u \in Events
  PROVE  Cat(s, t) \in Events /\ Cat(Cat(s, t), u) = Cat(s, Cat(t, u))
BY Joins, Assoc DEF Cat

LEMMA LastOfSix ==
  ASSUME NEW s1 \in Events, NEW s2 \in Events, NEW s3 \in Events,
         NEW s4 \in Events, NEW s5 \in Events, NEW s6 \in Events
  PROVE  Regroups(s1, s2, s3, s4, s5, s6)
<1>1. Cat(Cat(s4, s5), s6) = Cat(s4, Cat(s5, s6)) /\ Cat(s4, s5) \in Events
  BY CatLaws
<1>2. Cat(Cat(s3, Cat(s4, s5)), s6) = Cat(s3, Cat(s4, Cat(s5, s6))) /\ Cat(s3, Cat(s4, s5)) \in Events
  BY <1>1, CatLaws
<1>3. /\ Cat(Cat(s2, Cat(s3, Cat(s4, s5))), s6) = Cat(s2, Cat(s3, Cat(s4, Cat(s5, s6))))
      /\ Cat(s2, Cat(s3, Cat(s4, s5))) \in Events
  BY <1>2, CatLaws
<1>4. Cat(Cat(s1, Cat(s2, Cat(s3, Cat(s4, s5)))), s6) = Cat(s1, Cat(s2, Cat(s3, Cat(s4, Cat(s5, s6)))))
  BY <1>3, CatLaws
<1> QED BY <1>4 DEF Cat, Regroups

\* Something is read: it is new in the story, and the reader holds it.
LEMMA Reads ==
  ASSUME TypeOK, NEW r \in Reqs, StreamInv(r), NEW x \in GenerateEvent,
         reader[r] = "read", Story(r)' = Append(Story(r), x), Held(r)' = <<x>>,
         UNCHANGED <<chan1, tracker, chan2, emitter, output, client, got>>
  PROVE  Delivered(r)' /\ OnTheWay(r)'
<1>1. Held(r) = <<>> /\ <<x>> \in Events /\ Story(r) \in Events /\ Append(Story(r), x) = Story(r) \o <<x>>
  <2>1. Story(r) \in Events
    BY StoryTypes
  <2>2. <<x>> \in Events /\ Append(Story(r), x) = Story(r) \o <<x>>
    BY <2>1, Moves
  <2> QED BY <2>1, <2>2 DEF Held
<1>2. Before(r)' = Before(r) /\ Before(r) \in Events
  BY BeforeTypes DEF Before
<1>3. Delivered(r)'
  <2>1. Begins(Before(r), Story(r) \o <<x>>)
    BY <1>1, <1>2, Beginnings DEF StreamInv, Delivered
  <2> QED BY <1>1, <1>2, <2>1 DEF StreamInv, Delivered
<1>4. ASSUME client[r] = "reading", emitter[r].pc # "closed"
      PROVE  Before(r) \o Behind(r)' = Story(r) \o <<x>>
  <2>1. Before(r) \o Behind(r) = Story(r)
    BY <1>4 DEF StreamInv, OnTheWay
  <2>2. /\ InEmitter(r) \in Events /\ chan2[r] \in Events /\ InTracker(r) \in Events /\ chan1[r] \in Events
    BY BehindTypes DEF StreamInv
  <2>3. Behind(r) = InEmitter(r) \o (chan2[r] \o (InTracker(r) \o (chan1[r] \o <<>>)))
    BY <1>1 DEF Behind
  <2>4. Behind(r)' = InEmitter(r) \o (chan2[r] \o (InTracker(r) \o (chan1[r] \o <<x>>)))
    BY DEF Behind, InEmitter, InTracker
  <2>5. Before(r) \o (InEmitter(r) \o (chan2[r] \o (InTracker(r) \o (chan1[r] \o <<x>>))))
          = (Before(r) \o (InEmitter(r) \o (chan2[r] \o (InTracker(r) \o (chan1[r] \o <<>>))))) \o <<x>>
    <3>1. <<x>> \in Events /\ Before(r) \in Events
      BY <1>1, <1>2
    <3>2. chan1[r] \o <<>> = chan1[r]
      BY <2>2, Joins
    <3>3. Regroups(Before(r), InEmitter(r), chan2[r], InTracker(r), chan1[r], <<x>>)
      BY ONLY <2>2, <3>1, LastOfSix
    <3> QED BY <3>2, <3>3 DEF Regroups
  <2> QED BY <2>1, <2>3, <2>4, <2>5
<1>5. OnTheWay(r)'
  BY <1>1, <1>2, <1>4 DEF OnTheWay
<1> QED BY <1>3, <1>5

LEMMA ReadTokenStep ==
  ASSUME Inv, NEW r \in Reqs, ReadToken(r)
  PROVE  Inv'
<1>1. /\ up[r].state = "open" /\ up[r].read < MaxTokens /\ up[r].read \in Nat
      /\ up[r].read + 1 \in 1 .. MaxTokens
      /\ up'[r].state = "open" /\ up'[r].read = up[r].read + 1
      /\ reader[r] = "read" /\ reader'[r] = "send"
      /\ UNCHANGED <<chan1, tracker, chan2, emitter, output, client, got>>
  BY PipelineAssumption DEF Inv, TypeOK, ReadToken, Set
<1>2. TypeOK'
  <2>1. up' \in [Reqs -> [state : {"none", "open", "complete", "failed", "cut"}, read : 0 .. MaxTokens]]
    <3>1. up \in [Reqs -> [state : {"none", "open", "complete", "failed", "cut"}, read : 0 .. MaxTokens]]
      BY DEF Inv, TypeOK
    <3>2. up[r].read + 1 \in 0 .. MaxTokens
      BY <1>1
    <3> QED BY <3>1, <3>2 DEF ReadToken
  <2>2. reader' \in [Reqs -> {"off", "request", "read", "send", "done", "error", "closed"}]
    BY DEF Inv, TypeOK, ReadToken, Set
  <2> QED BY <2>1, <2>2 DEF Inv, TypeOK, ReadToken, sharedVars
<1>3. Only(r)
  BY DEF Inv, TypeOK, ReadToken, Set, Only, At
<1>4. r \in Streaming /\ StreamInv(r)
  BY <1>1, Tasks
<1>5. StreamInv(r)'
  <2> DEFINE x == Token(up[r].read + 1)
  <2>1. x \in GenerateEvent
    BY <1>1, EventTypes
  <2>2. Story(r)' = Append(Story(r), x)
    BY <1>1, OneMore DEF Story
  <2>3. Held(r)' = <<x>>
    BY <1>1 DEF Held, Holds
  <2>4. StreamInv(r) /\ TypeOK
    BY <1>4 DEF Inv
  <2> HIDE DEF x
  <2>5. Delivered(r)' /\ OnTheWay(r)'
    BY <1>1, <2>1, <2>2, <2>3, <2>4, Reads
  <2>6. Places(r)'
    BY <1>1, <2>4 DEF StreamInv, Places
  <2> QED BY <2>5, <2>6 DEF StreamInv
<1> QED BY <1>2, <1>3, <1>4, <1>5, StepOfOne

LEMMA ReadEndStep ==
  ASSUME Inv, NEW r \in Reqs, ReadEnd(r) \/ ReadError(r)
  PROVE  Inv'
<1>1. /\ up[r].state = "open" /\ up'[r].read = up[r].read
      /\ reader[r] = "read"
      /\ \/ reader'[r] = "done" /\ up'[r].state \in {"complete", "failed"}
         \/ reader'[r] = "error" /\ up'[r].state = "cut"
      /\ UNCHANGED <<chan1, tracker, chan2, emitter, output, client, got, protocol, sharedVars>>
  BY DEF Inv, TypeOK, ReadEnd, ReadError, Set
<1>2. /\ up' \in [Reqs -> [state : {"none", "open", "complete", "failed", "cut"}, read : 0 .. MaxTokens]]
      /\ reader' \in [Reqs -> {"off", "request", "read", "send", "done", "error", "closed"}]
      /\ Only(r)
  <2>1. CASE ReadEnd(r)
    <3>1. PICK s \in {"complete", "failed"} : up' = [up EXCEPT ![r].state = s]
      BY <2>1 DEF ReadEnd
    <3>2. reader' = [reader EXCEPT ![r] = "done"]
      BY <2>1 DEF ReadEnd, Set
    <3> QED BY <1>1, <3>1, <3>2 DEF Inv, TypeOK, Only, At
  <2>2. CASE ReadError(r)
    BY <1>1, <2>2 DEF ReadError, Set, Inv, TypeOK, Only, At
  <2> QED BY <2>1, <2>2
<1>3. TypeOK'
  BY <1>1, <1>2 DEF Inv, TypeOK, sharedVars
<1>4. r \in Streaming /\ StreamInv(r)
  BY <1>1, Tasks
<1>5. StreamInv(r)'
  <2> DEFINE x == IF reader'[r] = "done" THEN Done ELSE Error
  <2>1. x \in GenerateEvent
    BY EventTypes
  <2>2. Story(r)' = Append(Story(r), x)
    BY <1>1 DEF Story
  <2>3. Held(r)' = <<x>>
    BY <1>1 DEF Held, Holds
  <2>4. StreamInv(r) /\ TypeOK
    BY <1>4 DEF Inv
  <2> HIDE DEF x
  <2>5. Delivered(r)' /\ OnTheWay(r)'
    BY <1>1, <2>1, <2>2, <2>3, <2>4, Reads
  <2>6. Places(r)'
    BY <1>1, <2>4 DEF StreamInv, Places
  <2> QED BY <2>5, <2>6 DEF StreamInv
<1> QED BY <1>2, <1>3, <1>4, <1>5, StepOfOne
LEMMA ReaderSendsStep ==
  ASSUME Inv, NEW r \in Reqs, ReaderSends(r)
  PROVE  Inv'
<1>1. /\ reader[r] \in {"send", "done", "error"} /\ tracker[r].pc # "closed"
      /\ reader'[r] \in {"read", "closed"}
      /\ chan1'[r] = Append(chan1[r], Holds(r))
      /\ UNCHANGED <<up, tracker, chan2, emitter, output, client, got>>
  BY DEF Inv, TypeOK, ReaderSends, Set
<1>2. Only(r)
  BY DEF Inv, TypeOK, ReaderSends, Set, Only, At
<1>3. TypeOK /\ (r \in Streaming => StreamInv(r))
  BY DEF Inv
<1>4. r \in Streaming
  BY <1>1, Tasks
<1>5. /\ InEmitter(r) \in Events /\ chan2[r] \in Events /\ InTracker(r) \in Events /\ chan1[r] \in Events
      /\ Holds(r) \in GenerateEvent /\ Held(r) = <<Holds(r)>>
  BY <1>1, <1>3, <1>4, BehindTypes DEF StreamInv
<1>6. TypeOK'
  <2>1. chan1'[r] \in Seq(GenerateEvent) /\ Len(chan1'[r]) <= Cap
    <3>1. Append(chan1[r], Holds(r)) \in Events /\ Len(Append(chan1[r], Holds(r))) = Len(chan1[r]) + 1
      BY <1>5, Moves
    <3>2. Len(chan1[r]) < Cap /\ Len(chan1[r]) \in Nat /\ Cap \in Nat
      BY <1>5, PipelineAssumption DEF ReaderSends, Events
    <3> QED BY <1>1, <3>1, <3>2 DEF Events
  <2> QED BY <1>3, <2>1 DEF TypeOK, ReaderSends, Set, sharedVars
<1>7. Story(r)' = Story(r) /\ Before(r)' = Before(r) /\ Before(r) \in Events
  BY <1>1, <1>3, BeforeTypes DEF Story, Before
<1>8. Delivered(r)'
  BY <1>1, <1>3, <1>4, <1>7 DEF StreamInv, Delivered
<1>9. OnTheWay(r)'
  <2> DEFINE a == InEmitter(r)
             b == chan2[r]
             c == InTracker(r)
             d == chan1[r]
             x == Holds(r)
             f == Before(r)
  <2>1. Behind(r)' = a \o (b \o (c \o (Append(d, x) \o <<>>)))
    BY <1>1 DEF Behind, InEmitter, InTracker, Held
  <2>2. Behind(r) = a \o (b \o (c \o (d \o <<x>>)))
    BY <1>5 DEF Behind
  <2>3. a \in Events /\ b \in Events /\ c \in Events /\ d \in Events /\ x \in GenerateEvent /\ f \in Events
    BY <1>5, <1>7
  <2> HIDE DEF a, b, c, d, x, f
  <2>4. f \o (a \o (b \o (c \o (Append(d, x) \o <<>>)))) = f \o (a \o (b \o (c \o (d \o <<x>>))))
    <3>1. Append(d, x) \o <<>> = d \o <<x>>
      BY <2>3, SMTT(30) DEF Events
    <3> QED BY <3>1
  <2> QED BY <1>1, <1>3, <1>4, <1>7, <2>1, <2>2, <2>4 DEF f, StreamInv, OnTheWay
<1>10. Places(r)'
  BY <1>1, <1>3, <1>4 DEF StreamInv, Places
<1> QED BY <1>2, <1>4, <1>6, <1>8, <1>9, <1>10, StepOfOne DEF StreamInv

LEMMA ReaderStopsStep ==
  ASSUME Inv, NEW r \in Reqs, ReaderStops(r)
  PROVE  Inv'
<1>1. TypeOK'
  BY DEF Inv, TypeOK, ReaderStops, Set, sharedVars
<1>2. Only(r)
  BY DEF Inv, TypeOK, ReaderStops, Set, Only, At
<1>3. /\ reader[r] \in {"send", "done", "error"} /\ tracker[r].pc = "closed" /\ reader'[r] = "closed"
      /\ UNCHANGED <<up, chan1, tracker, chan2, emitter, output, client, got>>
  BY DEF Inv, TypeOK, ReaderStops, Set
<1>4. r \in Streaming /\ StreamInv(r)
  BY <1>3, Tasks
<1>5. StreamInv(r)'
  <2>1. StreamInv(r)
    BY <1>4 DEF Inv
  <2>2. Delivered(r)'
    BY <1>3, <2>1 DEF StreamInv, Delivered, Before, Story
  <2>3. OnTheWay(r)' /\ Places(r)'
    BY <1>3, <2>1 DEF StreamInv, OnTheWay, Places
  <2> QED BY <2>2, <2>3 DEF StreamInv
<1> QED BY <1>1, <1>2, <1>4, <1>5, StepOfOne
-----------------------------------------------------------------------------
(* The tracker.                                                            *)

\* What is behind the emitter changes with its parts only.
LEMMA Parts ==
  ASSUME NEW r \in Reqs
  PROVE  /\ UNCHANGED <<up, reader>> => Held(r)' = Held(r)
         /\ UNCHANGED emitter => InEmitter(r)' = InEmitter(r)
         /\ tracker'[r].pc = "send" => InTracker(r)' = <<tracker'[r].ev>>
         /\ tracker'[r].pc # "send" => InTracker(r)' = <<>>
         /\ tracker[r].pc # "send" => InTracker(r) = <<>>
BY DEF Held, Holds, InEmitter, InTracker

\* The story, the client's part and what is behind it stay as they are, or the
\* emitter is through.
LEMMA Stays ==
  ASSUME NEW r \in Reqs, StreamInv(r), UNCHANGED <<up, output, client, got>>,
         \/ emitter'[r].pc = "closed"
         \/ emitter[r].pc # "closed" /\ Behind(r)' = Behind(r)
  PROVE  Delivered(r)' /\ OnTheWay(r)'
<1>1. Story(r)' = Story(r) /\ Before(r)' = Before(r)
  BY DEF Story, Before
<1>2. Delivered(r)'
  BY <1>1 DEF StreamInv, Delivered
<1>3. OnTheWay(r)'
  BY <1>1 DEF StreamInv, OnTheWay
<1> QED BY <1>2, <1>3

LEMMA TrackerStartsStep ==
  ASSUME Inv, NEW r \in Reqs, TrackerStarts(r)
  PROVE  Inv'
<1>1. TypeOK'
  BY DEF Inv, TypeOK, TrackerStarts, Set, To, sharedVars
<1>2. Only(r)
  BY DEF Inv, TypeOK, TrackerStarts, Set, Only, At
<1>3. /\ tracker[r].pc = "start" /\ tracker'[r] = To("recv", Nothing)
      /\ UNCHANGED <<up, reader, chan1, chan2, emitter, output, client, got>>
  BY DEF Inv, TypeOK, TrackerStarts, Set
<1>4. r \in Streaming /\ StreamInv(r)
  BY <1>3, Tasks
<1>5. StreamInv(r)'
  <2>1. StreamInv(r)
    BY <1>4
  <2>2. Behind(r)' = Behind(r)
    <3>1. tracker'[r].pc # "send" /\ tracker[r].pc # "send"
      BY <1>3 DEF To
    <3> QED BY <1>3, <3>1, Parts DEF Behind
  <2>3. Delivered(r)' /\ OnTheWay(r)'
    BY <1>3, <2>1, <2>2, Stays
  <2>4. Places(r)'
    BY <1>3, <2>1 DEF StreamInv, Places, Off, To
  <2> QED BY <2>3, <2>4 DEF StreamInv
<1> QED BY <1>1, <1>2, <1>4, <1>5, StepOfOne

LEMMA TrackerRecvsStep ==
  ASSUME Inv, NEW r \in Reqs, TrackerRecvs(r)
  PROVE  Inv'
<1>1. /\ tracker[r].pc = "recv" /\ chan1[r] # <<>>
      /\ tracker'[r] = To("send", Head(chan1[r])) /\ chan1'[r] = Tail(chan1[r])
      /\ UNCHANGED <<up, reader, chan2, emitter, output, client, got>>
  BY DEF Inv, TypeOK, TrackerRecvs, Set
<1>2. Only(r)
  BY DEF Inv, TypeOK, TrackerRecvs, Set, Only, At
<1>3. r \in Streaming /\ StreamInv(r) /\ TypeOK
  BY <1>1, Tasks DEF Inv
<1>4. /\ InEmitter(r) \in Events /\ chan2[r] \in Events /\ chan1[r] \in Events /\ Held(r) \in Events
  BY <1>3, BehindTypes DEF StreamInv
<1>5. /\ Head(chan1[r]) \in GenerateEvent /\ Tail(chan1[r]) \in Events
      /\ <<Head(chan1[r])>> \o Tail(chan1[r]) = chan1[r] /\ Len(Tail(chan1[r])) = Len(chan1[r]) - 1
      /\ <<Head(chan1[r])>> \in Events
  BY <1>1, <1>4, EventTypes, Moves
<1>6. TypeOK'
  <2>1. chan1'[r] \in Seq(GenerateEvent) /\ Len(chan1'[r]) <= Cap
    BY <1>1, <1>3, <1>4, <1>5, PipelineAssumption DEF TypeOK, Events
  <2>2. tracker'[r] \in [pc : {"off", "start", "recv", "send", "end", "closed"}, ev : GenerateEvent \cup {Nothing}]
    BY <1>1, <1>5 DEF To
  <2>3. requests' \in Nat /\ errors' \in Nat
    BY <1>3 DEF TypeOK, TrackerRecvs
  <2> QED BY <1>3, <2>1, <2>2, <2>3 DEF TypeOK, TrackerRecvs, Set
<1>7. Behind(r)' = Behind(r)
  <2>1. Behind(r) = InEmitter(r) \o (chan2[r] \o (<<>> \o (chan1[r] \o Held(r))))
    BY <1>1 DEF Behind, InTracker
  <2>2. Behind(r)' = InEmitter(r) \o (chan2[r] \o (<<Head(chan1[r])>> \o (Tail(chan1[r]) \o Held(r))))
    <3>1. tracker'[r].pc = "send" /\ tracker'[r].ev = Head(chan1[r])
      BY <1>1 DEF To
    <3> QED BY <1>1, <3>1, Parts DEF Behind
  <2>3. (<<Head(chan1[r])>> \o Tail(chan1[r])) \o Held(r) = <<Head(chan1[r])>> \o (Tail(chan1[r]) \o Held(r))
    <3>1. <<Head(chan1[r])>> \in Events /\ Tail(chan1[r]) \in Events /\ Held(r) \in Events
      BY <1>4, <1>5
    <3> QED BY ONLY <3>1, Assoc
  <2>4. <<>> \o (chan1[r] \o Held(r)) = chan1[r] \o Held(r)
    <3>1. chan1[r] \o Held(r) \in Events
      BY <1>4, Joins
    <3> QED BY <3>1, Joins
  <2> QED BY <1>5, <2>1, <2>2, <2>3, <2>4
<1>8. StreamInv(r)'
  <2>1. emitter[r].pc # "closed" \/ emitter'[r].pc = "closed"
    BY <1>1
  <2>2. Delivered(r)' /\ OnTheWay(r)'
    BY <1>1, <1>3, <1>7, <2>1, Stays
  <2>3. Places(r)'
    BY <1>1, <1>3, <1>5 DEF StreamInv, Places, Off, To
  <2> QED BY <2>2, <2>3 DEF StreamInv
<1> QED BY <1>2, <1>3, <1>6, <1>8, StepOfOne

LEMMA TrackerSendsStep ==
  ASSUME Inv, NEW r \in Reqs, TrackerSends(r)
  PROVE  Inv'
<1>1. /\ tracker[r].pc = "send" /\ emitter[r].pc # "closed" /\ Len(chan2[r]) < Cap
      /\ tracker'[r] = To("recv", Nothing) /\ chan2'[r] = Append(chan2[r], tracker[r].ev)
      /\ UNCHANGED <<up, reader, chan1, emitter, output, client, got>>
  BY DEF Inv, TypeOK, TrackerSends, Set
<1>2. Only(r)
  BY DEF Inv, TypeOK, TrackerSends, Set, Only, At
<1>3. r \in Streaming /\ StreamInv(r) /\ TypeOK
  BY <1>1, Tasks DEF Inv
<1>4. /\ InEmitter(r) \in Events /\ chan2[r] \in Events /\ chan1[r] \in Events /\ Held(r) \in Events
      /\ tracker[r].ev \in GenerateEvent
  BY <1>1, <1>3, BehindTypes DEF StreamInv, Places
<1>5. chan1[r] \o Held(r) \in Events
  BY <1>4, Joins
<1>6. /\ Append(chan2[r], tracker[r].ev) \in Events
      /\ Len(Append(chan2[r], tracker[r].ev)) = Len(chan2[r]) + 1
      /\ Append(chan2[r], tracker[r].ev) \o (chan1[r] \o Held(r))
           = chan2[r] \o (<<tracker[r].ev>> \o (chan1[r] \o Held(r)))
  <2>1. \A t \in Events : Append(chan2[r], tracker[r].ev) \o t = chan2[r] \o (<<tracker[r].ev>> \o t)
    <3> DEFINE x == tracker[r].ev
               s == chan2[r]
    <3>1. x \in GenerateEvent /\ s \in Events
      BY <1>4
    <3> HIDE DEF x, s
    <3>2. \A t \in Events : Append(s, x) \o t = s \o (<<x>> \o t)
      BY <3>1, Handed
    <3> QED BY <3>2 DEF x, s
  <2>2. /\ Append(chan2[r], tracker[r].ev) \in Events
        /\ Len(Append(chan2[r], tracker[r].ev)) = Len(chan2[r]) + 1
    BY <1>4, Moves
  <2> QED BY <1>5, <2>1, <2>2
<1>7. TypeOK'
  <2>1. chan2'[r] \in Seq(GenerateEvent) /\ Len(chan2'[r]) <= Cap
    <3>1. Len(chan2[r]) \in Nat /\ Cap \in Nat
      BY <1>4, PipelineAssumption DEF Events
    <3> QED BY <1>1, <1>6, <3>1 DEF Events
  <2>2. tracker'[r] \in [pc : {"off", "start", "recv", "send", "end", "closed"}, ev : GenerateEvent \cup {Nothing}]
    BY <1>1 DEF To
  <2> QED BY <1>3, <2>1, <2>2 DEF TypeOK, TrackerSends, Set, sharedVars
<1>8. Behind(r)' = Behind(r)
  <2>1. Behind(r) = InEmitter(r) \o (chan2[r] \o (<<tracker[r].ev>> \o (chan1[r] \o Held(r))))
    BY <1>1 DEF Behind, InTracker
  <2>2. Behind(r)' = InEmitter(r) \o (Append(chan2[r], tracker[r].ev) \o (<<>> \o (chan1[r] \o Held(r))))
    <3>1. tracker'[r].pc # "send"
      BY <1>1 DEF To
    <3> QED BY <1>1, <3>1, Parts DEF Behind
  <2>3. <<>> \o (chan1[r] \o Held(r)) = chan1[r] \o Held(r)
    BY <1>5, Joins
  <2> QED BY <1>6, <2>1, <2>2, <2>3
<1>9. StreamInv(r)'
  <2>1. Delivered(r)' /\ OnTheWay(r)'
    BY <1>1, <1>3, <1>8, Stays
  <2>2. Places(r)'
    BY <1>1, <1>3 DEF StreamInv, Places, Off, To
  <2> QED BY <2>1, <2>2 DEF StreamInv
<1> QED BY <1>2, <1>3, <1>7, <1>9, StepOfOne

LEMMA TrackerStopsStep ==
  ASSUME Inv, NEW r \in Reqs, TrackerStops(r)
  PROVE  Inv'
<1>1. TypeOK'
  BY DEF Inv, TypeOK, TrackerStops, Set, To, sharedVars
<1>2. Only(r)
  BY DEF Inv, TypeOK, TrackerStops, Set, Only, At
<1>3. /\ \/ tracker[r].pc = "recv" /\ chan1[r] = <<>> /\ reader[r] = "closed"
         \/ tracker[r].pc = "send" /\ emitter[r].pc = "closed"
      /\ tracker'[r] = To("end", Nothing)
      /\ UNCHANGED <<up, reader, chan1, chan2, emitter, output, client, got>>
  BY DEF Inv, TypeOK, TrackerStops, Set
<1>4. r \in Streaming /\ StreamInv(r)
  BY <1>3, Tasks
<1>5. StreamInv(r)'
  <2>1. \/ emitter'[r].pc = "closed"
        \/ emitter[r].pc # "closed" /\ Behind(r)' = Behind(r)
    <3>1. tracker'[r].pc # "send"
      BY <1>3 DEF To
    <3>2. CASE emitter[r].pc # "closed"
      BY <1>3, <3>1, <3>2, Parts DEF Behind
    <3>3. CASE emitter[r].pc = "closed"
      BY <1>3, <3>3
    <3> QED BY <3>2, <3>3
  <2>2. Delivered(r)' /\ OnTheWay(r)'
    BY <1>3, <1>4, <2>1, Stays
  <2>3. Places(r)'
    BY <1>3, <1>4 DEF StreamInv, Places, Off, To
  <2> QED BY <2>2, <2>3 DEF StreamInv
<1> QED BY <1>1, <1>2, <1>4, <1>5, StepOfOne

LEMMA TrackerEndsStep ==
  ASSUME Inv, NEW r \in Reqs, TrackerEnds(r)
  PROVE  Inv'
<1>1. /\ tracker[r].pc = "end" /\ tracker'[r] = To("closed", Nothing) /\ chan1'[r] = <<>>
      /\ UNCHANGED <<up, reader, chan2, emitter, output, client, got>>
  BY DEF Inv, TypeOK, TrackerEnds, Set
<1>2. Only(r)
  BY DEF Inv, TypeOK, TrackerEnds, Set, Only, At
<1>3. TypeOK'
  <2>1. <<>> \in Seq(GenerateEvent) /\ Len(<<>>) <= Cap
    BY PipelineAssumption
  <2> QED BY <2>1 DEF Inv, TypeOK, TrackerEnds, Set, To
<1>4. r \in Streaming /\ StreamInv(r)
  BY <1>1, Tasks
<1>5. StreamInv(r)'
  <2>1. \/ emitter'[r].pc = "closed"
        \/ emitter[r].pc # "closed" /\ Behind(r)' = Behind(r)
    <3>1. tracker'[r].pc # "send" /\ tracker[r].pc # "send"
      BY <1>1 DEF To
    <3>2. CASE emitter[r].pc # "closed"
      <4>1. chan1[r] = <<>>
        BY <1>1, <1>4, <3>2 DEF StreamInv, Places
      <4> QED BY <1>1, <3>1, <3>2, <4>1, Parts DEF Behind
    <3>3. CASE emitter[r].pc = "closed"
      BY <1>1, <3>3
    <3> QED BY <3>2, <3>3
  <2>2. Delivered(r)' /\ OnTheWay(r)'
    BY <1>1, <1>4, <2>1, Stays
  <2>3. Places(r)'
    BY <1>1, <1>4 DEF StreamInv, Places, Off, To
  <2> QED BY <2>2, <2>3 DEF StreamInv
<1> QED BY <1>2, <1>3, <1>4, <1>5, StepOfOne
-----------------------------------------------------------------------------
(* The emitter.                                                            *)

LEMMA EmitterRecvsStep ==
  ASSUME Inv, NEW r \in Reqs, EmitterRecvs(r)
  PROVE  Inv'
<1> DEFINE ev == Head(chan2[r])
           rest == InTracker(r) \o (chan1[r] \o Held(r))
<1>1. /\ emitter[r].pc = "recv" /\ chan2[r] # <<>>
      /\ UNCHANGED <<up, reader, chan1, tracker, output, client, got>>
      /\ \/ ev = Error /\ emitter'[r] = To("closed", Nothing) /\ chan2'[r] = <<>>
         \/ /\ ev # Error /\ emitter'[r] = To(IF ev = Done THEN "log" ELSE "emit", ev)
            /\ chan2'[r] = Tail(chan2[r])
  BY DEF Inv, TypeOK, EmitterRecvs, Set
<1>2. Only(r)
  BY DEF Inv, TypeOK, EmitterRecvs, Set, Only, At
<1>3. r \in Streaming /\ StreamInv(r) /\ TypeOK
  BY <1>1, Tasks DEF Inv
<1>4. /\ chan2[r] \in Events /\ InTracker(r) \in Events /\ chan1[r] \in Events /\ Held(r) \in Events
  BY <1>3, BehindTypes DEF StreamInv
<1>5. /\ ev \in GenerateEvent /\ Tail(chan2[r]) \in Events /\ <<ev>> \o Tail(chan2[r]) = chan2[r]
      /\ Len(Tail(chan2[r])) = Len(chan2[r]) - 1 /\ <<ev>> \in Events
  BY <1>1, <1>4, EventTypes, Moves
<1>6. TypeOK'
  <2>1. chan2'[r] \in Seq(GenerateEvent) /\ Len(chan2'[r]) <= Cap
    <3>1. <<>> \in Seq(GenerateEvent) /\ Len(<<>>) <= Cap
      BY PipelineAssumption
    <3>2. Len(chan2[r]) \in Nat /\ Len(chan2[r]) <= Cap /\ Cap \in Nat
      BY <1>3, <1>4, PipelineAssumption DEF TypeOK, Events
    <3>3. CASE chan2'[r] = <<>>
      BY <3>1, <3>3
    <3>4. CASE chan2'[r] = Tail(chan2[r])
      <4>1. Len(chan2'[r]) = Len(chan2[r]) - 1 /\ chan2'[r] \in Seq(GenerateEvent)
        BY <1>5, <3>4 DEF Events
      <4> QED BY <3>2, <4>1
    <3> QED BY <1>1, <3>3, <3>4
  <2>2. emitter'[r] \in [pc : EmitterPcs,
                         ev : GenerateEvent \cup {Nothing}]
    BY <1>1, <1>5 DEF To
  <2>3. /\ chan2' \in [Reqs -> Seq(GenerateEvent)] /\ \A q \in Reqs : Len(chan2'[q]) <= Cap
        /\ emitter' \in [Reqs -> [pc : EmitterPcs,
                                  ev : GenerateEvent \cup {Nothing}]]
    <3>1. /\ \E s : chan2' = [chan2 EXCEPT ![r] = s]
          /\ \E e : emitter' = [emitter EXCEPT ![r] = e]
      BY DEF EmitterRecvs, Set
    <3> QED BY <1>3, <2>1, <2>2, <3>1 DEF TypeOK
  <2> QED BY <1>1, <1>3, <2>3 DEF TypeOK, EmitterRecvs, sharedVars
<1>7. ASSUME ev # Error PROVE Behind(r)' = Behind(r)
  <2>1. rest \in Events
    <3>1. chan1[r] \o Held(r) \in Events
      BY <1>4, Joins
    <3> QED BY <1>4, <3>1, Joins
  <2>2. Behind(r) = <<>> \o (chan2[r] \o rest)
    BY <1>1 DEF Behind, InEmitter
  <2>3. Behind(r)' = <<ev>> \o (Tail(chan2[r]) \o rest)
    <3>1. InEmitter(r)' = <<ev>>
      BY <1>1, <1>7 DEF InEmitter, To
    <3>2. rest' = rest
      BY <1>1 DEF InTracker, Held, Holds
    <3>3. chan2'[r] = Tail(chan2[r])
      BY <1>1, <1>7
    <3> QED BY <3>1, <3>2, <3>3 DEF Behind
  <2> HIDE DEF rest
  <2>4. (<<ev>> \o Tail(chan2[r])) \o rest = <<ev>> \o (Tail(chan2[r]) \o rest)
    BY <1>5, <2>1, Assoc
  <2>5. <<>> \o (chan2[r] \o rest) = chan2[r] \o rest
    <3>1. chan2[r] \o rest \in Events
      BY <1>4, <2>1, Joins
    <3> QED BY <3>1, Joins
  <2> QED BY <1>5, <2>2, <2>3, <2>4, <2>5
<1>8. StreamInv(r)'
  <2>1. \/ emitter'[r].pc = "closed"
        \/ emitter[r].pc # "closed" /\ Behind(r)' = Behind(r)
    BY <1>1, <1>7 DEF To
  <2>2. Delivered(r)' /\ OnTheWay(r)'
    BY <1>1, <1>3, <2>1, Stays
  <2>3. Places(r)'
    <3>1. \/ emitter'[r].pc = "closed"
          \/ emitter'[r].pc = "emit" /\ emitter'[r].ev \in GenerateEvent \ {Error}
          \/ emitter'[r].pc = "log" /\ emitter'[r].ev = Done
      BY <1>1, <1>5 DEF To
    <3>2. client[r] \notin {"idle", "waiting"}
      BY <1>1, <1>3 DEF StreamInv, Places, Off
    <3> QED BY <1>1, <1>3, <3>1, <3>2 DEF StreamInv, Places
  <2> QED BY <2>2, <2>3 DEF StreamInv
<1> QED BY <1>2, <1>3, <1>6, <1>8, StepOfOne

\* The emitter hands what it holds to the client, if the client is there.
LEMMA Emits ==
  ASSUME Inv, NEW r \in Streaming, NEW x \in GenerateEvent, x # Error,
         emitter[r].pc \in {"emit", "final"}, emitter[r].ev = x, Push(r, x),
         UNCHANGED <<up, reader, chan1, tracker, client, got>>,
         \/ emitter'[r].pc = "closed"
         \/ emitter'[r].pc = "recv" /\ UNCHANGED chan2
  PROVE  Delivered(r)' /\ OnTheWay(r)'
<1> DEFINE rest == chan2[r] \o (InTracker(r) \o (chan1[r] \o Held(r)))
<1>1. r \in Reqs /\ TypeOK /\ StreamInv(r)
  BY PipelineAssumption DEF Inv
<1>2. Story(r)' = Story(r)
  BY DEF Story
<1>3. CASE client[r] # "reading"
  <2>1. output' = output
    BY <1>3 DEF Push, There
  <2>2. Before(r)' = Before(r)
    BY <2>1 DEF Before
  <2>3. Delivered(r)'
    BY <1>1, <1>2, <2>1, <2>2 DEF StreamInv, Delivered
  <2> QED BY <1>3, <2>3 DEF OnTheWay
<1>4. CASE client[r] = "reading"
  <2>1. /\ got[r] \in Events /\ output[r] \in Events /\ Before(r) \in Events
        /\ got[r] \o output[r] = Before(r) /\ <<x>> \in Events
    <3>1. <<x>> \in Events
      BY DEF Events
    <3> QED BY <1>1, <3>1, BeforeTypes DEF Before
  <2>2. rest \in Events
    <3>1. chan2[r] \in Events /\ InTracker(r) \in Events /\ chan1[r] \in Events /\ Held(r) \in Events
      BY <1>1, BehindTypes DEF StreamInv
    <3>2. chan1[r] \o Held(r) \in Events
      BY <3>1, Joins
    <3>3. InTracker(r) \o (chan1[r] \o Held(r)) \in Events
      BY <3>1, <3>2, Joins
    <3> QED BY <3>1, <3>3, Joins
  <2>3. Before(r) \o (<<x>> \o rest) = Story(r)
    BY <1>1, <1>4 DEF StreamInv, OnTheWay, Behind, InEmitter
  <2>4. emitter'[r].pc # "closed" => Behind(r)' = <<>> \o rest
    BY DEF Behind, InEmitter, InTracker, Held, Holds
  <2> HIDE DEF rest
  <2>5. output'[r] = Append(output[r], x)
    BY <1>1, <1>4 DEF TypeOK, Push, There, Set
  <2>6. output'[r] = output[r] \o <<x>> /\ output'[r] \in Events
    <3> DEFINE o == output[r]
    <3>1. o \in Events
      BY <2>1
    <3> HIDE DEF o
    <3>2. Append(o, x) = o \o <<x>> /\ Append(o, x) \in Events
      BY <3>1, Moves
    <3> QED BY <2>5, <3>2 DEF o
  <2>7. Before(r)' = Before(r) \o <<x>>
    <3> DEFINE y == <<x>>
    <3> HIDE DEF y
    <3>1. (got[r] \o output[r]) \o y = got[r] \o (output[r] \o y)
      <4>1. got[r] \in Events /\ output[r] \in Events /\ y \in Events
        BY <2>1 DEF y
      <4> QED BY ONLY <4>1, Assoc
    <3> QED BY <2>1, <2>6, <3>1 DEF Before, y
  <2>8. Before(r)' \in Events /\ Before(r)' \o rest = Story(r)
    <3> DEFINE y == <<x>>
               b == Before(r)
    <3>1. y \in Events /\ b \in Events
      BY <2>1
    <3> HIDE DEF y, b
    <3>2. (b \o y) \o rest = b \o (y \o rest) /\ b \o y \in Events
      BY ONLY <2>2, <3>1, Assoc, Joins
    <3> QED BY <2>3, <2>7, <3>2 DEF y, b
  <2>9. Begins(Before(r)', Story(r))
    BY <2>2, <2>8, Beginnings
  <2>10. \A i \in 1 .. Len(Before(r)') : Before(r)'[i] # Error
    <3> DEFINE b == Before(r)
    <3>0. b \in Events
      BY <2>1
    <3> HIDE DEF b
    <3>1. Before(r)' = Append(b, x)
      BY <2>7, <3>0, Moves DEF b
    <3>2. /\ Len(Append(b, x)) = Len(b) + 1 /\ Len(b) \in Nat
          /\ \A i \in 1 .. Len(b) : Append(b, x)[i] = b[i]
          /\ Append(b, x)[Len(b) + 1] = x
      <4>1. Len(b) \in Nat
        BY <3>0 DEF Events
      <4> QED BY <3>0, <4>1, Moves
    <3>3. \A i \in 1 .. Len(b) : b[i] # Error
      BY <1>1 DEF b, StreamInv, Delivered
    <3> QED BY <3>1, <3>2, <3>3
  <2>11. Delivered(r)'
    BY <1>2, <2>1, <2>6, <2>9, <2>10 DEF Delivered
  <2>12. OnTheWay(r)'
    BY <1>2, <2>2, <2>4, <2>8, Joins DEF OnTheWay
  <2> QED BY <2>11, <2>12
<1> QED BY <1>3, <1>4
LEMMA PushTypes ==
  ASSUME TypeOK, NEW r \in Reqs, NEW x \in GenerateEvent, Push(r, x)
  PROVE  output' \in [Reqs -> Seq(GenerateEvent)] /\ \A q \in Reqs \ {r} : output'[q] = output[q]
<1> DEFINE o == output[r]
<1>1. o \in Seq(GenerateEvent)
  BY DEF TypeOK
<1> HIDE DEF o
<1> DEFINE a == Append(o, x)
<1>2. a \in Seq(GenerateEvent)
  BY <1>1, Moves DEF Events
<1>3. output' = output \/ output' = [output EXCEPT ![r] = a]
  BY DEF Push, Set, o
<1> HIDE DEF a
<1>4. output \in [Reqs -> Seq(GenerateEvent)]
  BY DEF TypeOK
<1> QED BY <1>2, <1>3, <1>4

LEMMA EmitterEmitsStep ==
  ASSUME Inv, NEW r \in Reqs, EmitterEmits(r)
  PROVE  Inv'
<1>1. /\ emitter[r].pc = "emit" /\ emitter'[r] = To("recv", Nothing) /\ Push(r, emitter[r].ev)
      /\ UNCHANGED <<up, reader, chan1, tracker, chan2, client, got>>
  BY DEF Inv, TypeOK, EmitterEmits, Set
<1>2. r \in Streaming /\ StreamInv(r) /\ TypeOK
  BY <1>1, Tasks DEF Inv
<1>3. emitter[r].ev \in GenerateEvent /\ emitter[r].ev # Error
  BY <1>1, <1>2 DEF StreamInv, Places
<1>4. output' \in [Reqs -> Seq(GenerateEvent)] /\ \A q \in Reqs \ {r} : output'[q] = output[q]
  BY <1>1, <1>2, <1>3, PushTypes
<1>5. TypeOK'
  BY <1>2, <1>4 DEF TypeOK, EmitterEmits, Set, To, sharedVars
<1>6. Only(r)
  BY <1>2, <1>4 DEF TypeOK, EmitterEmits, Set, Only, At
<1>7. Delivered(r)' /\ OnTheWay(r)'
  <2>1. emitter'[r].pc = "recv"
    BY <1>1 DEF To
  <2> QED BY <1>1, <1>2, <1>3, <2>1, Emits
<1>8. Places(r)'
  BY <1>1, <1>2 DEF StreamInv, Places, Off, To
<1> QED BY <1>2, <1>5, <1>6, <1>7, <1>8, StepOfOne DEF StreamInv

LEMMA EmitterStopsStep ==
  ASSUME Inv, NEW r \in Reqs, EmitterStops(r)
  PROVE  Inv'
<1>1. /\ emitter[r].pc = "emit" /\ emitter'[r] = To("closed", Nothing) /\ chan2'[r] = <<>>
      /\ UNCHANGED <<up, reader, chan1, tracker, output, client, got>>
  BY DEF Inv, TypeOK, EmitterStops, Set
<1>2. r \in Streaming /\ StreamInv(r) /\ TypeOK
  BY <1>1, Tasks DEF Inv
<1>3. <<>> \in Seq(GenerateEvent) /\ Len(<<>>) <= Cap
  BY PipelineAssumption
<1>4. TypeOK'
  BY <1>2, <1>3 DEF TypeOK, EmitterStops, Set, To, sharedVars
<1>5. Only(r)
  BY <1>2 DEF TypeOK, EmitterStops, Set, Only, At
<1>6. emitter'[r].pc = "closed"
  BY <1>1 DEF To
<1>7. Delivered(r)' /\ OnTheWay(r)'
  BY <1>1, <1>2, <1>6, Stays
<1>8. Places(r)'
  BY <1>1, <1>2, <1>6 DEF StreamInv, Places, Off
<1> QED BY <1>2, <1>4, <1>5, <1>7, <1>8, StepOfOne DEF StreamInv

LEMMA EmitterLogsStep ==
  ASSUME Inv, NEW r \in Reqs, EmitterLogs(r)
  PROVE  Inv'
<1>1. /\ emitter[r].pc = "log" /\ emitter'[r] = To("final", Done)
      /\ UNCHANGED <<up, reader, chan1, tracker, chan2, output, client, got>>
  BY DEF Inv, TypeOK, EmitterLogs, Set
<1>2. r \in Streaming /\ StreamInv(r) /\ TypeOK
  BY <1>1, Tasks DEF Inv
<1>3. TypeOK'
  BY <1>2, EventTypes DEF TypeOK, EmitterLogs, Set, To
<1>4. Only(r)
  BY <1>2 DEF TypeOK, EmitterLogs, Set, Only, At
<1>5. Behind(r)' = Behind(r)
  <2>1. emitter[r].ev = Done /\ emitter'[r].pc = "final" /\ emitter'[r].ev = Done
    BY <1>1, <1>2 DEF StreamInv, Places, To
  <2>2. InEmitter(r)' = InEmitter(r)
    BY <1>1, <2>1 DEF InEmitter
  <2>3. InTracker(r)' = InTracker(r)
    BY <1>1 DEF InTracker
  <2> QED BY <1>1, <2>2, <2>3, Parts DEF Behind
<1>6. Delivered(r)' /\ OnTheWay(r)'
  BY <1>1, <1>2, <1>5, Stays
<1>7. Places(r)'
  BY <1>1, <1>2 DEF StreamInv, Places, Off, To
<1> QED BY <1>2, <1>3, <1>4, <1>6, <1>7, StepOfOne DEF StreamInv

LEMMA EmitterFinishesStep ==
  ASSUME Inv, NEW r \in Reqs, EmitterFinishes(r)
  PROVE  Inv'
<1>1. /\ emitter[r].pc = "final" /\ emitter'[r] = To("closed", Nothing) /\ Push(r, Done) /\ chan2'[r] = <<>>
      /\ UNCHANGED <<up, reader, chan1, tracker, client, got>>
  BY DEF Inv, TypeOK, EmitterFinishes, Set
<1>2. r \in Streaming /\ StreamInv(r) /\ TypeOK
  BY <1>1, Tasks DEF Inv
<1>3. emitter[r].ev = Done /\ Done \in GenerateEvent /\ Done # Error
  BY <1>1, <1>2, EventTypes DEF StreamInv, Places
<1>4. output' \in [Reqs -> Seq(GenerateEvent)] /\ \A q \in Reqs \ {r} : output'[q] = output[q]
  BY <1>1, <1>2, <1>3, PushTypes
<1>5. <<>> \in Seq(GenerateEvent) /\ Len(<<>>) <= Cap
  BY PipelineAssumption
<1>6. TypeOK'
  BY <1>2, <1>4, <1>5 DEF TypeOK, EmitterFinishes, Set, To, sharedVars
<1>7. Only(r)
  BY <1>2, <1>4 DEF TypeOK, EmitterFinishes, Set, Only, At
<1>8. emitter'[r].pc = "closed"
  BY <1>1 DEF To
<1>9. Delivered(r)' /\ OnTheWay(r)'
  BY <1>1, <1>2, <1>3, <1>8, Emits
<1>10. Places(r)'
  BY <1>1, <1>2, <1>8 DEF StreamInv, Places, Off
<1> QED BY <1>2, <1>6, <1>7, <1>9, <1>10, StepOfOne DEF StreamInv

-----------------------------------------------------------------------------
(* The client.                                                             *)

LEMMA ClientReadsStep ==
  ASSUME Inv, NEW r \in Reqs, ClientReads(r)
  PROVE  Inv'
<1> DEFINE o == output[r]
           g == got[r]
<1>1. /\ client[r] = "reading" /\ o # <<>> /\ got'[r] = Append(g, Head(o)) /\ output'[r] = Tail(o)
      /\ UNCHANGED <<up, reader, chan1, tracker, chan2, emitter, client>>
  BY DEF Inv, TypeOK, ClientReads, Set
<1>2. o \in Events /\ g \in Events
  BY BeforeTypes DEF Inv
<1>3. TypeOK /\ Only(r)
  BY DEF Inv, TypeOK, ClientReads, Set, Only, At
<1>4. got' = [got EXCEPT ![r] = Append(g, Head(o))] /\ output' = [output EXCEPT ![r] = Tail(o)]
  BY DEF ClientReads, Set
<1>5. r \in Streaming => StreamInv(r)
  BY DEF Inv
<1>6. r \notin Streaming => WholeInv(r)'
  BY <1>1 DEF Inv, WholeInv
<1>7. Before(r) = g \o o /\ Before(r)' = got'[r] \o output'[r]
  BY DEF Before
<1>8. UNCHANGED Story(r) /\ UNCHANGED Behind(r)
  BY <1>1 DEF Story, Behind, InEmitter, InTracker, Held, Holds
<1>9. Places(r) /\ r \in Streaming => Places(r)'
  BY <1>1 DEF Places
<1>10. protocol' = protocol /\ UNCHANGED sharedVars
  BY DEF ClientReads
<1> HIDE DEF o, g
<1>11. /\ Head(o) \in GenerateEvent /\ Tail(o) \in Events /\ <<Head(o)>> \o Tail(o) = o
  BY <1>1, <1>2, EventTypes, Moves
<1>12. Append(g, Head(o)) \in Events /\ Append(g, Head(o)) \o Tail(o) = g \o (<<Head(o)>> \o Tail(o))
  <2> DEFINE h == Head(o)
             l == Tail(o)
  <2>1. h \in GenerateEvent /\ l \in Events
    BY <1>11
  <2> HIDE DEF h, l
  <2>2. Append(g, h) \in Events
    BY <1>2, <2>1, Moves
  <2>3. Append(g, h) \o l = g \o (<<h>> \o l)
    BY <1>2, <2>1, Handed
  <2> QED BY <2>2, <2>3 DEF h, l
<1>13. TypeOK'
  BY <1>1, <1>3, <1>4, <1>10, <1>11, <1>12 DEF TypeOK, sharedVars, Events
<1>14. UNCHANGED Before(r)
  BY <1>1, <1>7, <1>11, <1>12
<1>15. r \in Streaming => StreamInv(r)'
  BY <1>1, <1>5, <1>8, <1>9, <1>14 DEF StreamInv, Delivered, OnTheWay
<1> QED BY <1>3, <1>6, <1>13, <1>15, StepOfOne

LEMMA ClientSeesEndStep ==
  ASSUME Inv, NEW r \in Reqs, ClientSeesEnd(r)
  PROVE  Inv'
<1>1. TypeOK'
  BY DEF Inv, TypeOK, ClientSeesEnd, Set, sharedVars
<1>2. Only(r)
  BY DEF Inv, TypeOK, ClientSeesEnd, Set, Only, At
<1>3. /\ client[r] = "reading" /\ emitter[r].pc = "closed" /\ client'[r] = "over"
      /\ UNCHANGED <<up, reader, chan1, tracker, chan2, emitter, output, got>>
  BY DEF Inv, TypeOK, ClientSeesEnd, Set
<1>4. ASSUME r \in Streaming PROVE StreamInv(r)'
  <2>1. StreamInv(r)
    BY <1>4 DEF Inv
  <2>2. Delivered(r)' /\ OnTheWay(r)'
    <3>1. UNCHANGED Story(r) /\ UNCHANGED Before(r)
      BY <1>3 DEF Story, Before
    <3> QED BY <1>3, <2>1, <3>1 DEF StreamInv, Delivered, OnTheWay
  <2>3. Places(r)'
    BY <1>3, <2>1 DEF StreamInv, Places
  <2> QED BY <2>2, <2>3 DEF StreamInv
<1>5. r \notin Streaming => WholeInv(r)'
  BY <1>3 DEF Inv, WholeInv
<1> QED BY <1>1, <1>2, <1>4, <1>5, StepOfOne

LEMMA LeaveStep ==
  ASSUME Inv, NEW r \in Reqs, Leave(r)
  PROVE  Inv'
<1>1. TypeOK
  BY DEF Inv
<1>2. /\ client[r] \in {"waiting", "reading"} /\ client'[r] = "gone" /\ output'[r] = <<>>
      /\ reader'[r] = IF reader[r] = "request" THEN "closed" ELSE reader[r]
      /\ UNCHANGED <<up, chan1, tracker, chan2, emitter, got>>
  BY <1>1 DEF TypeOK, Leave, Set
<1>3. TypeOK'
  BY <1>1 DEF TypeOK, Leave, Set, To, sharedVars
<1>4. Only(r)
  BY <1>1 DEF TypeOK, Leave, Set, Only, At
<1>5. ASSUME r \in Streaming PROVE StreamInv(r)'
  <2> DEFINE g == got[r]
             o == output[r]
             t == Story(r)
  <2>1. StreamInv(r)
    BY <1>5 DEF Inv
  <2>2. g \in Events /\ o \in Events /\ t \in Events /\ Len(g) \in Nat /\ Len(o) \in Nat
    BY <1>1, BeforeTypes, StoryTypes DEF Events
  <2>3. Begins(g \o o, t) /\ \A i \in 1 .. Len(g \o o) : (g \o o)[i] # Error
    BY <2>1 DEF StreamInv, Delivered, Before
  <2>4. Before(r)' = g \o <<>> /\ Story(r)' = t
    BY <1>2 DEF Before, Story
  <2> HIDE DEF g, o, t
  <2>5. Begins(g, t)
    BY <2>2, <2>3, Beginnings
  <2>6. g \o <<>> = g /\ \A i \in 1 .. Len(g) : g[i] # Error
    BY <2>2, <2>3, Joins
  <2>7. Delivered(r)' /\ OnTheWay(r)'
    BY <1>2, <2>4, <2>5, <2>6 DEF Delivered, OnTheWay
  <2>8. Places(r)'
    BY <1>2, <2>1 DEF StreamInv, Places
  <2> QED BY <2>7, <2>8 DEF StreamInv
<1>6. ASSUME r \notin Streaming PROVE WholeInv(r)'
  BY <1>2, <1>6 DEF Inv, WholeInv, To
<1> QED BY <1>3, <1>4, <1>5, <1>6, StepOfOne

-----------------------------------------------------------------------------
(* A request that does not stream.                                         *)

LEMMA AskWholeStep ==
  ASSUME Inv, NEW r \in Reqs, AskWhole(r)
  PROVE  Inv'
<1>1. TypeOK'
  BY DEF Inv, TypeOK, AskWhole, Set, To
<1>2. Only(r)
  BY DEF Inv, TypeOK, AskWhole, Set, Only, At
<1>3. r \notin Streaming /\ WholeInv(r)'
  BY DEF Inv, TypeOK, AskWhole, Set, To, WholeInv
<1> QED BY <1>1, <1>2, <1>3, StepOfOne

\* The steps of a handler, and what each does to the counters and the log.
LEMMA WholeMoves ==
  ASSUME TypeOK, NEW r \in Reqs, WholeStep(r)
  PROVE  /\ UNCHANGED <<protocol, up, reader, chan1, tracker, chan2, output, got>>
         /\ client' = client \/ client' = [client EXCEPT ![r] = "over"]
         /\ \E pc \in EmitterPcs : emitter' = [emitter EXCEPT ![r] = To(pc, Nothing)]
         /\ \/ /\ emitter[r].pc = "body" /\ emitter'[r].pc = "count" /\ logged' = logged \cup {r}
               /\ UNCHANGED <<active, requests, errors>>
            \/ /\ emitter[r].pc = "count" /\ emitter'[r].pc = "record" /\ requests' = requests + 1
               /\ UNCHANGED <<active, errors, logged>>
            \/ /\ emitter[r].pc = "body" /\ emitter'[r].pc = "lower" /\ errors' \in {errors, errors + 1}
               /\ UNCHANGED <<active, requests, logged>>
            \/ /\ emitter[r].pc = "lower" /\ emitter'[r].pc = "closed" /\ active' = active - 1
               /\ UNCHANGED <<requests, errors, logged>>
            \/ /\ emitter[r].pc = "record" /\ emitter'[r].pc \in {"lower", "left"}
               /\ UNCHANGED sharedVars
            \/ /\ emitter[r].pc = "body" /\ emitter'[r].pc = "left"
               /\ UNCHANGED sharedVars
<1>1. ASSUME NEW a, NEW b \in EmitterPcs, Goes(r, a, b)
      PROVE  /\ UNCHANGED <<protocol, up, reader, chan1, tracker, chan2, output, got>>
             /\ emitter[r].pc = a /\ emitter'[r].pc = b
             /\ \E pc \in EmitterPcs : emitter' = [emitter EXCEPT ![r] = To(pc, Nothing)]
  BY <1>1 DEF TypeOK, Goes, Set, To
<1>2. Answer(r) => client' = client \/ client' = [client EXCEPT ![r] = "over"]
  BY DEF Answer, Set
<1>3. CASE WholeLogs(r)
  BY <1>3, <1>1 DEF WholeLogs
<1>4. CASE WholeCounts(r)
  BY <1>4, <1>1 DEF WholeCounts
<1>5. CASE WholeRecords(r)
  BY <1>5, <1>1 DEF WholeRecords
<1>6. CASE WholeError(r)
  BY <1>6, <1>1 DEF WholeError
<1>7. CASE WholeLowers(r)
  BY <1>7, <1>1, <1>2 DEF WholeLowers
<1>8. CASE WholeFails(r)
  BY <1>8, <1>1, <1>2 DEF WholeFails
<1>9. CASE WholeDropped(r)
  BY <1>9, <1>1 DEF WholeDropped
<1> QED BY <1>3, <1>4, <1>5, <1>6, <1>7, <1>8, <1>9 DEF WholeStep

LEMMA WholeStepStep ==
  ASSUME Inv, NEW r \in Reqs, WholeStep(r)
  PROVE  Inv'
<1>1. TypeOK
  BY DEF Inv
<1>2. /\ UNCHANGED <<protocol, up, reader, chan1, tracker, chan2, output, got>>
      /\ client' = client \/ client' = [client EXCEPT ![r] = "over"]
      /\ requests' \in Nat /\ errors' \in Nat /\ active' \in Int /\ logged' \subseteq Reqs
      /\ emitter[r].pc \in Raised /\ emitter'[r].pc \in Raised \cup {"closed"}
  <2>1. /\ requests \in Nat /\ errors \in Nat /\ active \in Int /\ logged \subseteq Reqs
        /\ requests' \in {requests, requests + 1} /\ errors' \in {errors, errors + 1}
        /\ active' \in {active, active - 1} /\ logged' \in {logged, logged \cup {r}}
    BY <1>1, WholeMoves DEF TypeOK, sharedVars
  <2>2. requests' \in Nat /\ errors' \in Nat /\ active' \in Int /\ logged' \subseteq Reqs
    BY <2>1
  <2> QED BY <1>1, <2>2, WholeMoves
<1>3. PICK pc \in EmitterPcs : emitter' = [emitter EXCEPT ![r] = To(pc, Nothing)]
  BY <1>1, WholeMoves
<1>4. TypeOK'
  BY <1>1, <1>2, <1>3 DEF TypeOK, To
<1>5. Only(r)
  BY <1>1, <1>2, <1>3 DEF TypeOK, Only, At
<1>6. r \notin Streaming
  BY <1>2 DEF Inv, StreamInv, Places
<1>7. WholeInv(r)'
  BY <1>2, <1>6 DEF Inv, WholeInv
<1> QED BY <1>4, <1>5, <1>6, <1>7, StepOfOne

-----------------------------------------------------------------------------
(* The invariant.                                                          *)

LEMMA InvInit == Init => Inv
<1> SUFFICES ASSUME Init PROVE Inv
  OBVIOUS
<1>1. <<>> \in Seq(GenerateEvent) /\ Len(<<>>) <= Cap /\ MaxTokens \in Nat
  BY PipelineAssumption
<1>2. TypeOK
  BY <1>1 DEF Init, TypeOK, Off
<1>3. ASSUME NEW r \in Streaming PROVE StreamInv(r)
  <2>1. r \in Reqs
    BY PipelineAssumption
  <2>2. /\ up[r] = [state |-> "none", read |-> 0] /\ reader[r] = "off" /\ client[r] = "idle"
        /\ tracker[r] = Off /\ emitter[r] = Off
        /\ chan1[r] = <<>> /\ chan2[r] = <<>> /\ output[r] = <<>> /\ got[r] = <<>>
    BY <2>1 DEF Init
  <2>3. Before(r) = <<>>
    BY <2>2 DEF Before
  <2>4. Story(r) \in Events
    BY <1>2, <2>1, StoryTypes
  <2>5. Delivered(r)
    BY <2>3, <2>4 DEF Delivered, Begins, Events
  <2>6. OnTheWay(r) /\ Places(r)
    BY <2>2 DEF OnTheWay, Places, Off
  <2> QED BY <2>5, <2>6 DEF StreamInv
<1>4. \A r \in Reqs \ Streaming : WholeInv(r)
  BY DEF Init, WholeInv, Off
<1> QED BY <1>2, <1>3, <1>4 DEF Inv

LEMMA InvNext == Inv /\ [Next]_vars => Inv'
<1> SUFFICES ASSUME Inv, [Next]_vars PROVE Inv'
  OBVIOUS
<1>1. CASE UNCHANGED vars
  <2>1. UNCHANGED <<streamVars, sharedVars, protocol>>
    BY <1>1 DEF vars
  <2>2. TypeOK'
    BY <2>1 DEF Inv, TypeOK, streamVars, sharedVars
  <2>3. \A q \in Reqs : UNCHANGED At(q)
    BY <2>1 DEF At, streamVars
  <2> QED BY <2>2, <2>3, Others, PipelineAssumption DEF Inv
<1>2. CASE Next
  <2>1. PICK r \in Reqs :
          \/ Ask(r) \/ AskWhole(r) \/ Leave(r)
          \/ ReaderStep(r) \/ TrackerStep(r) \/ EmitterStep(r) \/ ClientStep(r) \/ WholeStep(r)
    BY <1>2 DEF Next
  <2>2. CASE Ask(r) \/ AskWhole(r) \/ Leave(r)
    BY <2>2, AskStep, AskWholeStep, LeaveStep
  <2>3. CASE ReaderStep(r)
    BY <2>3, AnsweredStep, RefusedStep, ReadTokenStep, ReadEndStep, ReaderSendsStep, ReaderStopsStep
    DEF ReaderStep
  <2>4. CASE TrackerStep(r)
    BY <2>4, TrackerStartsStep, TrackerRecvsStep, TrackerSendsStep, TrackerStopsStep, TrackerEndsStep
    DEF TrackerStep
  <2>5. CASE EmitterStep(r)
    BY <2>5, EmitterRecvsStep, EmitterEmitsStep, EmitterStopsStep, EmitterLogsStep, EmitterFinishesStep
    DEF EmitterStep
  <2>6. CASE ClientStep(r)
    BY <2>6, ClientReadsStep, ClientSeesEndStep DEF ClientStep
  <2>7. CASE WholeStep(r)
    BY <2>7, WholeStepStep
  <2> QED BY <2>1, <2>2, <2>3, <2>4, <2>5, <2>6, <2>7
<1> QED BY <1>1, <1>2

\* Every variable keeps its type: no channel takes more than its capacity, and a
\* task holds an event only where the code has one at hand (proxy.rs).
THEOREM PipelineTypeCorrect == Spec => []TypeOK
<1>1. Inv => TypeOK
  BY DEF Inv
<1> QED BY <1>1, InvInit, InvNext, PTL DEF Spec

\* What begins the story and holds no error is what ClientSeesPrefix says.
LEMMA PrefixOfStory == Inv => ClientSeesPrefix
<1> SUFFICES ASSUME Inv, NEW r \in Streaming
             PROVE  \/ got[r] = Tokens(Len(got[r])) /\ Len(got[r]) <= up[r].read
                    \/ got[r] = Append(Tokens(up[r].read), Done) /\ up[r].state \in {"complete", "failed"}
  BY DEF ClientSeesPrefix
<1> DEFINE g == got[r]
           n == up[r].read
           t == Story(r)
<1>1. r \in Reqs /\ TypeOK /\ StreamInv(r)
  BY PipelineAssumption DEF Inv
<1>2. g \in Events /\ output[r] \in Events /\ t \in Events /\ n \in 0 .. MaxTokens
      /\ Tokens(n) \in Events /\ Len(Tokens(n)) = n /\ \A i \in 1 .. n : Tokens(n)[i] = Token(i)
  BY <1>1, BeforeTypes, StoryTypes
<1>3. Begins(g, t) /\ \A i \in 1 .. Len(g) : g[i] # Error
  <2>1. Begins(g \o output[r], t) /\ \A i \in 1 .. Len(g \o output[r]) : (g \o output[r])[i] # Error
    BY <1>1 DEF StreamInv, Delivered, Before
  <2> DEFINE o == output[r]
  <2>2. o \in Events /\ Len(o) \in Nat /\ Len(g) \in Nat
    BY <1>2 DEF Events
  <2>3. Begins(g \o o, t) /\ \A i \in 1 .. Len(g \o o) : (g \o o)[i] # Error
    BY <2>1
  <2>4. g \in Events /\ t \in Events
    BY <1>2
  <2> HIDE DEF g, t, o
  <2>5. Begins(g, t)
    BY <2>2, <2>3, <2>4, Beginnings
  <2>6. \A i \in 1 .. Len(g) : g[i] # Error
    BY <2>2, <2>3, <2>4, Joins
  <2> QED BY <2>5, <2>6
<1>4. \/ t = Tokens(n)
      \/ t = Append(Tokens(n), Done) /\ up[r].state \in {"complete", "failed"}
      \/ t = Append(Tokens(n), Error)
  BY DEF Story
<1> HIDE DEF g, n, t
<1>5. n \in Nat /\ MaxTokens \in Nat /\ Len(g) \in Nat
  BY <1>2, PipelineAssumption DEF Events
<1>6. \A x \in {Done, Error} :
        /\ Len(Append(Tokens(n), x)) = n + 1 /\ Append(Tokens(n), x)[n + 1] = x
        /\ \A i \in 1 .. n : Append(Tokens(n), x)[i] = Token(i)
        /\ Append(Tokens(n), x) \in Events
  <2>1. ASSUME NEW x \in GenerateEvent
        PROVE  /\ Len(Append(Tokens(n), x)) = n + 1 /\ Append(Tokens(n), x)[n + 1] = x
               /\ \A i \in 1 .. n : Append(Tokens(n), x)[i] = Tokens(n)[i]
               /\ Append(Tokens(n), x) \in Events
    <3> DEFINE s == Tokens(n)
    <3>1. s \in Events /\ Len(s) = n
      BY <1>2
    <3> HIDE DEF s
    <3>2. /\ Len(Append(s, x)) = Len(s) + 1 /\ Append(s, x)[Len(s) + 1] = x
          /\ \A i \in 1 .. Len(s) : Append(s, x)[i] = s[i]
          /\ Append(s, x) \in Events
      BY <3>1, Moves
    <3> QED BY <3>1, <3>2 DEF s
  <2> QED BY <1>2, <2>1, EventTypes
<1>7. CASE Len(g) <= n
  <2>1. \A i \in 1 .. Len(g) : g[i] = Token(i)
    <3>1. \A i \in 1 .. n : t[i] = Token(i)
      BY <1>2, <1>4, <1>6
    <3> QED BY <1>3, <1>5, <1>7, <3>1 DEF Begins
  <2>2. Len(g) \in 0 .. MaxTokens
    BY <1>2, <1>5, <1>7
  <2>3. /\ Tokens(Len(g)) \in Seq(GenerateEvent) /\ Len(Tokens(Len(g))) = Len(g)
        /\ \A i \in 1 .. Len(g) : Tokens(Len(g))[i] = Token(i)
    BY <1>5, <2>2, EventTypes DEF Tokens
  <2>4. g = Tokens(Len(g))
    BY <1>2, <2>1, <2>3, SeqEqual DEF Events
  <2> QED BY <1>7, <2>4 DEF g, n
<1>8. CASE Len(g) > n
  <2>1. Len(g) = n + 1 /\ t # Tokens(n) /\ Len(t) = n + 1
    BY <1>2, <1>3, <1>4, <1>5, <1>6, <1>8 DEF Begins
  <2>2. g[n + 1] = t[n + 1] /\ g[n + 1] # Error
    BY <1>3, <1>5, <2>1 DEF Begins
  <2>3. t = Append(Tokens(n), Done) /\ up[r].state \in {"complete", "failed"}
    BY <1>4, <1>6, <2>1, <2>2
  <2>4. g = t
    BY <1>2, <1>3, <2>1, SeqEqual DEF Begins, Events
  <2> QED BY <2>3, <2>4 DEF g, n
<1> QED BY <1>5, <1>7, <1>8

\* Whatever the capacity, the number of requests and the length of a response,
\* and wherever a task is when the client goes: a client reads a beginning of
\* what llama-server sent, and the closing frame only after all of it
\* (proxy.rs:93 and 200, openai.rs:324, anthropic.rs:424).
THEOREM StreamIsDelivered == Spec => []ClientSeesPrefix
BY InvInit, InvNext, PrefixOfStory, PTL DEF Spec
-----------------------------------------------------------------------------
(* The gauge.                                                              *)

Running(r) == tracker[r].pc \in {"recv", "send", "end"} \/ emitter[r].pc \in Raised

\* A handler that was not asked is off, and one is logged only behind the body.
Orderly(r) ==
  /\ client[r] = "idle" => emitter[r].pc = "off"
  /\ r \in logged => emitter[r].pc \notin {"off", "body"}

\* How a step of a request moves the gauge, and what it stands for.
Moved(r) ==
  \/ active' = active /\ (Running(r)' <=> Running(r))
  \/ active' = active + 1 /\ ~Running(r) /\ Running(r)'
  \/ active' = active - 1 /\ Running(r) /\ ~Running(r)'

LEMMA GaugeMoves ==
  ASSUME TypeOK, TypeOK', GaugeTracks, NEW r \in Reqs, Only(r), Moved(r)
  PROVE  GaugeTracks'
<1> DEFINE R  == {q \in Reqs : Running(q)}
           R1 == {q \in Reqs : Running(q)'}
<1>1. /\ R = {q \in Reqs : tracker[q].pc \in {"recv", "send", "end"} \/ emitter[q].pc \in Raised}
      /\ R1 = {q \in Reqs : tracker'[q].pc \in {"recv", "send", "end"} \/ emitter'[q].pc \in Raised}
  BY DEF Running
<1>2. \A q \in Reqs \ {r} : Running(q)' = Running(q)
  BY DEF Only, At, Running
<1>3. active \in Int /\ active' \in Int /\ active = Cardinality(R)
  BY <1>1 DEF TypeOK, GaugeTracks
<1>4. R \ {r} = R1 \ {r} /\ (Running(r) <=> r \in R) /\ (Running(r)' <=> r \in R1)
  <2>1. \A q \in Reqs : (q \in R <=> Running(q)) /\ (q \in R1 <=> Running(q)')
    OBVIOUS
  <2>2. R \subseteq Reqs /\ R1 \subseteq Reqs
    OBVIOUS
  <2> HIDE DEF R, R1
  <2> QED BY <1>2, <2>1, <2>2
<1>5. IsFiniteSet(R)
  BY FS_Subset, PipelineAssumption
<1> HIDE DEF R, R1
<1>6. Cardinality(R) \in Nat
  BY <1>5, FS_CardinalityType
<1>7. CASE active' = active /\ (Running(r)' <=> Running(r))
  <2>1. R1 = R
    BY <1>4, <1>7
  <2> QED BY <1>1, <1>3, <1>7, <2>1 DEF GaugeTracks
<1>8. CASE active' = active + 1 /\ ~Running(r) /\ Running(r)'
  <2>1. R1 = R \cup {r} /\ r \notin R
    BY <1>4, <1>8
  <2>2. Cardinality(R1) = Cardinality(R) + 1
    BY <1>5, <2>1, FS_AddElement
  <2> QED BY <1>1, <1>3, <1>8, <2>2 DEF GaugeTracks
<1>9. CASE active' = active - 1 /\ Running(r) /\ ~Running(r)'
  <2>1. R1 = R \ {r} /\ r \in R
    BY <1>4, <1>9
  <2>2. Cardinality(R1) = Cardinality(R) - 1
    BY <1>5, <2>1, FS_RemoveElement
  <2> QED BY <1>1, <1>3, <1>9, <2>2 DEF GaugeTracks
<1> QED BY <1>7, <1>8, <1>9 DEF Moved

LEMMA OnlyOne ==
  ASSUME TypeOK, NEW r \in Reqs,
         \/ Ask(r) \/ AskWhole(r) \/ Leave(r)
         \/ ReaderStep(r) \/ TrackerStep(r) \/ EmitterStep(r) \/ ClientStep(r) \/ WholeStep(r)
  PROVE  Only(r)
<1>1. CASE Ask(r) \/ AskWhole(r) \/ Leave(r)
  BY <1>1 DEF TypeOK, Ask, AskWhole, Leave, Set, Only, At
<1>2. CASE ReaderStep(r)
  <2>1. CASE ReadEnd(r)
    <3>1. PICK s \in {"complete", "failed"} : up' = [up EXCEPT ![r].state = s]
      BY <2>1 DEF ReadEnd
    <3> QED BY <2>1, <3>1 DEF TypeOK, ReadEnd, Set, Only, At
  <2>2. CASE Answered(r) \/ Refused(r) \/ ReadToken(r) \/ ReadError(r)
    BY <2>2 DEF TypeOK, Answered, Refused, ReadToken, ReadError, Set, Only, At
  <2>3. CASE ReaderSends(r) \/ ReaderStops(r)
    BY <2>3 DEF TypeOK, ReaderSends, ReaderStops, Set, Only, At
  <2> QED BY <1>2, <2>1, <2>2, <2>3 DEF ReaderStep
<1>3. CASE TrackerStep(r)
  BY <1>3 DEF TypeOK, TrackerStep, TrackerStarts, TrackerRecvs, TrackerSends, TrackerStops, TrackerEnds,
              Set, Only, At
<1>4. CASE EmitterStep(r)
  <2>1. CASE EmitterRecvs(r)
    BY <2>1 DEF TypeOK, EmitterRecvs, Set, Only, At
  <2>2. CASE EmitterEmits(r)
    BY <2>2 DEF TypeOK, EmitterEmits, Push, Set, Only, At
  <2>3. CASE EmitterFinishes(r)
    BY <2>3 DEF TypeOK, EmitterFinishes, Push, Set, Only, At
  <2>4. CASE EmitterStops(r) \/ EmitterLogs(r)
    BY <2>4 DEF TypeOK, EmitterStops, EmitterLogs, Set, Only, At
  <2> QED BY <1>4, <2>1, <2>2, <2>3, <2>4 DEF EmitterStep
<1>5. CASE ClientStep(r)
  BY <1>5 DEF TypeOK, ClientStep, ClientReads, ClientSeesEnd, Set, Only, At
<1>6. CASE WholeStep(r)
  <2>1. PICK pc \in EmitterPcs : emitter' = [emitter EXCEPT ![r] = To(pc, Nothing)]
    BY <1>6, WholeMoves
  <2>2. /\ UNCHANGED <<protocol, up, reader, chan1, tracker, chan2, output, got>>
        /\ client' = client \/ client' = [client EXCEPT ![r] = "over"]
    BY <1>6, WholeMoves
  <2> QED BY <2>1, <2>2 DEF TypeOK, Only, At
<1> QED BY <1>1, <1>2, <1>3, <1>4, <1>5, <1>6

\* A step that is no start and no end of what the gauge counts.
LEMMA Silent ==
  ASSUME NEW r \in Reqs, active' = active,
         tracker'[r].pc \in {"recv", "send", "end"} <=> tracker[r].pc \in {"recv", "send", "end"},
         emitter'[r].pc \in Raised <=> emitter[r].pc \in Raised
  PROVE  Moved(r)
BY DEF Moved, Running

LEMMA GaugeStep ==
  ASSUME Inv, NEW r \in Reqs, r \notin Streaming => Orderly(r),
         \/ Ask(r) \/ AskWhole(r) \/ Leave(r)
         \/ ReaderStep(r) \/ TrackerStep(r) \/ EmitterStep(r) \/ ClientStep(r) \/ WholeStep(r)
  PROVE  /\ Moved(r) /\ logged' \in {logged, logged \cup {r}}
         /\ r \notin Streaming => Orderly(r)'
<1>1. TypeOK /\ (r \in Streaming => Places(r)) /\ (r \notin Streaming => WholeInv(r))
  BY DEF Inv, StreamInv
<1>2. CASE Ask(r)
  BY <1>1, <1>2, Silent DEF Ask, sharedVars
<1>3. CASE AskWhole(r)
  <2>1. r \notin Streaming /\ emitter'[r].pc = "body" /\ tracker'[r] = tracker[r]
        /\ active' = active + 1 /\ logged' = logged
    BY <1>1, <1>3 DEF TypeOK, AskWhole, Set, To
  <2>2. emitter[r].pc = "off" /\ client'[r] = "waiting" /\ r \notin logged
    BY <1>1, <1>3, <2>1 DEF TypeOK, AskWhole, Set, Orderly
  <2> QED BY <1>1, <2>1, <2>2 DEF Moved, Running, WholeInv, Orderly
<1>4. CASE Leave(r)
  <2>1. client'[r] = "gone"
    BY <1>1, <1>4 DEF TypeOK, Leave, Set
  <2> QED BY <1>4, <2>1, Silent DEF Leave, sharedVars, Orderly
<1>5. CASE ReaderStep(r)
  <2>0. r \in Streaming
    BY <1>5, Tasks
    DEF ReaderStep, Answered, Refused, ReadToken, ReadEnd, ReadError, ReaderSends, ReaderStops
  <2>1. CASE Answered(r)
    <3>1. r \in Streaming
      BY <2>0
    <3>2. tracker[r] = Off /\ emitter[r] = Off
      BY <1>1, <2>1, <3>1 DEF Answered, Places
    <3>3. tracker'[r].pc = "start" /\ emitter'[r].pc = "recv" /\ active' = active
      BY <1>1, <2>1 DEF TypeOK, Answered, Set, To, sharedVars
    <3> QED BY <2>1, <3>1, <3>2, <3>3, Silent DEF Off, Answered, sharedVars
  <2>2. CASE ~Answered(r)
    BY <1>5, <2>0, <2>2, Silent
    DEF ReaderStep, Refused, ReadToken, ReadEnd, ReadError, ReaderSends, ReaderStops, sharedVars
  <2> QED BY <2>1, <2>2
<1>6. CASE TrackerStep(r)
  <2>1. r \in Streaming
    BY <1>6, Tasks DEF TrackerStep, TrackerStarts, TrackerRecvs, TrackerSends, TrackerStops, TrackerEnds
  <2>2. emitter'= emitter /\ logged' = logged /\ emitter[r].pc \notin Raised
    BY <1>1, <1>6, <2>1
    DEF TrackerStep, TrackerStarts, TrackerRecvs, TrackerSends, TrackerStops, TrackerEnds, sharedVars, Places
  <2>3. \/ tracker[r].pc = "start" /\ tracker'[r].pc = "recv" /\ active' = active + 1
        \/ tracker[r].pc = "end" /\ tracker'[r].pc = "closed" /\ active' = active - 1
        \/ /\ tracker[r].pc \in {"recv", "send"} /\ tracker'[r].pc \in {"recv", "send", "end"}
           /\ active' = active
    BY <1>1, <1>6
    DEF TypeOK, TrackerStep, TrackerStarts, TrackerRecvs, TrackerSends, TrackerStops, TrackerEnds,
        Set, To, sharedVars
  <2> QED BY <2>1, <2>2, <2>3 DEF Moved, Running
<1>7. CASE EmitterStep(r)
  <2>1. r \in Streaming
    BY <1>7, Tasks DEF EmitterStep, EmitterRecvs, EmitterEmits, EmitterStops, EmitterLogs, EmitterFinishes
  <2>2. tracker' = tracker /\ active' = active /\ logged' \in {logged, logged \cup {r}}
    BY <1>7
    DEF EmitterStep, EmitterRecvs, EmitterEmits, EmitterStops, EmitterLogs, EmitterFinishes, sharedVars
  <2>3. emitter[r].pc \notin Raised /\ emitter'[r].pc \notin Raised
    BY <1>1, <1>7, <2>1
    DEF TypeOK, Places, EmitterStep, EmitterRecvs, EmitterEmits, EmitterStops, EmitterLogs,
        EmitterFinishes, Set, To
  <2> QED BY <2>1, <2>2, <2>3, Silent
<1>8. CASE ClientStep(r)
  <2>1. emitter' = emitter /\ tracker' = tracker /\ active' = active /\ logged' = logged
    BY <1>8 DEF ClientStep, ClientReads, ClientSeesEnd, sharedVars
  <2>2. client'[r] # "idle"
    BY <1>1, <1>8 DEF TypeOK, ClientStep, ClientReads, ClientSeesEnd, Set
  <2> QED BY <2>1, <2>2, Silent DEF Orderly
<1>9. CASE WholeStep(r)
  <2>1. tracker' = tracker /\ (client' = client \/ client' = [client EXCEPT ![r] = "over"])
    BY <1>1, <1>9, WholeMoves
  <2>2. /\ emitter[r].pc \in Raised \ {"left"} /\ emitter'[r].pc \in Raised \cup {"closed"}
        /\ emitter'[r].pc # "body" /\ logged' \in {logged, logged \cup {r}}
        /\ \/ active' = active /\ emitter'[r].pc # "closed"
           \/ active' = active - 1 /\ emitter'[r].pc = "closed"
    BY <1>1, <1>9, WholeMoves DEF sharedVars
  <2>3. r \notin Streaming
    BY <1>1, <2>2 DEF Places
  <2>4. tracker[r].pc = "off" /\ client[r] # "idle"
    BY <1>1, <2>2, <2>3 DEF WholeInv, Orderly
  <2>5. Moved(r)
    BY <2>1, <2>2, <2>4 DEF Moved, Running
  <2>6. client'[r] # "idle"
    BY <1>1, <2>1, <2>4 DEF TypeOK
  <2> QED BY <2>2, <2>5, <2>6 DEF Orderly
<1> QED BY <1>2, <1>3, <1>4, <1>5, <1>6, <1>7, <1>8, <1>9
GaugeInv == Inv /\ GaugeTracks /\ \A r \in Reqs \ Streaming : Orderly(r)

LEMMA GaugeInit == Init => GaugeInv
<1> SUFFICES ASSUME Init PROVE GaugeTracks /\ \A r \in Reqs \ Streaming : Orderly(r)
  BY InvInit DEF GaugeInv
<1>1. {r \in Reqs : tracker[r].pc \in {"recv", "send", "end"} \/ emitter[r].pc \in Raised} = {}
  BY DEF Init, Off
<1>2. active = 0 /\ Cardinality({}) = 0
  BY FS_EmptySet DEF Init
<1>4. GaugeTracks
  BY <1>1, <1>2 DEF GaugeTracks
<1> QED BY <1>4 DEF Init, Orderly, Off

LEMMA GaugeNext == GaugeInv /\ [Next]_vars => GaugeInv'
<1> SUFFICES ASSUME GaugeInv, [Next]_vars PROVE GaugeInv'
  OBVIOUS
<1>1. Inv /\ Inv' /\ TypeOK /\ TypeOK' /\ GaugeTracks
  BY InvNext DEF GaugeInv, Inv
<1>2. CASE UNCHANGED vars
  <2>1. UNCHANGED <<tracker, emitter, client, active, logged>>
    BY <1>2 DEF vars, streamVars, sharedVars
  <2> QED BY <1>1, <2>1 DEF GaugeInv, GaugeTracks, Orderly
<1>3. CASE Next
  <2>1. PICK r \in Reqs :
          \/ Ask(r) \/ AskWhole(r) \/ Leave(r)
          \/ ReaderStep(r) \/ TrackerStep(r) \/ EmitterStep(r) \/ ClientStep(r) \/ WholeStep(r)
    BY <1>3 DEF Next
  <2>2. r \notin Streaming => Orderly(r)
    BY DEF GaugeInv
  <2>3. Only(r)
    BY <1>1, <2>1, OnlyOne
  <2>4. Moved(r) /\ logged' \in {logged, logged \cup {r}} /\ (r \notin Streaming => Orderly(r)')
    BY <1>1, <2>1, <2>2, GaugeStep
  <2>5. GaugeTracks'
    BY <1>1, <2>3, <2>4, GaugeMoves
  <2>6. ASSUME NEW q \in Reqs \ Streaming PROVE Orderly(q)'
    <3>1. CASE q = r
      BY <2>4, <2>6, <3>1
    <3>2. CASE q # r
      BY <2>3, <2>4, <3>2 DEF Only, At, Orderly, GaugeInv
    <3> QED BY <3>1, <3>2
  <2> QED BY <1>1, <2>5, <2>6 DEF GaugeInv
<1> QED BY <1>2, <1>3

\* The gauge goes up and down with the trackers and handlers whatever their
\* interleaving, and what it is too high by are the handlers that were left by
\* `?` or dropped at an await, logged and counted or not (proxy.rs:221 and 279,
\* openai.rs:393 and 468, anthropic.rs:195, metrics.rs:91).
THEOREM GaugeIsKept == Spec => []GaugeTracks
<1>1. GaugeInv => GaugeTracks
  BY DEF GaugeInv
<1> QED BY <1>1, GaugeInit, GaugeNext, PTL DEF Spec
-----------------------------------------------------------------------------
(* The counters and the log.                                               *)

\* The end of the response has been counted, or is lost.
Past(r) ==
  IF r \in Streaming
  THEN reader[r] = "closed" /\ ~Contains(chan1[r], Done) /\ ~Contains(chan1[r], Error)
  ELSE emitter[r].pc \in {"record", "lower", "left", "closed"}

\* The request is in the log and counted, or its Done is past the tracker and
\* it will be logged.
Accounted(r) ==
  \/ r \in logged /\ emitter[r].pc # "count"
  \/ tracker[r].pc = "send" /\ tracker[r].ev = Done
  \/ Contains(chan2[r], Done)
  \/ emitter[r].pc \in {"log", "final"}

\* The reader ends with what ends the response, and a client that is told of the
\* end is told after the log.
InOrder(r) ==
  /\ \A i \in 1 .. Len(chan1[r]) :
       chan1[r][i] \in {Done, Error} => i = Len(chan1[r]) /\ reader[r] = "closed"
  /\ emitter[r].pc = "emit" => emitter[r].ev # Done
  /\ emitter[r].pc = "final" \/ Contains(output[r], Done) \/ Contains(got[r], Done) => r \in logged

\* How a step of a request moves the counters.
Tallied(r) ==
  /\ requests' \in {requests, requests + 1} /\ errors' \in {errors, errors + 1}
  /\ logged' \in {logged, logged \cup {r}}
  /\ Past(r) => Past(r)' /\ requests' = requests /\ errors' = errors
  /\ requests' # requests \/ errors' # errors => Past(r)'
  /\ requests' = requests \/ errors' = errors
  /\ Accounted(r)' => Accounted(r) \/ requests' = requests + 1

LEMMA Occurs ==
  ASSUME NEW s \in Events, NEW x \in GenerateEvent
  PROVE  /\ ~Contains(<<>>, x)
         /\ \A y \in GenerateEvent : Contains(Append(s, y), x) <=> Contains(s, x) \/ x = y
         /\ s # <<>> => (Contains(s, x) <=> Head(s) = x \/ Contains(Tail(s), x))
<1>1. ~Contains(<<>>, x)
  BY DEF Contains
<1>2. Len(s) \in Nat
  BY DEF Events
<1>3. ASSUME NEW y \in GenerateEvent
      PROVE  Contains(Append(s, y), x) <=> Contains(s, x) \/ x = y
  <2>1. /\ Len(Append(s, y)) = Len(s) + 1
        /\ \A i \in 1 .. Len(s) : Append(s, y)[i] = s[i]
        /\ Append(s, y)[Len(s) + 1] = y
    BY Moves
  <2> DEFINE t == Append(s, y)
  <2> HIDE DEF t
  <2>2. Len(t) = Len(s) + 1 /\ (\A i \in 1 .. Len(s) : t[i] = s[i]) /\ t[Len(s) + 1] = y
    BY <2>1 DEF t
  <2>3. (\E i \in 1 .. Len(t) : t[i] = x) <=> (\E i \in 1 .. Len(s) : s[i] = x) \/ x = y
    BY <1>2, <2>2
  <2> QED BY <2>3 DEF Contains, t
<1>4. ASSUME s # <<>>
      PROVE  Contains(s, x) <=> Head(s) = x \/ Contains(Tail(s), x)
  <2> DEFINE t == Tail(s)
  <2>1. Len(t) = Len(s) - 1 /\ Head(s) = s[1] /\ \A i \in 1 .. Len(s) - 1 : t[i] = s[i + 1]
    BY <1>2, <1>4, HeadTailProperties DEF Events
  <2> HIDE DEF t
  <2>2. ASSUME NEW i \in 1 .. Len(s), s[i] = x, i # 1 PROVE \E j \in 1 .. Len(t) : t[j] = x
    <3>1. i - 1 \in 1 .. Len(t) /\ t[i - 1] = x
      BY <1>2, <2>1, <2>2
    <3> QED BY <3>1
  <2>3. ASSUME NEW j \in 1 .. Len(t), t[j] = x PROVE \E i \in 1 .. Len(s) : s[i] = x
    <3>1. j + 1 \in 1 .. Len(s) /\ s[j + 1] = x
      BY <1>2, <2>1, <2>3
    <3> QED BY <3>1
  <2>4. s[1] = x => \E i \in 1 .. Len(s) : s[i] = x
    <3>1. Len(s) >= 1
      BY <1>2, <1>4 DEF Events
    <3> QED BY <1>2, <3>1
  <2> QED BY <2>1, <2>2, <2>3, <2>4 DEF Contains, t
<1> QED BY <1>1, <1>3, <1>4

\* What is last stays last.
LEMMA LastIsLast ==
  ASSUME NEW s \in Events, NEW F
  PROVE  /\ s # <<>> /\ (\A i \in 1 .. Len(s) : s[i] \in F => i = Len(s)) =>
              /\ \A i \in 1 .. Len(Tail(s)) : Tail(s)[i] \in F => i = Len(Tail(s))
              /\ Head(s) \in F => Tail(s) = <<>>
         /\ \A x \in GenerateEvent : (\A i \in 1 .. Len(s) : s[i] \notin F) =>
              \A i \in 1 .. Len(Append(s, x)) : Append(s, x)[i] \in F => i = Len(Append(s, x)) /\ x \in F
<1>1. Len(s) \in Nat
  BY DEF Events
<1>2. ASSUME s # <<>>, \A i \in 1 .. Len(s) : s[i] \in F => i = Len(s)
      PROVE  /\ \A i \in 1 .. Len(Tail(s)) : Tail(s)[i] \in F => i = Len(Tail(s))
             /\ Head(s) \in F => Tail(s) = <<>>
  <2> DEFINE t == Tail(s)
  <2>1. /\ Len(t) = Len(s) - 1 /\ Head(s) = s[1] /\ \A i \in 1 .. Len(s) - 1 : t[i] = s[i + 1]
        /\ t \in Seq(GenerateEvent)
    BY <1>1, <1>2, HeadTailProperties DEF Events
  <2> HIDE DEF t
  <2>2. ASSUME NEW i \in 1 .. Len(t), t[i] \in F PROVE i = Len(t)
    <3>1. i + 1 \in 1 .. Len(s) /\ s[i + 1] \in F
      BY <1>1, <2>1, <2>2
    <3>2. i + 1 = Len(s)
      BY <1>2, <3>1
    <3> QED BY <1>1, <2>1, <3>2
  <2>3. ASSUME Head(s) \in F PROVE t = <<>>
    <3>1. 1 \in 1 .. Len(s)
      BY <1>1, <1>2 DEF Events
    <3>2. Len(s) = 1
      BY <1>2, <2>1, <2>3, <3>1
    <3> QED BY <2>1, <3>2
  <2> QED BY <2>2, <2>3 DEF t
<1>3. ASSUME NEW x \in GenerateEvent, \A i \in 1 .. Len(s) : s[i] \notin F
      PROVE  \A i \in 1 .. Len(Append(s, x)) : Append(s, x)[i] \in F => i = Len(Append(s, x)) /\ x \in F
  <2>1. /\ Len(Append(s, x)) = Len(s) + 1
        /\ \A i \in 1 .. Len(s) : Append(s, x)[i] = s[i]
        /\ Append(s, x)[Len(s) + 1] = x
    BY Moves
  <2> DEFINE t == Append(s, x)
  <2> HIDE DEF t
  <2>2. Len(t) = Len(s) + 1 /\ (\A i \in 1 .. Len(s) : t[i] = s[i]) /\ t[Len(s) + 1] = x
    BY <2>1 DEF t
  <2>3. \A i \in 1 .. Len(t) : t[i] \in F => i = Len(t) /\ x \in F
    BY <1>1, <1>3, <2>2
  <2> QED BY <2>3 DEF t
<1> QED BY <1>2, <1>3
LEMMA TallyStreaming ==
  ASSUME Inv, NEW r \in Streaming, InOrder(r), Ask(r) \/ Leave(r) \/ ReaderStep(r)
  PROVE  Tallied(r) /\ InOrder(r)'
<1>1. r \in Reqs /\ TypeOK /\ Places(r)
  BY PipelineAssumption DEF Inv, StreamInv
<1>2. /\ UNCHANGED <<requests, errors, logged, chan2, got>>
      /\ requests \in Nat /\ errors \in Nat
  BY <1>1 DEF TypeOK, Ask, Leave, ReaderStep, Answered, Refused, ReadToken, ReadEnd, ReadError,
              ReaderSends, ReaderStops, sharedVars
<1>3. chan1[r] \in Events /\ Done \in GenerateEvent /\ Error \in GenerateEvent
  BY <1>1, EventTypes DEF TypeOK, Events
<1>4. CASE Ask(r)
  <2>1. reader[r] = "off" /\ reader'[r] = "request" /\ UNCHANGED <<chan1, tracker, emitter, output>>
    BY <1>1, <1>4 DEF TypeOK, Ask, Set, Places
  <2> QED BY <1>2, <2>1 DEF Tallied, Past, Accounted, InOrder
<1>5. CASE Leave(r)
  <2>1. /\ reader'[r] = IF reader[r] = "request" THEN "closed" ELSE reader[r]
        /\ output'[r] = <<>> /\ UNCHANGED <<chan1, tracker, emitter>>
    BY <1>1, <1>5 DEF TypeOK, Leave, Set, Places
  <2>2. ~Contains(output'[r], Done)
    BY <1>3, <2>1, Occurs
  <2> QED BY <1>2, <2>1, <2>2 DEF Tallied, Past, Accounted, InOrder
<1>6. CASE ReaderStep(r)
  <2>1. reader[r] # "closed" /\ UNCHANGED output
    BY <1>6 DEF ReaderStep, Answered, Refused, ReadToken, ReadEnd, ReadError, ReaderSends, ReaderStops
  <2>2. \/ UNCHANGED <<tracker, emitter>>
        \/ tracker'[r].pc = "start" /\ emitter'[r].pc = "recv"
    BY <1>1, <1>6
    DEF TypeOK, ReaderStep, Answered, Refused, ReadToken, ReadEnd, ReadError, ReaderSends, ReaderStops, Set, To
  <2>3. Tallied(r)
    <3>1. emitter[r].pc # "count"
      BY <1>1 DEF Places
    <3> QED BY <1>2, <2>1, <2>2, <3>1 DEF Tallied, Past, Accounted
  <2>4. /\ emitter'[r].pc = "emit" => emitter'[r].ev # Done
        /\ emitter'[r].pc = "final" \/ Contains(output'[r], Done) \/ Contains(got'[r], Done) => r \in logged'
    BY <1>2, <2>1, <2>2 DEF InOrder
  <2>5. \A i \in 1 .. Len(chan1[r]) : chan1[r][i] \notin {Done, Error}
    BY <2>1 DEF InOrder
  <2>6. CASE ReaderSends(r)
    <3> DEFINE s == chan1[r]
               x == Holds(r)
    <3>1. /\ reader[r] \in {"send", "done", "error"} /\ chan1'[r] = Append(s, x)
          /\ reader'[r] = IF reader[r] = "send" THEN "read" ELSE "closed"
      BY <1>1, <2>6 DEF TypeOK, ReaderSends, Set
    <3>2. s \in Events /\ x \in GenerateEvent
      BY <1>1, <3>1, BehindTypes
    <3>3. reader[r] = "send" => x \notin {Done, Error}
      <4>1. reader[r] = "send" => up[r].read \in 1 .. MaxTokens
        BY <1>1, PipelineAssumption DEF TypeOK, Places
      <4> QED BY <4>1, EventTypes DEF Holds
    <3>4. \A i \in 1 .. Len(s) : s[i] \notin {Done, Error}
      BY <2>5
    <3> HIDE DEF s, x
    <3>5. \A i \in 1 .. Len(Append(s, x)) :
            Append(s, x)[i] \in {Done, Error} => i = Len(Append(s, x)) /\ x \in {Done, Error}
      BY <3>2, <3>4, LastIsLast
    <3>6. \A i \in 1 .. Len(chan1'[r]) :
            chan1'[r][i] \in {Done, Error} => i = Len(chan1'[r]) /\ reader'[r] = "closed"
      BY <3>1, <3>3, <3>5
    <3> QED BY <2>3, <2>4, <3>6 DEF InOrder
  <2>7. CASE ~ReaderSends(r)
    <3>1. chan1' = chan1
      BY <1>6, <2>7 DEF ReaderStep, Answered, Refused, ReadToken, ReadEnd, ReadError, ReaderStops
    <3> QED BY <2>3, <2>4, <2>5, <3>1 DEF InOrder
  <2> QED BY <2>6, <2>7
<1> QED BY <1>4, <1>5, <1>6

LEMMA TallyTracker ==
  ASSUME Inv, NEW r \in Streaming, InOrder(r), TrackerStep(r)
  PROVE  Tallied(r) /\ InOrder(r)'
<1>1. r \in Reqs /\ TypeOK /\ Places(r)
  BY PipelineAssumption DEF Inv, StreamInv
<1>2. /\ UNCHANGED <<up, reader, emitter, output, got, logged>>
      /\ requests \in Nat /\ errors \in Nat
  BY <1>1 DEF TypeOK, TrackerStep, TrackerStarts, TrackerRecvs, TrackerSends, TrackerStops, TrackerEnds,
              sharedVars
<1>3. chan1[r] \in Events /\ chan2[r] \in Events /\ Done \in GenerateEvent /\ Error \in GenerateEvent
      /\ Done # Error
  BY <1>1, EventTypes DEF TypeOK, Events
<1>4. CASE TrackerStarts(r) \/ TrackerStops(r)
  <2>1. tracker'[r].pc # "send" /\ UNCHANGED <<requests, errors, chan1, chan2>>
    BY <1>1, <1>4 DEF TypeOK, TrackerStarts, TrackerStops, Set, To, sharedVars
  <2> QED BY <1>2, <2>1 DEF Tallied, Past, Accounted, InOrder
<1>5. CASE TrackerEnds(r)
  <2>1. tracker'[r].pc # "send" /\ chan1'[r] = <<>> /\ UNCHANGED <<requests, errors, chan2>>
    BY <1>1, <1>5 DEF TypeOK, TrackerEnds, Set, To
  <2>2. ~Contains(chan1'[r], Done) /\ ~Contains(chan1'[r], Error)
    BY <1>3, <2>1, Occurs
  <2> QED BY <1>2, <2>1, <2>2 DEF Tallied, Past, Accounted, InOrder
<1>6. CASE TrackerSends(r)
  <2> DEFINE s == chan2[r]
             x == tracker[r].ev
  <2>1. /\ tracker[r].pc = "send" /\ tracker'[r].pc # "send" /\ chan2'[r] = Append(s, x)
        /\ UNCHANGED <<requests, errors, chan1>>
    BY <1>1, <1>6 DEF TypeOK, TrackerSends, Set, To, sharedVars
  <2>2. s \in Events /\ x \in GenerateEvent
    BY <1>1, <1>3, <2>1 DEF Places
  <2>3. Contains(s, Done) \/ x = Done <=> Contains(chan2[r], Done) \/ tracker[r].ev = Done
    OBVIOUS
  <2> HIDE DEF s, x
  <2>4. Contains(chan2'[r], Done) => Contains(s, Done) \/ Done = x
    BY <1>3, <2>1, <2>2, Occurs
  <2> QED BY <1>2, <2>1, <2>3, <2>4 DEF Tallied, Past, Accounted, InOrder
<1>7. CASE TrackerRecvs(r)
  <2> DEFINE s == chan1[r]
             F == {Done, Error}
  <2>1. /\ s # <<>> /\ chan1'[r] = Tail(s) /\ UNCHANGED chan2
        /\ tracker'[r].pc = "send" /\ tracker'[r].ev = Head(s)
        /\ requests' = IF Head(s) = Done THEN requests + 1 ELSE requests
        /\ errors' = IF Head(s) = Error THEN errors + 1 ELSE errors
    BY <1>1, <1>7 DEF TypeOK, TrackerRecvs, Set, To
  <2>2. /\ \A i \in 1 .. Len(s) : s[i] \in F => i = Len(s)
        /\ (\E i \in 1 .. Len(s) : s[i] \in F) => reader[r] = "closed"
    BY DEF InOrder
  <2>3. s \in Events
    BY <1>3
  <2>4. Past(r) <=> reader[r] = "closed" /\ ~Contains(s, Done) /\ ~Contains(s, Error)
    BY DEF Past
  <2>5. Past(r)' <=> reader[r] = "closed" /\ ~Contains(Tail(s), Done) /\ ~Contains(Tail(s), Error)
    BY <1>2, <2>1 DEF Past
  <2> HIDE DEF s, F
  <2>6. /\ \A i \in 1 .. Len(Tail(s)) : Tail(s)[i] \in F => i = Len(Tail(s))
        /\ Head(s) \in F => Tail(s) = <<>>
    BY <2>1, <2>2, <2>3, LastIsLast
  <2>7. /\ Contains(s, Done) <=> Head(s) = Done \/ Contains(Tail(s), Done)
        /\ Contains(s, Error) <=> Head(s) = Error \/ Contains(Tail(s), Error)
        /\ ~Contains(<<>>, Done) /\ ~Contains(<<>>, Error)
    BY <1>3, <2>1, <2>3, Occurs
  <2>8. /\ Contains(s, Done) \/ Contains(s, Error) => reader[r] = "closed"
        /\ Done \in F /\ Error \in F
    BY <2>2 DEF Contains, F
  <2>9. Tallied(r)
    <3>1. Accounted(r)' => Accounted(r) \/ requests' = requests + 1
      BY <1>2, <2>1 DEF Accounted
    <3>2. Past(r) => Past(r)' /\ Head(s) # Done /\ Head(s) # Error
      BY <2>4, <2>5, <2>7
    <3>3. Head(s) \in {Done, Error} => Past(r)'
      <4>1. ASSUME Head(s) \in {Done, Error} PROVE Past(r)'
        <5>1. Tail(s) = <<>> /\ reader[r] = "closed"
          BY <2>6, <2>7, <2>8, <4>1
        <5> QED BY <2>5, <2>7, <5>1
      <4> QED BY <4>1
    <3> QED BY <1>2, <1>3, <2>1, <3>1, <3>2, <3>3 DEF Tallied
  <2>10. \A i \in 1 .. Len(Tail(s)) : Tail(s)[i] \in F => reader[r] = "closed"
    <3>1. ASSUME NEW i \in 1 .. Len(Tail(s)), Tail(s)[i] \in F PROVE reader[r] = "closed"
      <4>1. Contains(Tail(s), Done) \/ Contains(Tail(s), Error)
        BY <3>1 DEF Contains, F
      <4> QED BY <2>7, <2>8, <4>1
    <3> QED BY <3>1
  <2>11. InOrder(r)'
    BY <1>2, <2>1, <2>6, <2>10 DEF InOrder, F
  <2> QED BY <2>9, <2>11
<1> QED BY <1>4, <1>5, <1>6, <1>7 DEF TrackerStep

LEMMA TallyEmitter ==
  ASSUME Inv, NEW r \in Streaming, InOrder(r), EmitterStep(r)
  PROVE  Tallied(r) /\ InOrder(r)'
<1>1. r \in Reqs /\ TypeOK /\ Places(r)
  BY PipelineAssumption DEF Inv, StreamInv
<1>2. /\ UNCHANGED <<reader, tracker, chan1, got, requests, errors>>
      /\ requests \in Nat /\ errors \in Nat
      /\ logged' \in {logged, logged \cup {r}}
      /\ EmitterLogs(r) \/ logged' = logged
  BY <1>1 DEF TypeOK, EmitterStep, EmitterRecvs, EmitterEmits, EmitterStops, EmitterLogs, EmitterFinishes,
              sharedVars
<1>3. chan2[r] \in Events /\ output[r] \in Events /\ Done \in GenerateEvent /\ Error \in GenerateEvent
      /\ Done # Error
  BY <1>1, EventTypes DEF TypeOK, Events
<1>4. Past(r)' = Past(r)
  BY <1>2 DEF Past
<1>5. CASE EmitterRecvs(r)
  <2> DEFINE s == chan2[r]
  <2>1. /\ s # <<>> /\ UNCHANGED output
        /\ \/ chan2'[r] = <<>> /\ emitter'[r].pc = "closed"
           \/ chan2'[r] = Tail(s) /\ emitter'[r].pc = "log" /\ Head(s) = Done
           \/ chan2'[r] = Tail(s) /\ emitter'[r].pc = "emit" /\ emitter'[r].ev # Done
    BY <1>1, <1>5 DEF TypeOK, EmitterRecvs, Set, To
  <2>2. s \in Events
    BY <1>3
  <2>3. Contains(s, Done) => Accounted(r)
    BY DEF Accounted
  <2> HIDE DEF s
  <2>4. /\ ~Contains(<<>>, Done)
        /\ Head(s) = Done \/ Contains(Tail(s), Done) => Contains(s, Done)
    BY <1>3, <2>1, <2>2, Occurs
  <2>5. Accounted(r)' => Accounted(r)
    <3>1. ASSUME Accounted(r)' PROVE Contains(s, Done) \/ Accounted(r)
      <4>1. logged' = logged
        BY <1>5 DEF EmitterRecvs, sharedVars
      <4>2. emitter[r].pc # "count"
        BY <1>1 DEF Places
      <4> QED BY <4>2, <1>2, <2>1, <2>4, <3>1, <4>1 DEF Accounted
    <3> QED BY <2>3, <3>1
  <2>6. emitter'[r].pc # "final" /\ (emitter'[r].pc = "emit" => emitter'[r].ev # Done)
    BY <2>1
  <2>7. logged' = logged
    BY <1>5 DEF EmitterRecvs, sharedVars
  <2>8. InOrder(r)'
    BY <1>2, <2>1, <2>6, <2>7 DEF InOrder
  <2> QED BY <1>2, <1>4, <2>5, <2>8 DEF Tallied
<1>6. CASE EmitterLogs(r)
  <2>1. emitter[r].pc = "log" /\ emitter'[r].pc = "final" /\ logged' = logged \cup {r} /\ UNCHANGED output
    BY <1>1, <1>6 DEF TypeOK, EmitterLogs, Set, To
  <2>2. Accounted(r)
    BY <2>1 DEF Accounted
  <2>3. r \in logged'
    BY <2>1
  <2>4. InOrder(r)'
    BY <1>2, <2>1, <2>3 DEF InOrder
  <2> QED BY <1>2, <1>4, <2>2, <2>4 DEF Tallied
<1>7. CASE EmitterStops(r)
  <2>1. emitter'[r].pc = "closed" /\ chan2'[r] = <<>> /\ logged' = logged /\ UNCHANGED output
    BY <1>1, <1>7 DEF TypeOK, EmitterStops, Set, To, sharedVars
  <2>2. ~Contains(chan2'[r], Done)
    BY <1>3, <2>1, Occurs
  <2>3. Accounted(r)' => Accounted(r)
    <3>1. emitter[r].pc # "count"
      BY <1>1 DEF Places
    <3> QED BY <1>2, <2>1, <2>2, <3>1 DEF Accounted
  <2>4. InOrder(r)'
    BY <1>2, <2>1 DEF InOrder
  <2> QED BY <1>2, <1>4, <2>3, <2>4 DEF Tallied
<1>8. CASE EmitterEmits(r) \/ EmitterFinishes(r)
  <2> DEFINE x == IF emitter[r].pc = "emit" THEN emitter[r].ev ELSE Done
             o == output[r]
  <2>1. /\ emitter[r].pc \in {"emit", "final"} /\ emitter'[r].pc \in {"recv", "closed"} /\ logged' = logged
        /\ chan2' = chan2 \/ chan2'[r] = <<>>
        /\ Push(r, x)
    BY <1>1, <1>8 DEF TypeOK, EmitterEmits, EmitterFinishes, Set, To, sharedVars
  <2>2. o \in Events /\ x \in GenerateEvent
    BY <1>1, <1>3, <2>1 DEF Places
  <2>3. output' = output \/ output'[r] = Append(o, x)
    BY <1>1, <2>1 DEF TypeOK, Push, Set
  <2>4. x = Done => r \in logged
    BY <2>1 DEF InOrder
  <2>5. Accounted(r)' => Accounted(r)
    <3>1. ~Contains(<<>>, Done)
      BY <1>3, Occurs
    <3> QED BY <1>2, <2>1, <3>1 DEF Accounted
  <2>6. Contains(o, Done) => r \in logged
    BY DEF InOrder
  <2> HIDE DEF o, x
  <2>7. Contains(output'[r], Done) => r \in logged
    <3>1. Contains(Append(o, x), Done) <=> Contains(o, Done) \/ Done = x
      BY <1>3, <2>2, Occurs
    <3>2. CASE output' = output
      BY <2>6, <3>2 DEF o
    <3>3. CASE output'[r] = Append(o, x)
      BY <2>4, <2>6, <3>1, <3>3
    <3> QED BY <2>3, <3>2, <3>3
  <2>8. InOrder(r)'
    BY <1>2, <2>1, <2>7 DEF InOrder
  <2> QED BY <1>2, <1>4, <2>1, <2>5, <2>8 DEF Tallied
<1> QED BY <1>5, <1>6, <1>7, <1>8 DEF EmitterStep
LEMMA TallyClient ==
  ASSUME Inv, NEW r \in Reqs, r \in Streaming => InOrder(r), ClientStep(r)
  PROVE  Tallied(r) /\ (r \in Streaming => InOrder(r)')
<1> DEFINE g == got[r]
           o == output[r]
<1>1. /\ UNCHANGED <<reader, tracker, emitter, chan1, chan2, requests, errors, logged>>
      /\ requests \in Nat /\ errors \in Nat
  BY DEF Inv, TypeOK, ClientStep, ClientReads, ClientSeesEnd, sharedVars
<1>2. Tallied(r)
  BY <1>1 DEF Tallied, Past, Accounted
<1>3. \/ UNCHANGED <<output, got>>
      \/ o # <<>> /\ got'[r] = Append(g, Head(o)) /\ output'[r] = Tail(o)
  BY DEF Inv, TypeOK, ClientStep, ClientReads, ClientSeesEnd, Set
<1>4. o \in Events /\ g \in Events
  BY BeforeTypes DEF Inv
<1>5. ASSUME r \in Streaming PROVE InOrder(r)'
  <2>1. CASE UNCHANGED <<output, got>>
    BY <1>1, <1>5, <2>1 DEF InOrder
  <2>2. CASE o # <<>> /\ got'[r] = Append(g, Head(o)) /\ output'[r] = Tail(o)
    <3> DEFINE h == Head(o)
    <3>1. Contains(o, Done) \/ Contains(g, Done) => r \in logged
      BY <1>5 DEF InOrder
    <3> HIDE DEF o, g
    <3>2. h \in GenerateEvent
      BY <1>4, <2>2, EventTypes, Moves
    <3>3. Head(o) = Done \/ Contains(Tail(o), Done) => Contains(o, Done)
      BY <1>4, <2>2, EventTypes, Occurs
    <3>4. h = Head(o) /\ got'[r] = Append(g, h)
      BY <2>2
    <3> HIDE DEF h
    <3>5. Contains(Append(g, h), Done) => Contains(g, Done) \/ Done = h
      BY <1>4, <3>2, EventTypes, Occurs
    <3> QED BY <1>1, <1>5, <2>2, <3>1, <3>3, <3>4, <3>5 DEF InOrder
  <2> QED BY <1>3, <2>1, <2>2
<1> QED BY <1>2, <1>5

LEMMA TallyWhole ==
  ASSUME Inv, NEW r \in Reqs \ Streaming, Orderly(r), AskWhole(r) \/ Leave(r) \/ WholeStep(r)
  PROVE  Tallied(r)
<1>1. TypeOK /\ requests \in Nat /\ errors \in Nat
  BY DEF Inv, TypeOK
<1>2. CASE AskWhole(r)
  <2>1. /\ emitter[r].pc = "off" /\ emitter'[r].pc = "body"
        /\ UNCHANGED <<tracker, chan2, requests, errors, logged>>
    BY <1>1, <1>2 DEF TypeOK, AskWhole, Set, To, Orderly
  <2> QED BY <1>1, <2>1 DEF Tallied, Past, Accounted
<1>3. CASE Leave(r)
  <2>1. UNCHANGED <<emitter, tracker, chan2, requests, errors, logged>>
    BY <1>3 DEF Leave, sharedVars
  <2> QED BY <1>1, <2>1 DEF Tallied, Past, Accounted
<1>4. CASE WholeStep(r)
  <2>1. UNCHANGED <<tracker, chan2>>
    BY <1>1, <1>4, WholeMoves
  <2>2. \/ /\ emitter[r].pc = "body" /\ emitter'[r].pc = "count" /\ logged' = logged \cup {r}
           /\ UNCHANGED <<requests, errors>>
        \/ /\ emitter[r].pc = "count" /\ emitter'[r].pc = "record" /\ requests' = requests + 1
           /\ UNCHANGED <<errors, logged>>
        \/ /\ emitter[r].pc = "body" /\ emitter'[r].pc \in {"lower", "left"}
           /\ errors' \in {errors, errors + 1} /\ UNCHANGED <<requests, logged>>
        \/ /\ emitter[r].pc \in {"record", "lower"} /\ emitter'[r].pc \in {"lower", "left", "closed"}
           /\ UNCHANGED <<requests, errors, logged>>
    BY <1>1, <1>4, WholeMoves DEF sharedVars
  <2>3. emitter[r].pc = "body" => r \notin logged
    BY DEF Orderly
  <2> QED BY <1>1, <2>1, <2>2, <2>3 DEF Tallied, Past, Accounted
<1> QED BY <1>2, <1>3, <1>4

-----------------------------------------------------------------------------
(* The counters bound the requests behind them.                            *)

CountInv ==
  /\ Cardinality({r \in Reqs : Accounted(r)}) <= requests
  /\ requests + errors <= Cardinality({r \in Reqs : Past(r)})

LEMMA CountMoves ==
  ASSUME TypeOK, TypeOK', CountInv, NEW r \in Reqs, Only(r), Tallied(r)
  PROVE  CountInv'
<1> DEFINE A  == {q \in Reqs : Accounted(q)}
           A1 == {q \in Reqs : Accounted(q)'}
           P  == {q \in Reqs : Past(q)}
           P1 == {q \in Reqs : Past(q)'}
<1>1. \A q \in Reqs \ {r} : (Accounted(q)' <=> Accounted(q)) /\ (Past(q)' <=> Past(q))
  BY DEF Only, At, Accounted, Past, Tallied
<1>2. requests \in Nat /\ requests' \in Nat /\ errors \in Nat /\ errors' \in Nat
  BY DEF TypeOK
<1>3. IsFiniteSet(A) /\ IsFiniteSet(A1) /\ IsFiniteSet(P) /\ IsFiniteSet(P1)
  BY FS_Subset, PipelineAssumption
<1>4. Cardinality(A) <= requests /\ requests + errors <= Cardinality(P)
  BY DEF CountInv
<1>5. /\ A1 \subseteq A \cup {r} /\ (r \in A1 <=> Accounted(r)') /\ (r \in A <=> Accounted(r))
      /\ P \ {r} = P1 \ {r} /\ (r \in P1 <=> Past(r)') /\ (r \in P <=> Past(r))
  <2>1. \A q \in Reqs : /\ (q \in A <=> Accounted(q)) /\ (q \in A1 <=> Accounted(q)')
                        /\ (q \in P <=> Past(q)) /\ (q \in P1 <=> Past(q)')
    OBVIOUS
  <2>2. A \subseteq Reqs /\ A1 \subseteq Reqs /\ P \subseteq Reqs /\ P1 \subseteq Reqs
    OBVIOUS
  <2> HIDE DEF A, A1, P, P1
  <2> QED BY <1>1, <2>1, <2>2
<1> HIDE DEF A, A1, P, P1
<1>6. /\ Cardinality(A) \in Nat /\ Cardinality(A1) \in Nat /\ Cardinality(P) \in Nat /\ Cardinality(P1) \in Nat
  BY <1>3, FS_CardinalityType
<1>7. Cardinality(A1) <= requests'
  <2>1. CASE Accounted(r)' => Accounted(r)
    <3>1. A1 \subseteq A
      BY <1>5, <2>1
    <3>2. Cardinality(A1) <= Cardinality(A)
      BY <1>3, <3>1, FS_Subset
    <3>3. requests' >= requests
      BY <1>2 DEF Tallied
    <3> QED BY <1>2, <1>4, <1>6, <3>2, <3>3
  <2>2. CASE Accounted(r)' /\ ~Accounted(r)
    <3>1. IsFiniteSet(A \cup {r}) /\ Cardinality(A \cup {r}) = Cardinality(A) + 1
      BY <1>3, <1>5, <2>2, FS_AddElement
    <3>2. Cardinality(A1) <= Cardinality(A \cup {r})
      BY <1>3, <1>5, <3>1, FS_Subset
    <3>3. requests' = requests + 1
      BY <2>2 DEF Tallied
    <3> QED BY <1>2, <1>4, <1>6, <3>1, <3>2, <3>3
  <2> QED BY <2>1, <2>2
<1>8. requests' + errors' <= Cardinality(P1)
  <2>1. CASE requests' = requests /\ errors' = errors
    <3>1. P \subseteq P1
      BY <1>5 DEF Tallied
    <3>2. Cardinality(P) <= Cardinality(P1)
      BY <1>3, <3>1, FS_Subset
    <3> QED BY <1>2, <1>4, <1>6, <2>1, <3>2
  <2>2. CASE ~(requests' = requests /\ errors' = errors)
    <3>1. ~Past(r) /\ Past(r)'
      BY <2>2 DEF Tallied
    <3>2. P1 = P \cup {r} /\ r \notin P
      BY <1>5, <3>1
    <3>3. Cardinality(P1) = Cardinality(P) + 1
      BY <1>3, <3>2, FS_AddElement
    <3>4. \/ requests' = requests + 1 /\ errors' = errors
          \/ requests' = requests /\ errors' = errors + 1
      BY <2>2 DEF Tallied
    <3>5. CASE requests' = requests + 1 /\ errors' = errors
      BY <1>2, <1>4, <1>6, <3>3, <3>5
    <3>6. CASE requests' = requests /\ errors' = errors + 1
      BY <1>2, <1>4, <1>6, <3>3, <3>6
    <3> QED BY <3>4, <3>5, <3>6
  <2> QED BY <2>1, <2>2
<1> QED BY <1>7, <1>8 DEF CountInv, A1, P1

TallyInv == GaugeInv /\ CountInv /\ \A r \in Streaming : InOrder(r)

LEMMA TallyInit == Init => TallyInv
<1> SUFFICES ASSUME Init PROVE CountInv /\ \A r \in Streaming : InOrder(r)
  BY GaugeInit DEF TallyInv
<1>1. TypeOK
  BY InvInit DEF Inv
<1>2. ~Contains(<<>>, Done)
  BY DEF Contains
<1>3. {r \in Reqs : Accounted(r)} = {}
  BY <1>2 DEF Init, Accounted, Off
<1>4. requests = 0 /\ errors = 0
  BY DEF Init
<1>5. Cardinality({}) = 0 /\ IsFiniteSet({r \in Reqs : Past(r)})
  BY FS_EmptySet, FS_Subset, PipelineAssumption
<1>6. Cardinality({r \in Reqs : Past(r)}) \in Nat
  BY <1>5, FS_CardinalityType
<1>7. CountInv
  BY <1>3, <1>4, <1>5, <1>6 DEF CountInv
<1>8. ASSUME NEW r \in Streaming PROVE InOrder(r)
  <2>1. r \in Reqs
    BY PipelineAssumption
  <2>2. chan1[r] = <<>> /\ emitter[r].pc = "off" /\ output[r] = <<>> /\ got[r] = <<>>
    BY <2>1 DEF Init, Off
  <2> QED BY <1>2, <2>2 DEF InOrder
<1> QED BY <1>7, <1>8

LEMMA TallyNext == TallyInv /\ [Next]_vars => TallyInv'
<1> SUFFICES ASSUME TallyInv, [Next]_vars PROVE TallyInv'
  OBVIOUS
<1>1. GaugeInv /\ GaugeInv' /\ Inv /\ TypeOK /\ TypeOK' /\ CountInv
  BY GaugeNext DEF TallyInv, GaugeInv, Inv
<1>2. CASE UNCHANGED vars
  <2>1. UNCHANGED <<streamVars, sharedVars>>
    BY <1>2 DEF vars
  <2> QED BY <1>1, <2>1
      DEF TallyInv, CountInv, InOrder, Accounted, Past, streamVars, sharedVars
<1>3. CASE Next
  <2>1. PICK r \in Reqs :
          \/ Ask(r) \/ AskWhole(r) \/ Leave(r)
          \/ ReaderStep(r) \/ TrackerStep(r) \/ EmitterStep(r) \/ ClientStep(r) \/ WholeStep(r)
    BY <1>3 DEF Next
  <2>2. Only(r) /\ (r \in Streaming => InOrder(r)) /\ (r \notin Streaming => Orderly(r))
    BY <1>1, <2>1, OnlyOne DEF TallyInv, GaugeInv
  <2>3. Tallied(r) /\ (r \in Streaming => InOrder(r)')
    <3>1. CASE Ask(r)
      BY <1>1, <2>2, <3>1, TallyStreaming DEF Ask
    <3>2. CASE AskWhole(r)
      BY <1>1, <2>2, <3>2, TallyWhole DEF AskWhole
    <3>3. CASE Leave(r)
      BY <1>1, <2>2, <3>3, TallyWhole, TallyStreaming
    <3>4. CASE ReaderStep(r)
      <4>1. r \in Streaming
        BY <1>1, <3>4, Tasks
        DEF ReaderStep, Answered, Refused, ReadToken, ReadEnd, ReadError, ReaderSends, ReaderStops
      <4> QED BY <1>1, <2>2, <3>4, <4>1, TallyStreaming
    <3>5. CASE TrackerStep(r)
      <4>1. r \in Streaming
        BY <1>1, <3>5, Tasks
        DEF TrackerStep, TrackerStarts, TrackerRecvs, TrackerSends, TrackerStops, TrackerEnds
      <4> QED BY <1>1, <2>2, <3>5, <4>1, TallyTracker
    <3>6. CASE EmitterStep(r)
      <4>1. r \in Streaming
        BY <1>1, <3>6, Tasks
        DEF EmitterStep, EmitterRecvs, EmitterEmits, EmitterStops, EmitterLogs, EmitterFinishes
      <4> QED BY <1>1, <2>2, <3>6, <4>1, TallyEmitter
    <3>7. CASE ClientStep(r)
      BY <1>1, <2>2, <3>7, TallyClient
    <3>8. CASE WholeStep(r)
      <4>1. r \notin Streaming
        BY <1>1, <3>8, WholeMoves DEF Inv, StreamInv, Places
      <4> QED BY <1>1, <2>2, <3>8, <4>1, TallyWhole
    <3> QED BY <2>1, <3>1, <3>2, <3>3, <3>4, <3>5, <3>6, <3>7, <3>8
  <2>4. CountInv'
    BY <1>1, <2>2, <2>3, CountMoves
  <2>5. ASSUME NEW q \in Streaming PROVE InOrder(q)'
    <3>1. CASE q = r
      BY <2>3, <2>5, <3>1
    <3>2. CASE q # r
      <4>1. q \in Reqs /\ InOrder(q)
        BY PipelineAssumption DEF TallyInv
      <4>2. /\ reader'[q] = reader[q] /\ chan1'[q] = chan1[q] /\ emitter'[q] = emitter[q]
            /\ output'[q] = output[q] /\ got'[q] = got[q] /\ (q \in logged => q \in logged')
        BY <2>2, <2>3, <3>2, <4>1 DEF Only, At, Tallied
      <4> QED BY <4>1, <4>2 DEF InOrder
    <3> QED BY <3>1, <3>2
  <2> QED BY <1>1, <2>4, <2>5 DEF TallyInv
<1> QED BY <1>2, <1>3

\* A response the client saw end is in the log and in total_requests, whichever
\* tasks of other requests run in between (proxy.rs:257, openai.rs:324,
\* anthropic.rs:424).
THEOREM CompleteAreAccounted == Spec => []CompleteIsAccounted
<1>1. ASSUME TallyInv PROVE CompleteIsAccounted
  <2> DEFINE C == {r \in Streaming : Contains(got[r], Done)}
             A == {r \in Reqs : Accounted(r)}
  <2>1. C \subseteq logged
    BY <1>1 DEF TallyInv, InOrder
  <2>2. C \subseteq A
    BY <1>1, <2>1, PipelineAssumption DEF Accounted, TallyInv, GaugeInv, Inv, StreamInv, Places
  <2>3. IsFiniteSet(A) /\ Cardinality(A) <= requests /\ requests \in Nat
    BY <1>1, FS_Subset, PipelineAssumption DEF TallyInv, CountInv, GaugeInv, Inv, TypeOK
  <2>4. Cardinality(C) <= Cardinality(A) /\ Cardinality(C) \in Nat /\ Cardinality(A) \in Nat
    BY <2>2, <2>3, FS_Subset, FS_CardinalityType
  <2> QED BY <2>1, <2>3, <2>4 DEF CompleteIsAccounted
<1> QED BY <1>1, TallyInit, TallyNext, PTL DEF Spec

\* No log entry without a counted request but for the handlers between the two,
\* and no request counted twice (proxy.rs:239 and 257, openai.rs:438 and 452,
\* anthropic.rs:169 and 183).
THEOREM RequestsCountOnce == Spec => []CountedOnce
<1>1. ASSUME TallyInv PROVE CountedOnce
  <2> DEFINE A == {r \in Reqs : Accounted(r)}
             B == {r \in logged : emitter[r].pc # "count"}
             P == {r \in Reqs : Past(r)}
             I == {r \in Reqs : client[r] # "idle"}
  <2>1. Inv /\ TypeOK /\ B \subseteq A
    BY <1>1 DEF TallyInv, GaugeInv, Inv, TypeOK, Accounted
  <2>2. P \subseteq I
    <3>1. ASSUME NEW r \in Reqs, Past(r), client[r] = "idle" PROVE FALSE
      <4>1. CASE r \in Streaming
        BY <2>1, <3>1, <4>1 DEF Past, Inv, StreamInv, Places
      <4>2. CASE r \notin Streaming
        BY <1>1, <3>1, <4>2 DEF Past, TallyInv, GaugeInv, Orderly
      <4> QED BY <4>1, <4>2
    <3> QED BY <3>1
  <2>3. IsFiniteSet(A) /\ IsFiniteSet(P) /\ IsFiniteSet(I)
    BY FS_Subset, PipelineAssumption
  <2>4. Cardinality(A) <= requests /\ requests + errors <= Cardinality(P) /\ requests \in Nat /\ errors \in Nat
    BY <1>1, <2>1 DEF TallyInv, CountInv, TypeOK
  <2>5. Cardinality(B) <= Cardinality(A) /\ Cardinality(P) <= Cardinality(I)
    BY <2>1, <2>2, <2>3, FS_Subset
  <2>6. IsFiniteSet(B)
    BY <2>1, <2>3, FS_Subset
  <2>7. Cardinality(B) \in Nat /\ Cardinality(A) \in Nat /\ Cardinality(P) \in Nat /\ Cardinality(I) \in Nat
    BY <2>3, <2>6, FS_CardinalityType
  <2> HIDE DEF A, P
  <2>8. Cardinality(B) <= requests /\ requests + errors <= Cardinality(I)
    BY <2>4, <2>5, <2>7
  <2> QED BY <2>8 DEF CountedOnce
<1> QED BY <1>1, TallyInit, TallyNext, PTL DEF Spec
====
