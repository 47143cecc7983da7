----------------------------- MODULE Accounting -----------------------------
(***************************************************************************)
(* What completed requests leave behind: MetricsWindow and ConversationLog *)
(* together, a reader of /health, /metrics or /v1/admin/stats, and a       *)
(* process that ends and starts again.                                     *)
(*                                                                         *)
(* A stream is counted by its tracker and then logged by its emitter; the  *)
(* handler of a whole response does both the other way round.              *)
(***************************************************************************)
EXTENDS MetricsWindow, ConversationLog

CONSTANTS
  Streams, Wholes,  \* requests
  Sample,           \* what each of them adds to the metrics
  MaxStarts         \* bound: starts of the process

Reqs == Streams \cup Wholes

ASSUME AccountingAssumption ==
  /\ Streams \cap Wholes = {}
  /\ Sample \in [Reqs -> [tokens : Nat, speed : Nat, why : STRING]]
  /\ MaxStarts \in Nat \ {0}

VARIABLES
  logging, \* log_conversations, set for good
  up,      \* does the process run ?
  starts,  \* how often it was started
  todo,    \* the steps a request has before it, empty once it is through
  stamp,   \* ConversationEntry.ts, as a day
  view     \* the answer a reader is putting together

vars == <<logging, metricsVars, logVars, up, starts, todo, stamp, view>>

Counting == <<"count", "sum", "push">>
Logging  == IF logging THEN <<"stamp", "rotate", "write">> ELSE <<>>

\* Mutant: a sample is in the window before it is in the totals.
CourseOfWindow(r) == IF r \in Streams THEN <<"push", "count", "sum">> \o Logging
                                      ELSE Logging \o <<"push", "count", "sum">>

\* proxy.rs: inc_requests and record, then Done goes on to the emitter and is
\* logged.  Whole responses: log, inc_requests, record.
Course(r) == IF r \in Streams THEN Counting \o Logging ELSE Logging \o Counting

\* The order in which the routes read what they show.  /health and stats come to
\* the totals last, /metrics begins with them.
Plan(route) ==
  CASE route = "stats"   -> <<"tokens", "reasons", "total", "generated">>
    [] route = "health"  -> <<"reasons", "total", "generated">>
    [] route = "metrics" -> <<"total", "generated", "reasons">>

Routes == {"stats", "health", "metrics"}

NoView == [route |-> "none", left |-> <<>>, tokens |-> 0, reasons |-> 0, total |-> 0, generated |-> 0]

TypeOK ==
  /\ total \in Nat /\ generated \in Nat
  /\ recent \in Seq([tokens : Nat, speed : Nat, why : STRING]) /\ Len(recent) <= Window
  /\ today \in Days /\ current \in Days /\ oplog \subseteq Days
  /\ file \in [Days -> Seq(Reqs \X {"text", "end"})] /\ buffer \in Seq(Reqs \X {"text", "end"})
  /\ logging \in BOOLEAN /\ up \in BOOLEAN /\ starts \in 1 .. MaxStarts
  /\ todo \in [Reqs -> Seq({"count", "sum", "push", "stamp", "rotate", "write"})]
  /\ stamp \in [Reqs -> Days]

-----------------------------------------------------------------------------
(* Requests.                                                               *)

At(r, step) == up /\ todo[r] # <<>> /\ Head(todo[r]) = step
Onward(r)   == todo' = [todo EXCEPT ![r] = Tail(@)]

Count(r) ==
  /\ At(r, "count") /\ Onward(r) /\ IncRequests
  /\ UNCHANGED <<logging, generated, recent, logVars, up, starts, stamp, view>>

Sum(r) ==
  /\ At(r, "sum") /\ Onward(r) /\ AddTokens(Sample[r])
  /\ UNCHANGED <<logging, total, recent, logVars, up, starts, stamp, view>>

PushSample(r) ==
  /\ At(r, "push") /\ Onward(r) /\ PushRecent(Sample[r])
  /\ UNCHANGED <<logging, total, generated, logVars, up, starts, stamp, view>>

\* now_iso8601, before the logger is called.
Stamp(r) ==
  /\ At(r, "stamp") /\ Onward(r)
  /\ stamp' = [stamp EXCEPT ![r] = today]
  /\ UNCHANGED <<logging, metricsVars, logVars, up, starts, view>>

\* The logger's lock is held from the look at the date to the flush.
Locked == \E r \in Reqs : At(r, "write")

LockAndRotate(r) ==
  /\ At(r, "rotate") /\ ~Locked /\ Onward(r)
  /\ IF today = current THEN UNCHANGED <<current, buffer, file>> ELSE Rotate
  /\ UNCHANGED <<logging, metricsVars, today, oplog, up, starts, stamp, view>>

\* Mutant: the entry goes to the file that is open.
RotateFailsAndWrites(r) ==
  /\ At(r, "rotate") /\ ~Locked /\ today # current
  /\ Onward(r)
  /\ UNCHANGED <<logging, metricsVars, logVars, up, starts, stamp, view>>

\* The file of the day cannot be opened: the entry is dropped.
RotateFails(r) ==
  /\ At(r, "rotate") /\ ~Locked /\ today # current
  /\ todo' = [todo EXCEPT ![r] = Tail(Tail(@))]
  /\ UNCHANGED <<logging, metricsVars, logVars, up, starts, stamp, view>>

WriteAndUnlock(r) ==
  /\ At(r, "write") /\ Onward(r)
  /\ Write(r) \/ WriteFails(r)
  /\ UNCHANGED <<logging, metricsVars, today, current, oplog, up, starts, stamp, view>>

\* The client has gone: an emitter ends before it logs, and the handler of a
\* whole response is dropped where it waits for the window's lock.
Abandon(r) ==
  /\ At(r, IF r \in Streams THEN "stamp" ELSE "push")
  /\ todo' = [todo EXCEPT ![r] = <<>>]
  /\ UNCHANGED <<logging, metricsVars, logVars, up, starts, stamp, view>>

-----------------------------------------------------------------------------
(* The observability routes.                                               *)

\* Bound: nobody reads while the log is on.  A reader changes nothing, and what it
\* reads the log does not touch.
Scrape(route) ==
  /\ ~logging
  /\ up /\ view.left = <<>>
  /\ view' = [NoView EXCEPT !.route = route, !.left = Plan(route)]
  /\ UNCHANGED <<logging, metricsVars, logVars, up, starts, todo, stamp>>

\* Each value is read by itself, under the window's lock or as an atomic.
Look ==
  /\ up /\ view.left # <<>>
  /\ LET what  == Head(view.left)
         shown == CASE what = "tokens"    -> RecentTokens
                    [] what = "reasons"   -> FinishReasons["stop"] + FinishReasons["length"]
                                             + FinishReasons["tool_calls"]
                    [] what = "total"     -> total
                    [] what = "generated" -> generated
     IN  view' = [view EXCEPT ![what] = shown, !.left = Tail(@)]
  /\ UNCHANGED <<logging, metricsVars, logVars, up, starts, todo, stamp>>

-----------------------------------------------------------------------------
(* The process and the calendar.                                           *)

Midnight ==
  /\ today < LastDay /\ today' = today + 1
  /\ oplog' = IF up THEN oplog \cup {today + 1} ELSE oplog
  /\ UNCHANGED <<logging, metricsVars, current, buffer, file, up, starts, todo, stamp, view>>

\* The process is stopped, or crashes; what its requests had before them is lost.
Stop ==
  /\ up /\ up' = FALSE
  /\ Close
  /\ todo' = [r \in Reqs |-> IF todo[r] = Course(r) THEN todo[r] ELSE <<>>]
  /\ view' = NoView
  /\ UNCHANGED <<logging, metricsVars, today, current, oplog, starts, stamp>>

Start ==
  /\ ~up /\ up' = TRUE
  /\ starts < MaxStarts /\ starts' = starts + 1
  /\ Sweep /\ Open
  /\ total' = 0 /\ generated' = 0 /\ recent' = <<>>
  /\ UNCHANGED <<logging, today, buffer, todo, stamp, view>>

-----------------------------------------------------------------------------
Init ==
  /\ MetricsStart
  /\ today = 0 /\ current = 0 /\ oplog = {0}
  /\ buffer = <<>> /\ file = [day \in Days |-> <<>>]
  /\ logging \in BOOLEAN
  /\ up = TRUE /\ starts = 1
  /\ todo = [r \in Reqs |-> Course(r)] /\ stamp = [r \in Reqs |-> 0]
  /\ view = NoView

Next ==
  \/ \E r \in Reqs :
       Count(r) \/ Sum(r) \/ PushSample(r) \/ Stamp(r)
       \/ LockAndRotate(r) \/ RotateFails(r) \/ WriteAndUnlock(r) \/ Abandon(r)
  \/ \E route \in Routes : Scrape(route)
  \/ Look \/ Midnight \/ Stop \/ Start

Spec == Init /\ [][Next]_vars

-----------------------------------------------------------------------------
(* Properties.                                                             *)

\* What /health and /v1/admin/stats show of the latest requests, their totals
\* cover: a request is counted before it is in the window, and they read the
\* window first (metrics.rs:87, routes/metrics.rs:31 and 239).
TotalsCoverWindow ==
  view.route \in {"health", "stats"} /\ view.left = <<>> =>
    view.reasons <= view.total /\ view.tokens <= view.generated

\* A percentile has at least its share of the window at or below it, and no
\* more than its share below (metrics.rs:159).
PercentilesRank ==
  recent # <<>> =>
    \A pct \in {50, 95, 99} :
      LET v == Percentile(pct)
      IN  /\ 100 * Cardinality({i \in DOMAIN recent : recent[i].speed <= v}) >= pct * Len(recent)
          /\ 100 * Cardinality({i \in DOMAIN recent : recent[i].speed < v}) <= pct * Len(recent)

Pieces(day) == ToSet(file[day])

\* An entry is written once, in the file of one day, and what there is of it is
\* in one place: a failed write can tear a line, but no other line gets into it
\* and no rest of it turns up elsewhere (conversation_log.rs:124).
EntriesIntact ==
  /\ \A d, e \in Days : d # e => Pieces(d) \cap Pieces(e) = {}
  /\ \A d \in Days :
       /\ IsInjective(file[d])
       /\ \A i \in DOMAIN file[d], r \in Reqs :
            file[d][i] = <<r, "end">> => i > 1 /\ file[d][i - 1] = <<r, "text">>

\* No entry is in the file of a day before its own time stamp, however long it
\* waits for the lock and whatever fails at midnight (conversation_log.rs:113).
NeverInThePast ==
  \A d \in Days, r \in Reqs : <<r, "text">> \in Pieces(d) => stamp[r] <= d

\* What has reached the file of a day stays there until the retention is over,
\* through rotations, failed writes, crashes and restarts (conversation_log.rs:161,
\* main.rs:505).
HistoryKept ==
  [][\A d \in Days : Retention = 0 \/ d > today - Retention => IsPrefix(file[d], file'[d])]_vars

-----------------------------------------------------------------------------
(* What documents say, and the code does not do.                           *)

\* "Conversation files share the same log_retention_days cleanup sweep"
\* (README.md:371).
ConversationsSwept ==
  [][starts' > starts /\ Retention > 0 => \A d \in Days : d < today - Retention => file'[d] = <<>>]_vars

\* One JSON line per completed exchange (conversation_log.rs:1): the text of an
\* entry is followed by its end, if anything is.
LinesWhole ==
  \A d \in Days : \A i \in 1 .. Len(file[d]) - 1 :
    file[d][i][2] = "text" => file[d][i + 1] = <<file[d][i][1], "end">>

\* "total_requests" next to the finish reasons in one answer of /metrics: the
\* first was read before the second (routes/metrics.rs:99).
MetricsCoverWindow ==
  view.route = "metrics" /\ view.left = <<>> => view.reasons <= view.total
=============================================================================
