--------------------------- MODULE ConversationLog ---------------------------
(***************************************************************************)
(* ConversationLogger (conversation_log.rs) and the start-up sweep of the  *)
(* log directory (cleanup_old_logs, main.rs).                              *)
(*                                                                         *)
(* One file per day, opened for appending.  Between log() and the file is  *)
(* a BufWriter: a write or a flush that fails leaves part of a line on     *)
(* disk and part of it in the buffer, or nowhere.  A line is two pieces,   *)
(* its text and its end.                                                   *)
(***************************************************************************)
EXTENDS Integers, Sequences, FiniteSets, SequencesExt

CONSTANTS
  LastDay,    \* bound: days the clock runs through
  Retention   \* log_retention_days

ASSUME LogAssumption == LastDay \in Nat /\ Retention \in Nat

Days == 0 .. LastDay

VARIABLES
  today,    \* the calendar
  current,  \* LoggerInner.current_date
  buffer,   \* LoggerInner.writer: pieces not yet in the file
  file,     \* conversations.<day>.jsonl: pieces
  oplog     \* the days of which turboquant.<day>.log exists

logVars == <<today, current, buffer, file, oplog>>

Line(r) == <<<<r, "text">>, <<r, "end">>>>

Put(f, day, pieces) == [f EXCEPT ![day] = @ \o pieces]

\* The first n pieces of s, and the others.
First(s, n) == SubSeq(s, 1, n)
After(s, n) == SubSeq(s, n + 1, Len(s))

-----------------------------------------------------------------------------
(* log, under the lock: first the date, then the line.                     *)

\* Mutant: the writer is kept and with it what the last day left in it.
KeepsWriter ==
  /\ current' = today
  /\ UNCHANGED <<buffer, file>>

\* The file of the day is opened and replaces the writer; the old one is
\* dropped, which flushes it as far as that goes.
Rotate ==
  /\ current' = today
  /\ \E n \in 0 .. Len(buffer) : file' = Put(file, current, First(buffer, n))
  /\ buffer' = <<>>

\* The line, and what was left before it, goes to the file.  When the flush
\* fails half-way, the rest stays in the buffer.
Write(r) ==
  LET pieces == buffer \o Line(r)
  IN  \E n \in 0 .. Len(pieces) :
        /\ file' = Put(file, current, First(pieces, n))
        /\ buffer' = After(pieces, n)

\* A line too long for the buffer is written straight through, after the
\* buffer: what fails of it is lost, and what fails before it stays.
WriteFails(r) ==
  LET pieces == buffer \o Line(r)
  IN  \E n \in 0 .. Len(pieces) - 1 :
        /\ file' = Put(file, current, First(pieces, n))
        /\ buffer' = After(buffer, n)

-----------------------------------------------------------------------------
(* Start and end of the process, and midnight.                             *)

\* cleanup_old_logs: files are told by their name and the day they were last
\* written; on the day the retention ends the hour decides, and a file that
\* cannot be removed stays.
Sweepable(day) == Retention > 0 /\ day <= today - Retention

\* Only names turboquant*.log are looked at; then the day's file is opened.
Sweep ==
  \E gone \in SUBSET {day \in oplog : Sweepable(day)} :
    oplog' = (oplog \ gone) \cup {today}

\* Mutant: the file is opened for writing and not for appending.
OpenTruncates ==
  /\ current' = today
  /\ file' = [file EXCEPT ![today] = <<>>]

\* ConversationLogger::new opens the file of the day, as it stands.
Open ==
  /\ current' = today
  /\ UNCHANGED file

\* The process ends: the buffer is flushed on the way out, or it is lost.
Close ==
  /\ \E n \in 0 .. Len(buffer) : file' = Put(file, current, First(buffer, n))
  /\ buffer' = <<>>

=============================================================================
