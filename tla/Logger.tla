------------------------------- MODULE Logger -------------------------------
(***************************************************************************)
(* The asynchronous logger of Utils/Logger.h: a queue under m_queueMutex,  *)
(* the thread that writes it out, and Shutdown().  A line is known by its  *)
(* number.  Every line is of level Info or higher, and nothing raises      *)
(* m_minLevel.                                                             *)
(*                                                                         *)
(* The worker holds m_queueMutex from evaluating the predicate of          *)
(* m_cv.wait until it is on the wait list ("parking"); Shutdown() clears   *)
(* m_running and notifies without it.                                      *)
(***************************************************************************)
EXTENDS Integers, Sequences

VARIABLES
    entries,     \* m_queue
    batch,       \* the lines the worker has taken
    lines,       \* lines pushed so far
    written,     \* lines written, in order
    logRunning,  \* m_running
    logAt,       \* where the worker is in WorkerLoop
    shutdown,    \* how far Shutdown() is
    flaggedAt    \* lines pushed when m_running was cleared

logVars == <<entries, batch, lines, written, logRunning, logAt, shutdown, flaggedAt>>

\* The constructor: m_running is set and the worker created.
Logger ==
    /\ entries = << >> /\ batch = << >> /\ lines = 0 /\ written = << >>
    /\ logRunning = TRUE /\ logAt = "loop"
    /\ shutdown = "no" /\ flaggedAt = 0

\* The push and, after the unlock, notify_one: what the worker does in between is
\* what it would do right before or after.
Log ==
    /\ logAt # "parking"
    /\ lines' = lines + 1
    /\ entries' = Append(entries, lines')
    /\ logAt' = IF logAt = "waiting" THEN "loop" ELSE logAt
    /\ UNCHANGED <<batch, written, logRunning, shutdown, flaggedAt>>

----------------------------------------------------------------------------
(* WorkerLoop.                                                              *)

Moves(from, to) ==
    /\ logAt = from /\ logAt' = to
    /\ UNCHANGED <<entries, batch, lines, written, logRunning, shutdown, flaggedAt>>

\* Mutant of LogWaits: the predicate does not look at m_running.
WaitsWhileEmpty == entries = << >> /\ Moves("loop", "parking")

LogWaits == entries = << >> /\ logRunning /\ Moves("loop", "parking")
LogParks == Moves("parking", "waiting")
LogWakes == Moves("waiting", "loop")           \* a spurious wakeup

LogSwaps ==
    /\ logAt = "loop" /\ (entries # << >> \/ ~logRunning)
    /\ batch' = entries /\ entries' = << >>
    /\ logAt' = "writing"
    /\ UNCHANGED <<lines, written, logRunning, shutdown, flaggedAt>>

LogWrites ==
    /\ logAt = "writing" /\ batch # << >>
    /\ written' = Append(written, Head(batch))
    /\ batch' = Tail(batch)
    /\ UNCHANGED <<entries, lines, logRunning, logAt, shutdown, flaggedAt>>

\* Mutant of LogExits: the queue is not looked at once more.
ExitsUnchecked == batch = << >> /\ ~logRunning /\ Moves("writing", "done")

\* After a batch: on with the loop, or out of it when m_running is cleared and the
\* queue, looked at once more, is empty.
LogAgain == batch = << >> /\ (logRunning \/ entries # << >>) /\ Moves("writing", "loop")
LogExits == batch = << >> /\ ~logRunning /\ entries = << >> /\ Moves("writing", "done")

LogWorker == LogWaits \/ LogParks \/ LogSwaps \/ LogWrites \/ LogAgain \/ LogExits

----------------------------------------------------------------------------
(* Shutdown: m_running.exchange(false), notify_all, join.                   *)

ShutdownFlags ==
    /\ shutdown = "no"
    /\ logRunning' = FALSE /\ shutdown' = "flagged" /\ flaggedAt' = lines
    /\ UNCHANGED <<entries, batch, lines, written, logAt>>

ShutdownNotifies ==
    /\ shutdown = "flagged" /\ shutdown' = "joining"
    /\ logAt' = IF logAt = "waiting" THEN "loop" ELSE logAt
    /\ UNCHANGED <<entries, batch, lines, written, logRunning, flaggedAt>>

ShutdownJoins ==
    /\ shutdown = "joining" /\ logAt = "done" /\ shutdown' = "stopped"
    /\ UNCHANGED <<entries, batch, lines, written, logRunning, logAt, flaggedAt>>

----------------------------------------------------------------------------
\* Every line that is pushed is written once and in the order of the pushes, or is
\* still on its way; and when Shutdown() returns, what was pushed before it was
\* called has been written.
LinesKept ==
    /\ written \o batch \o entries = [i \in 1 .. lines |-> i]
    /\ shutdown = "stopped" => Len(written) >= flaggedAt
=============================================================================
