---------------------------- MODULE AuthService -----------------------------
(***************************************************************************)
(* The thread pool of Utils/AuthService.cpp that asks session-server about *)
(* tokens: a queue under m_mutex, the condition variable m_cv, the workers *)
(* and Stop().  RoomServer relies on it for one callback per C_LOGIN.      *)
(*                                                                         *)
(* A worker holds m_mutex from evaluating the predicate of m_cv.wait until *)
(* it is on the wait list ("parking").  Stop() writes m_running, which the *)
(* predicate reads, and notifies, without taking m_mutex.                  *)
(***************************************************************************)
EXTENDS Integers, Sequences, FiniteSets

CONSTANTS
    Workers,   \* auth_worker_count threads
    Requests   \* the tokens that are to be validated

ASSUME WorkersExist == Workers # {} /\ IsFiniteSet(Workers)

VARIABLES
    queue,     \* m_queue
    asked,     \* requests ValidateAsync has been called for
    answered,  \* requests whose callback has run
    signals,   \* calls of ValidateAsync between the push and notify_one
    running,   \* m_running
    stopping,  \* how far Stop() is; before it, "thrown" when Start() has failed
    at,        \* where each worker is in WorkerLoop
    job        \* the job each worker took last (only read while it is serving)

vars == <<queue, asked, answered, signals, running, stopping, at, job>>

Places == {"loop",     \* about to lock m_mutex and look at the predicate
           "parking",  \* has found it false, holds m_mutex
           "waiting",  \* blocked in m_cv
           "serving",  \* asking session-server and running the callback
           "done"}     \* has left WorkerLoop

\* The constructor: not started.
Init ==
    /\ queue = <<>>
    /\ asked = {} /\ answered = {}
    /\ signals = 0
    /\ running = FALSE /\ stopping = "no"
    /\ at = [w \in Workers |-> "done"]
    /\ job \in [Workers -> Requests]

Locked  == \E w \in Workers : at[w] = "parking"
Waiting == {w \in Workers : at[w] = "waiting"}

----------------------------------------------------------------------------
\* m_running is set and the workers are created.  The server starts it once.
Start ==
    /\ ~running /\ stopping = "no"
    /\ running' = TRUE /\ at' = [w \in Workers |-> "loop"]
    /\ UNCHANGED <<queue, asked, answered, signals, stopping, job>>

\* Only the workers in ws have been created when a std::thread cannot be: the exception
\* leaves Start(), and m_running stays set.
StartThrowsAfter(ws) ==
    /\ ~running /\ stopping = "no" /\ ws # Workers
    /\ running' = TRUE /\ stopping' = "thrown"
    /\ at' = [w \in Workers |-> IF w \in ws THEN "loop" ELSE at[w]]
    /\ UNCHANGED <<queue, asked, answered, signals, job>>

\* The callers are IOCP workers, which get no client unless Start() has returned, and
\* have been joined when Stop() is called.
ValidateAsync(q) ==
    /\ running /\ stopping # "thrown" /\ q \notin asked
    /\ ~Locked
    /\ queue' = Append(queue, q)
    /\ asked' = asked \cup {q}
    /\ signals' = signals + 1
    /\ UNCHANGED <<answered, running, stopping, at, job>>

\* Mutant of NotifyOne: the condition variable is signalled for nobody.
NotifyNobody ==
    /\ signals > 0
    /\ signals' = signals - 1
    /\ UNCHANGED <<queue, asked, answered, running, stopping, at, job>>

\* notify_one, after m_mutex has been released.
NotifyOne ==
    /\ signals > 0
    /\ signals' = signals - 1
    /\ \/ Waiting = {} /\ UNCHANGED at
       \/ \E w \in Waiting : at' = [at EXCEPT ![w] = "loop"]
    /\ UNCHANGED <<queue, asked, answered, running, stopping, job>>

\* A worker that got m_mutex finds nothing to do ...
WorkerWaits(w) ==
    /\ at[w] = "loop" /\ ~Locked
    /\ queue = <<>> /\ running
    /\ at' = [at EXCEPT ![w] = "parking"]
    /\ UNCHANGED <<queue, asked, answered, signals, running, stopping, job>>

\* ... and blocks, releasing m_mutex.
WorkerParks(w) ==
    /\ at[w] = "parking"
    /\ at' = [at EXCEPT ![w] = "waiting"]
    /\ UNCHANGED <<queue, asked, answered, signals, running, stopping, job>>

\* m_cv.wait may return for no reason.
SpuriousWakeup(w) ==
    /\ at[w] = "waiting"
    /\ at' = [at EXCEPT ![w] = "loop"]
    /\ UNCHANGED <<queue, asked, answered, signals, running, stopping, job>>

\* Mutant of WorkerTakes: the job is copied from the front and not popped.
TakesWithoutPop(w) ==
    /\ at[w] = "loop" /\ ~Locked
    /\ queue # <<>>
    /\ job' = [job EXCEPT ![w] = Head(queue)]
    /\ at' = [at EXCEPT ![w] = "serving"]
    /\ UNCHANGED <<queue, asked, answered, signals, running, stopping>>

WorkerTakes(w) ==
    /\ at[w] = "loop" /\ ~Locked
    /\ queue # <<>>
    /\ job' = [job EXCEPT ![w] = Head(queue)]
    /\ queue' = Tail(queue)
    /\ at' = [at EXCEPT ![w] = "serving"]
    /\ UNCHANGED <<asked, answered, signals, running, stopping>>

\* Mutant of WorkerExits: m_running is tested and the queue is not.
ExitsAtOnce(w) ==
    /\ at[w] = "loop" /\ ~Locked
    /\ ~running
    /\ at' = [at EXCEPT ![w] = "done"]
    /\ UNCHANGED <<queue, asked, answered, signals, running, stopping, job>>

WorkerExits(w) ==
    /\ at[w] = "loop" /\ ~Locked
    /\ queue = <<>> /\ ~running
    /\ at' = [at EXCEPT ![w] = "done"]
    /\ UNCHANGED <<queue, asked, answered, signals, running, stopping, job>>

\* HttpClient::Get returns, with an answer or a failure, and job.cb is called.
WorkerAnswers(w) ==
    /\ at[w] = "serving"
    /\ answered' = answered \cup {job[w]}
    /\ at' = [at EXCEPT ![w] = "loop"]
    /\ UNCHANGED <<queue, asked, signals, running, stopping, job>>

\* Stop(): m_running.exchange(false), ...
StopFlags ==
    /\ running /\ signals = 0
    /\ running' = FALSE /\ stopping' = "flagged"
    /\ UNCHANGED <<queue, asked, answered, signals, at, job>>

\* ... notify_all, ...
StopNotifies ==
    /\ stopping = "flagged"
    /\ stopping' = "joining"
    /\ at' = [w \in Workers |-> IF w \in Waiting THEN "loop" ELSE at[w]]
    /\ UNCHANGED <<queue, asked, answered, signals, running, job>>

\* ... and the joins.
StopJoins ==
    /\ stopping = "joining"
    /\ \A w \in Workers : at[w] = "done"
    /\ stopping' = "stopped"
    /\ UNCHANGED <<queue, asked, answered, signals, running, at, job>>

----------------------------------------------------------------------------
WorkerStep(w) ==
    WorkerWaits(w) \/ WorkerParks(w) \/ WorkerTakes(w) \/ WorkerExits(w) \/ WorkerAnswers(w)

Next ==
    \/ Start \/ \E ws \in SUBSET Workers : StartThrowsAfter(ws)
    \/ \E q \in Requests : ValidateAsync(q)
    \/ NotifyOne
    \/ \E w \in Workers : WorkerStep(w) \/ SpuriousWakeup(w)
    \/ StopFlags \/ StopNotifies \/ StopJoins

Spec == Init /\ [][Next]_vars

----------------------------------------------------------------------------
TypeOK ==
    /\ queue \in Seq(Requests)
    /\ asked \subseteq Requests /\ answered \subseteq Requests
    /\ signals \in Nat
    /\ running \in BOOLEAN
    /\ stopping \in {"no", "thrown", "flagged", "joining", "stopped"}
    /\ at \in [Workers -> Places]
    /\ job \in [Workers -> Requests]

Queued  == {queue[i] : i \in DOMAIN queue}
Serving == {w \in Workers : at[w] = "serving"}

\* A request is in one place only, so its callback cannot run twice: it waits
\* in the queue once, or one worker has it, or it has been answered.
OneCallbackEach ==
    /\ \A i, j \in DOMAIN queue : i # j => queue[i] # queue[j]
    /\ \A v, w \in Serving : v # w => job[v] # job[w]
    /\ \A w \in Serving : job[w] \notin Queued \cup answered
    /\ Queued \cap answered = {}

\* When Stop() returns, every validation that was asked for has been answered:
\* the workers leave only when the queue is empty.
StoppedDrained == stopping = "stopped" => asked \subseteq answered

Looping == {w \in Workers : at[w] = "loop"}

\* No worker sleeps over a job: while one is blocked in m_cv, there is, for every job
\* in the queue, a notify_one still to come or a worker on its way to the queue.  A
\* push cannot fall between a worker's look at the queue and its wait.
NoSleepWhileQueued == Waiting # {} => Len(queue) <= signals + Cardinality(Looping)

\* Every validation is answered in the end, also one asked for just before
\* Stop(): the wakeup of ValidateAsync is never lost.
EveryRequestAnswered == \A q \in Requests : q \in asked ~> q \in answered

=============================================================================
