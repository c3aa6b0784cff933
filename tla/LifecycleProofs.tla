-------------------------- MODULE LifecycleProofs ---------------------------
(***************************************************************************)
(* The process as a whole, for every number of threads, requests and       *)
(* lines: each of its steps is a step of AuthService and a step of Logger, *)
(* or leaves them alone, so what they guarantee holds in it; and nobody    *)
(* uses what the destructor has taken away.                                *)
(***************************************************************************)
EXTENDS Lifecycle, AuthServiceProofs, SequenceTheorems

LogNext ==
    Log \/ LogWorker \/ LogWakes \/ ShutdownFlags \/ ShutdownNotifies \/ ShutdownJoins

----------------------------------------------------------------------------
(* The parts of a step.                                                     *)

LEMMA SaysLogs == Says => [LogNext]_logVars
  BY DEF Says, LogNext

LEMMA StartingSteps ==
    ASSUME StartingUp \/ InitFails \/ Throws \/ StopCalled
    PROVE  [Next]_vars /\ [LogNext]_logVars
  BY SaysLogs, Zenon DEF StartingUp, InitFails, Throws, AuthStartThrows, HealthStartThrows, StartThrows,
     StopCalled, StartAuth, StartHealth, Serve, StartReturns, StartThread, Next

LEMMA DestructorSteps ==
    ASSUME Destructor
    PROVE  [Next]_vars /\ [LogNext]_logVars
  BY SaysLogs, Zenon DEF Destructor, HealthStopFlags, HealthStopJoins, Stop, StopJoins3, CloseDown,
     AuthStopBegins, AuthStopGoesOn, AuthStopEnds, LogStop, DestroyMembers, Next, LogNext

LEMMA ThreadSteps ==
    ASSUME \/ \E x \in IOWorkers \cup Loops : ThreadEnds(x) \/ CallerJoins(x)
           \/ LoopLogs \/ HealthAccepts \/ HealthAnswers \/ HealthEnds
           \/ (\E q \in Requests : Login(q)) \/ LoginNotifies
           \/ (\E w \in Workers : AuthWorker(w)) \/ Spurious \/ LogThread
    PROVE  [Next]_vars /\ [LogNext]_logVars
  BY Zenon DEF ThreadEnds, WorkerThreadEnds, LoopEnds, CallerJoins, LoopLogs, HealthAccepts, HealthAnswers,
     HealthEnds, Login, LoginNotifies, AuthWorker, Spurious, LogThread, Next, LogNext, coreVars

LEMMA StepsCompose == [LifeNext]_lifeVars => [Next]_vars /\ [LogNext]_logVars
  <1>1. UNCHANGED lifeVars => UNCHANGED vars /\ UNCHANGED logVars
    BY DEF lifeVars
  <1> QED
    BY <1>1, StartingSteps, DestructorSteps, ThreadSteps, Zenon DEF LifeNext

\* In the running server AuthService does what it does on its own: everybody else
\* only calls its operations, in the order its specification expects.
THEOREM ComposesAuthService == LifeSpec => Spec
  <1>1. LifeInit => Init
    BY DEF LifeInit
  <1>2. [LifeNext]_lifeVars => [Next]_vars
    BY StepsCompose
  <1> QED
    BY <1>1, <1>2, PTL DEF LifeSpec, Spec

\* The callback of a C_LOGIN runs at most once, whatever main() is doing.
THEOREM LoginAnsweredOnce == LifeSpec => []OneCallbackEach
  BY ComposesAuthService, CallbackOnce, PTL

\* The destructor gets past AuthService::Stop only when every login is answered.
THEOREM LoginsDrained == LifeSpec => []StoppedDrained
  BY ComposesAuthService, StopDrains, PTL

\* No login waits in the queue while a worker sleeps that nobody is going to wake.
THEOREM LoginsWakeWorkers == LifeSpec => []NoSleepWhileQueued
  BY ComposesAuthService, NoWakeupLost, PTL

----------------------------------------------------------------------------
(* Logger.                                                                  *)

LogTypes ==
    /\ entries \in Seq(Nat) /\ batch \in Seq(Nat) /\ written \in Seq(Nat)
    /\ lines \in Nat /\ flaggedAt \in Nat

\* A batch is only around while it is written; the worker leaves when what was
\* pushed before the flag was cleared is written.
LogOrder ==
    /\ logAt # "writing" => batch = << >>
    /\ flaggedAt <= lines
    /\ shutdown = "no" => logRunning
    /\ logAt = "done" => shutdown # "no" /\ Len(written) >= flaggedAt

LogInv == LogTypes /\ LogOrder /\ LinesKept

LEMMA HeadMoves ==
    ASSUME NEW w \in Seq(Nat), NEW b \in Seq(Nat), b # << >>
    PROVE  /\ Append(w, Head(b)) \in Seq(Nat) /\ Tail(b) \in Seq(Nat)
           /\ Len(Append(w, Head(b))) = Len(w) + 1
           /\ Append(w, Head(b)) \o Tail(b) = w \o b
  <1>1. Head(b) \in Nat /\ Tail(b) \in Seq(Nat)
    BY HeadTailProperties
  <1>2. Append(w, Head(b)) = w \o <<Head(b)>> /\ <<Head(b)>> \in Seq(Nat)
    BY <1>1, AppendIsConcat
  <1>3. (w \o <<Head(b)>>) \o Tail(b) = w \o (<<Head(b)>> \o Tail(b))
    BY <1>1, <1>2, ConcatAssociative
  <1>4. <<Head(b)>> \o Tail(b) = b
    OBVIOUS
  <1>5. Append(w, Head(b)) \in Seq(Nat) /\ Len(Append(w, Head(b))) = Len(w) + 1
    BY <1>1, AppendProperties
  <1> QED
    BY <1>1, <1>2, <1>3, <1>4, <1>5

LEMMA NumbersAppend ==
    ASSUME NEW n \in Nat
    PROVE  Append([i \in 1 .. n |-> i], n + 1) = [i \in 1 .. n + 1 |-> i]
  <1>1. [i \in 1 .. n |-> i] \in Seq(Nat) /\ Len([i \in 1 .. n |-> i]) = n
    OBVIOUS
  <1>2. [i \in 1 .. n + 1 |-> i] \in Seq(Nat) /\ Len([i \in 1 .. n + 1 |-> i]) = n + 1
    OBVIOUS
  <1> QED
    BY <1>1, <1>2, SeqEqual

LEMMA LogInitInv == Logger => LogInv
  <1> SUFFICES ASSUME Logger PROVE LogInv
    OBVIOUS
  <1>1. LogTypes /\ LogOrder
    BY DEF Logger, LogTypes, LogOrder
  <1>2. << >> \o << >> \o << >> = [i \in 1 .. 0 |-> i]
    OBVIOUS
  <1> QED
    BY <1>1, <1>2 DEF Logger, LogInv, LinesKept

LEMMA LogPushes ==
    ASSUME LogInv, Log PROVE LogInv'
  <1> DEFINE w == written \o batch
  <1>1. /\ entries' = Append(entries, lines + 1) /\ lines' = lines + 1
        /\ UNCHANGED <<batch, written, logRunning, shutdown, flaggedAt>>
        /\ logAt' = "done" => logAt = "done"
        /\ logAt = "writing" <=> logAt' = "writing"
    BY DEF Log
  <1>2. LogTypes' /\ LogOrder'
    BY <1>1 DEF LogInv, LogTypes, LogOrder
  <1>3. w \in Seq(Nat) /\ entries \in Seq(Nat) /\ lines + 1 \in Nat
    BY DEF LogInv, LogTypes
  <1>4. w \o entries' = Append(w \o entries, lines + 1)
    <2>1. entries' = entries \o <<lines + 1>> /\ <<lines + 1>> \in Seq(Nat)
      BY <1>1, <1>3, AppendIsConcat
    <2>2. w \o entries \in Seq(Nat)
      BY <1>3, ConcatProperties
    <2>3. Append(w \o entries, lines + 1) = (w \o entries) \o <<lines + 1>>
      BY <1>3, <2>2, AppendIsConcat
    <2> HIDE DEF w
    <2>4. (w \o entries) \o <<lines + 1>> = w \o (entries \o <<lines + 1>>)
      BY <1>3, <2>1, ConcatAssociative
    <2> QED
      BY <2>1, <2>3, <2>4
  <1>5. w \o entries' = [i \in 1 .. lines + 1 |-> i]
    BY <1>4, NumbersAppend DEF LogInv, LinesKept, LogTypes
  <1> QED
    BY <1>1, <1>2, <1>5 DEF LogInv, LinesKept

LEMMA LogMoves ==
    ASSUME LogInv, LogWaits \/ LogParks \/ LogWakes \/ LogAgain \/ LogExits
    PROVE  LogInv'
  <1>1. /\ UNCHANGED <<entries, batch, lines, written, logRunning, shutdown, flaggedAt>>
        /\ logAt = "writing" => batch = << >>
        /\ logAt' # "writing" /\ logAt # "done"
        /\ logAt' = "done" => batch = << >> /\ entries = << >> /\ ~logRunning
    BY DEF LogWaits, LogParks, LogWakes, LogAgain, LogExits, Moves
  <1>2. logAt' = "done" => Len(written) = lines
    <2> SUFFICES ASSUME logAt' = "done" PROVE Len(written) = lines
      OBVIOUS
    <2>1. written \o << >> \o << >> = written
      BY DEF LogInv, LogTypes
    <2>2. written = [i \in 1 .. lines |-> i]
      BY <1>1, <2>1 DEF LogInv, LinesKept
    <2> QED
      BY <2>2 DEF LogInv, LogTypes
  <1> QED
    BY <1>1, <1>2 DEF LogInv, LogTypes, LogOrder, LinesKept

LEMMA LogNextInv == LogInv /\ [LogNext]_logVars => LogInv'
  <1> SUFFICES ASSUME LogInv, [LogNext]_logVars PROVE LogInv'
    OBVIOUS
  <1>1. CASE LogSwaps
    <2>1. batch = << >> /\ written \o entries \o << >> = written \o << >> \o entries
      BY <1>1 DEF LogSwaps, LogInv, LogTypes, LogOrder
    <2> QED
      BY <1>1, <2>1 DEF LogSwaps, LogInv, LogTypes, LogOrder, LinesKept
  <1>2. CASE LogWrites
    <2>1. /\ batch \in Seq(Nat) /\ batch # << >> /\ written \in Seq(Nat)
          /\ written' = Append(written, Head(batch)) /\ batch' = Tail(batch)
          /\ UNCHANGED <<entries, lines, logRunning, logAt, shutdown, flaggedAt>>
          /\ logAt = "writing"
      BY <1>2 DEF LogWrites, LogInv, LogTypes
    <2>2. /\ written' \in Seq(Nat) /\ batch' \in Seq(Nat) /\ Len(written') = Len(written) + 1
          /\ written' \o batch' = written \o batch
      BY <2>1, HeadMoves
    <2>3. Len(written) \in Nat
      BY <2>1
    <2>4. LogTypes'
      BY <2>1, <2>2 DEF LogInv, LogTypes
    <2>5. LogOrder'
      BY <2>1, <2>2, <2>3 DEF LogInv, LogTypes, LogOrder
    <2>6. written' \o batch' \o entries' = [i \in 1 .. lines' |-> i]
      BY <2>1, <2>2 DEF LogInv, LinesKept
    <2>7. shutdown' = "stopped" => Len(written') >= flaggedAt'
      BY <2>1, <2>2, <2>3 DEF LogInv, LogTypes, LinesKept
    <2> QED
      BY <2>4, <2>5, <2>6, <2>7 DEF LogInv, LinesKept
  <1>3. CASE ShutdownFlags \/ ShutdownNotifies \/ ShutdownJoins \/ UNCHANGED logVars
    <2>1. LogTypes' /\ UNCHANGED <<entries, batch, lines, written>>
      BY <1>3 DEF ShutdownFlags, ShutdownNotifies, ShutdownJoins, logVars, LogInv, LogTypes
    <2>2. LogOrder'
      BY <1>3 DEF ShutdownFlags, ShutdownNotifies, ShutdownJoins, logVars, LogInv, LogTypes, LogOrder
    <2>3. shutdown' = "stopped" => Len(written') >= flaggedAt'
      BY <1>3 DEF ShutdownFlags, ShutdownNotifies, ShutdownJoins, logVars, LogInv, LogOrder, LinesKept
    <2> QED
      BY <2>1, <2>2, <2>3 DEF LogInv, LinesKept
  <1> QED
    BY <1>1, <1>2, <1>3, LogPushes, LogMoves DEF LogNext, LogWorker

\* No line is lost, written twice or out of order, and Shutdown() returns only when
\* the lines pushed before it are written, whoever logs and whenever.
THEOREM NoLineLost == LifeSpec => []LinesKept
  <1>1. LifeInit => LogInv
    BY LogInitInv DEF LifeInit
  <1>2. LogInv /\ [LifeNext]_lifeVars => LogInv'
    BY StepsCompose, LogNextInv
  <1>3. LogInv => LinesKept
    BY DEF LogInv
  <1> QED
    BY <1>1, <1>2, <1>3, PTL DEF LifeSpec

----------------------------------------------------------------------------
(* The destructor.                                                          *)

AfterAuth   == {"stop log", "members", "exited", "terminated"}
AfterHealth == {"stop core", "join loops", "join registry", "stop auth"} \cup AfterAuth

\* What is joined stays ended, and a thread that runs has not been joined.
DownOrder ==
    /\ phase \in AfterHealth => health \in {"off", "done"}
    /\ phase \in AfterAuth => \A w \in Workers : at[w] = "done"
    /\ alive \subseteq joinable
    /\ phase = "exited" => joinable = {}

LEMMA StartingDown ==
    ASSUME DownOrder, StartingUp \/ InitFails \/ Throws \/ StopCalled
    PROVE  DownOrder'
  BY DEF DownOrder, AfterAuth, AfterHealth, StartingUp, InitFails, Throws, AuthStartThrows,
         HealthStartThrows, StartThrows, StopCalled, StartAuth, StartHealth, Serve, StartReturns, StartThread

LEMMA DestructorDown ==
    ASSUME IInv, DownOrder, Destructor
    PROVE  DownOrder'
  <1>1. CASE HealthStopFlags \/ HealthStopJoins \/ Stop \/ StopJoins3 \/ CloseDown
    <2>1. UNCHANGED at /\ phase \notin AfterAuth /\ phase' \notin AfterAuth
      BY <1>1 DEF HealthStopFlags, HealthStopJoins, Stop, StopJoins3, CloseDown, vars, AfterAuth
    <2>2. phase' \in AfterHealth => health' \in {"off", "done"}
      BY <1>1 DEF HealthStopFlags, HealthStopJoins, Stop, StopJoins3, CloseDown, DownOrder, AfterHealth,
                  AfterAuth
    <2>3. alive' \subseteq joinable'
      BY <1>1 DEF HealthStopFlags, HealthStopJoins, Stop, StopJoins3, CloseDown, DownOrder, AfterAuth
    <2> QED
      BY <2>1, <2>2, <2>3 DEF DownOrder, AfterAuth
  <1>2. CASE AuthStopBegins
    <2>1. phase = "stop auth" /\ UNCHANGED <<alive, joinable, health>>
          /\ \/ phase' = "stop auth"
             \/ phase' = "stop log" /\ UNCHANGED at /\ ~running /\ stopping = "no"
      BY <1>2 DEF AuthStopBegins, vars
    <2> QED
      BY <2>1 DEF DownOrder, AfterAuth, AfterHealth, IInv, LeavesLast
  <1>3. CASE AuthStopGoesOn
    <2>1. UNCHANGED <<phase, alive, joinable, health>>
          /\ at' = [w \in Workers |-> IF w \in Waiting THEN "loop" ELSE at[w]]
      BY <1>3 DEF AuthStopGoesOn, StopNotifies, coreVars
    <2> QED
      BY <2>1 DEF DownOrder, Waiting
  <1>4. CASE AuthStopEnds
    <2>1. phase = "stop auth" /\ phase' = "stop log" /\ UNCHANGED <<at, alive, joinable, health>>
          /\ \A w \in Workers : at[w] = "done"
      BY <1>4 DEF AuthStopEnds, StopJoins
    <2> QED
      BY <2>1 DEF DownOrder, AfterAuth, AfterHealth
  <1>5. CASE LogStop \/ DestroyMembers
    <2>1. /\ phase \in AfterAuth /\ UNCHANGED <<at, alive, joinable, health>>
          /\ phase' = "exited" => phase = "exited" \/ joinable = {}
      BY <1>5 DEF LogStop, DestroyMembers, vars, AfterAuth
    <2> QED
      BY <2>1 DEF DownOrder, AfterHealth
  <1> QED
    BY <1>1, <1>2, <1>3, <1>4, <1>5 DEF Destructor

LEMMA ThreadDown ==
    ASSUME IInv, DownOrder, Running,
           \/ \E x \in IOWorkers \cup Loops : ThreadEnds(x) \/ CallerJoins(x)
           \/ LoopLogs \/ HealthAccepts \/ HealthAnswers \/ HealthEnds
           \/ (\E q \in Requests : Login(q)) \/ LoginNotifies
           \/ (\E w \in Workers : AuthWorker(w)) \/ Spurious \/ LogThread
    PROVE  DownOrder'
  <1>1. CASE \E x \in IOWorkers \cup Loops : ThreadEnds(x) \/ CallerJoins(x)
    BY <1>1 DEF ThreadEnds, WorkerThreadEnds, LoopEnds, CallerJoins, DownOrder, vars, Running
  <1>2. CASE LoopLogs \/ LogThread
    BY <1>2 DEF LoopLogs, LogThread, DownOrder, vars, coreVars
  <1>3. CASE HealthAccepts \/ HealthAnswers \/ HealthEnds
    BY <1>3 DEF HealthAccepts, HealthAnswers, HealthEnds, DownOrder, vars
  <1>4. CASE \E q \in Requests : Login(q)
    BY <1>4 DEF Login, ValidateAsync, DownOrder, coreVars
  <1>5. CASE LoginNotifies \/ (\E w \in Workers : AuthWorker(w)) \/ Spurious
    <2>1. UNCHANGED <<phase, alive, joinable, health>>
      BY <1>5 DEF LoginNotifies, AuthWorker, Spurious, coreVars
    <2>2. ASSUME \A w \in Workers : at[w] = "done" PROVE UNCHANGED at
      BY <1>5, <2>2 DEF LoginNotifies, NotifyOne, Waiting, AuthWorker, WorkerStep, WorkerWaits,
         WorkerParks, WorkerTakes, WorkerExits, WorkerAnswers, Spurious, SpuriousWakeup, vars
    <2> QED
      BY <2>1, <2>2 DEF DownOrder
  <1> QED
    BY <1>1, <1>2, <1>3, <1>4, <1>5

\* When ServerCore's members are destroyed, HealthServer is not in a callback and no
\* AuthService worker runs; a process that exits leaves no thread behind.
THEOREM NobodyOutlives == LifeSpec => []OutlivedByCore
  <1>1. LifeInit => DownOrder
    BY DEF LifeInit, DownOrder, AfterAuth, AfterHealth
  <1>2. ASSUME IInv, DownOrder, [LifeNext]_lifeVars PROVE DownOrder'
    <2>1. CASE UNCHANGED lifeVars
      BY <1>2, <2>1 DEF lifeVars, vars, coreVars, DownOrder
    <2>2. CASE LifeNext
      BY <1>2, <2>2, StartingDown, DestructorDown, ThreadDown DEF LifeNext
    <2> QED
      BY <1>2, <2>1, <2>2
  <1>3. DownOrder => OutlivedByCore
    BY DEF DownOrder, OutlivedByCore, AfterAuth, AfterHealth
  <1>4. LifeSpec => []IInv
    BY ComposesAuthService, Invariance, PTL
  <1> QED
    BY <1>1, <1>2, <1>3, <1>4, PTL DEF LifeSpec

----------------------------------------------------------------------------
(* The threads that are left.                                               *)

Closed == {"stop auth", "stop log", "members", "exited", "terminated"}

\* Threads exist from Start() on and m_running is set while it creates them; once
\* clients have been served the workers are joined, and the others in their order.
JoinOrder ==
    /\ joinable \subseteq IOWorkers \cup Loops /\ core \in BOOLEAN /\ served \in BOOLEAN
    /\ phase \in {"init", "start health"} => joinable = {} /\ ~served
    /\ phase = "starting" => core /\ ~served
    /\ phase = "serving" => served
    /\ served /\ phase # "serving" => joinable \cap IOWorkers = {}
    /\ phase \in {"stop health", "join health", "stop core"} => served \/ core \/ joinable = {}
    /\ phase \in {"join registry"} \cup Closed => served \/ joinable \cap StopJoined = {}
    /\ phase \in Closed => "registry" \notin joinable
    /\ phase = "terminated" => joinable # {}

LEMMA StartingJoins ==
    ASSUME JoinOrder, StartingUp \/ InitFails \/ Throws \/ StopCalled
    PROVE  JoinOrder'
  <1>1. CASE StartAuth \/ InitFails \/ AuthStartThrows \/ HealthStartThrows
    <2>1. /\ phase \in {"init", "start health"} /\ phase' \in {"start health", "stop health"}
          /\ UNCHANGED <<core, served, joinable>>
      BY <1>1 DEF StartAuth, InitFails, AuthStartThrows, HealthStartThrows
    <2> QED
      BY <2>1 DEF JoinOrder, Closed
  <1>2. CASE StartHealth
    <2>1. /\ phase = "start health" /\ phase' = "starting" /\ core' = TRUE
          /\ UNCHANGED <<served, joinable>>
      BY <1>2 DEF StartHealth
    <2> QED
      BY <2>1 DEF JoinOrder, Closed
  <1>3. ASSUME NEW x \in IOWorkers \cup Loops, StartThread(x) PROVE JoinOrder'
    BY <1>3 DEF JoinOrder, Closed, StartThread
  <1>4. CASE StartThrows
    <2>1. phase = "starting" /\ phase' = "stop health" /\ UNCHANGED <<core, served, joinable>>
      BY <1>4 DEF StartThrows
    <2> QED
      BY <2>1 DEF JoinOrder, Closed
  <1>5. CASE Serve
    <2>1. phase' = "serving" /\ served' = TRUE /\ UNCHANGED <<core, joinable>>
      BY <1>5 DEF Serve
    <2> QED
      BY <2>1 DEF JoinOrder, Closed
  <1>6. CASE StartReturns
    <2>1. /\ phase = "serving" /\ phase' = "stop health" /\ joinable' = joinable \ IOWorkers
          /\ UNCHANGED <<core, served>>
      BY <1>6 DEF StartReturns
    <2>2. served
      BY <2>1 DEF JoinOrder
    <2> QED
      BY <2>1, <2>2 DEF JoinOrder, Closed
  <1>7. CASE StopCalled
    <2>1. phase = "serving" /\ core' = FALSE /\ UNCHANGED <<phase, served, joinable>>
      BY <1>7 DEF StopCalled
    <2> QED
      BY <2>1 DEF JoinOrder, Closed
  <1> QED
    BY <1>1, <1>2, <1>3, <1>4, <1>5, <1>6, <1>7 DEF StartingUp, Throws

LEMMA DestructorJoins ==
    ASSUME JoinOrder, Destructor
    PROVE  JoinOrder'
  <1>1. CASE HealthStopFlags \/ HealthStopJoins
    <2>1. /\ phase \in {"stop health", "join health"} /\ phase' \in {"join health", "stop core"}
          /\ UNCHANGED <<core, served, joinable>>
      BY <1>1 DEF HealthStopFlags, HealthStopJoins
    <2> QED
      BY <2>1 DEF JoinOrder, Closed
  <1>2. CASE Stop
    BY <1>2 DEF Stop, JoinOrder, Closed
  <1>3. CASE StopJoins3
    <2>1. /\ phase = "join loops" /\ phase' = "join registry" /\ joinable' = joinable \ StopJoined
          /\ UNCHANGED <<core, served>>
      BY <1>3 DEF StopJoins3
    <2> QED
      BY <2>1 DEF JoinOrder, Closed
  <1>4. CASE CloseDown
    <2>1. /\ phase = "join registry" /\ phase' = "stop auth" /\ joinable' = joinable \ {"registry"}
          /\ UNCHANGED <<core, served>>
      BY <1>4 DEF CloseDown
    <2> QED
      BY <2>1 DEF JoinOrder, Closed
  <1>5. CASE AuthStopBegins \/ AuthStopGoesOn \/ AuthStopEnds
    <2>1. /\ phase' = phase \/ (phase = "stop auth" /\ phase' = "stop log")
          /\ UNCHANGED <<core, served, joinable>>
      BY <1>5 DEF AuthStopBegins, AuthStopGoesOn, AuthStopEnds, coreVars
    <2> QED
      BY <2>1 DEF JoinOrder, Closed
  <1>6. CASE LogStop
    <2>1. /\ phase = "stop log" /\ phase' \in {"stop log", "members"}
          /\ UNCHANGED <<core, served, joinable>>
      BY <1>6 DEF LogStop
    <2> QED
      BY <2>1 DEF JoinOrder, Closed
  <1>7. CASE DestroyMembers
    <2>1. /\ phase = "members" /\ phase' = IF joinable = {} THEN "exited" ELSE "terminated"
          /\ UNCHANGED <<core, served, joinable>>
      BY <1>7 DEF DestroyMembers
    <2> QED
      BY <2>1 DEF JoinOrder, Closed
  <1> QED
    BY <1>1, <1>2, <1>3, <1>4, <1>5, <1>6, <1>7 DEF Destructor

LEMMA ThreadJoins ==
    ASSUME JoinOrder, Running,
           \/ \E x \in IOWorkers \cup Loops : ThreadEnds(x) \/ CallerJoins(x)
           \/ LoopLogs \/ HealthAccepts \/ HealthAnswers \/ HealthEnds
           \/ (\E q \in Requests : Login(q)) \/ LoginNotifies
           \/ (\E w \in Workers : AuthWorker(w)) \/ Spurious \/ LogThread
    PROVE  JoinOrder'
  <1>1. CASE \E x \in IOWorkers \cup Loops : ThreadEnds(x) \/ CallerJoins(x)
    <2>1. /\ UNCHANGED <<phase, core, served>> /\ joinable' \subseteq joinable
      BY <1>1 DEF ThreadEnds, WorkerThreadEnds, LoopEnds, CallerJoins
    <2> QED
      BY <2>1 DEF JoinOrder, Running
  <1>2. CASE ~(\E x \in IOWorkers \cup Loops : ThreadEnds(x) \/ CallerJoins(x))
    <2>1. UNCHANGED <<phase, core, served, joinable>>
      BY <1>2 DEF LoopLogs, HealthAccepts, HealthAnswers, HealthEnds, Login, LoginNotifies, AuthWorker,
         Spurious, LogThread, coreVars
    <2> QED
      BY <2>1 DEF JoinOrder
  <1> QED
    BY <1>1, <1>2

\* Only a Start() that throws or a late caller of Stop() ends the process with a
\* joinable std::thread, and each only with the threads it has to answer for.
THEOREM AbruptInTwoWays == LifeSpec => []AbruptEnd
  <1>1. LifeInit => JoinOrder
    BY DEF LifeInit, JoinOrder, Closed
  <1>2. ASSUME JoinOrder, [LifeNext]_lifeVars PROVE JoinOrder'
    <2>1. CASE UNCHANGED lifeVars
      BY <1>2, <2>1 DEF lifeVars, coreVars, JoinOrder
    <2>2. CASE LifeNext
      BY <1>2, <2>2, StartingJoins, DestructorJoins, ThreadJoins DEF LifeNext
    <2> QED
      BY <1>2, <2>1, <2>2
  <1>3. ASSUME JoinOrder PROVE AbruptEnd
    <2>1. Loops = {"tick", "heartbeat", "stats", "registry"}
      BY DEF Loops, LoopOrder
    <2> QED
      BY <1>3, <2>1 DEF JoinOrder, AbruptEnd, Closed, StopJoined
  <1> QED
    BY <1>1, <1>2, <1>3, PTL DEF LifeSpec
=============================================================================
