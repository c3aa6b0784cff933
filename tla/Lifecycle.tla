----------------------------- MODULE Lifecycle ------------------------------
(***************************************************************************)
(* The life of the process: main(), ServerCore's Init, Start, Stop and     *)
(* destructor, the threads they create and join, HealthServer, and the two *)
(* singletons with threads of their own, AuthService and Logger.           *)
(*                                                                         *)
(* The destructor runs when Init fails, when Init or Start throws (a       *)
(* thread that cannot be created), or when Start returns because someone   *)
(* on another thread has called Stop(), which is public and which main()   *)
(* does not do.                                                            *)
(* A std::thread destroyed while it is joinable ends the process.          *)
(***************************************************************************)
EXTENDS AuthService, Logger, FiniteSets

CONSTANTS
    IOWorkers,   \* threads that run WorkerThread
    MaxLines     \* bound: lines that are logged, the others are left out

VARIABLES
    phase,       \* where main() is
    core,        \* ServerCore::m_running
    alive,       \* ServerCore's threads that run
    joinable,    \* ServerCore's threads that are created and not joined
    nulls,       \* empty completions posted by Stop()
    served,      \* PostAccept has been called: clients may come
    health,      \* HealthServer's thread
    healthOn     \* HealthServer::m_running

coreVars == <<phase, core, alive, joinable, nulls, served, health, healthOn>>
lifeVars == <<vars, coreVars, logVars>>

LoopOrder == <<"tick", "heartbeat", "stats", "registry">>
Loops     == {LoopOrder[i] : i \in DOMAIN LoopOrder}
StopJoined == {"tick", "heartbeat", "stats"}      \* Stop() joins these

\* main() enters the try block; the singletons are there.
LifeInit ==
    /\ Init /\ Logger
    /\ phase = "init" /\ core = FALSE /\ alive = {} /\ joinable = {} /\ nulls = 0
    /\ served = FALSE /\ health = "off" /\ healthOn = FALSE

Says == IF lines < MaxLines THEN Log ELSE UNCHANGED logVars

----------------------------------------------------------------------------
(* Init and Start.                                                          *)

\* A step of Init fails and it returns false, before AuthService::Start.
InitFails ==
    /\ phase = "init" /\ phase' = "stop health"
    /\ Says
    /\ UNCHANGED <<vars, core, alive, joinable, nulls, served, health, healthOn>>

\* AuthService::Start.
StartAuth ==
    /\ phase = "init" /\ phase' = "start health"
    /\ Start /\ Says
    /\ UNCHANGED <<core, alive, joinable, nulls, served, health, healthOn>>

\* HealthServer::Start: m_running is set also when there is no socket and no thread.
StartHealth ==
    /\ phase = "start health" /\ phase' = "starting"
    /\ healthOn' = TRUE /\ health' \in {"off", "accepting"}
    /\ core' = TRUE                     \* the first statement of Start()
    /\ Says
    /\ UNCHANGED <<vars, alive, joinable, nulls, served>>

\* Not every worker of AuthService can be created, or HealthServer's thread, whose
\* m_running is set by then: the exception leaves Init() and destroys the core.
AuthStartThrows ==
    /\ phase = "init" /\ phase' = "stop health"
    /\ \E ws \in SUBSET Workers : StartThrowsAfter(ws)
    /\ UNCHANGED <<logVars, core, alive, joinable, nulls, served, health, healthOn>>

HealthStartThrows ==
    /\ phase = "start health" /\ phase' = "stop health"
    /\ healthOn' = TRUE
    /\ Says
    /\ UNCHANGED <<vars, core, alive, joinable, nulls, served, health>>

\* The workers are created first, then the loops.
Due(x) ==
    \/ x \in IOWorkers
    \/ /\ IOWorkers \subseteq joinable
       /\ \E i \in DOMAIN LoopOrder : x = LoopOrder[i] /\ \A j \in 1 .. i - 1 : LoopOrder[j] \in joinable

StartThread(x) ==
    /\ phase = "starting" /\ x \notin joinable /\ Due(x)
    /\ alive' = alive \cup {x} /\ joinable' = joinable \cup {x}
    /\ UNCHANGED <<vars, logVars, phase, core, nulls, served, health, healthOn>>

\* A thread cannot be created: the exception leaves Start() and destroys the core.
StartThrows ==
    /\ phase = "starting" /\ joinable # IOWorkers \cup Loops
    /\ phase' = "stop health"
    /\ UNCHANGED <<vars, logVars, core, alive, joinable, nulls, served, health, healthOn>>

\* PostAccept, and then the joins of the workers.
Serve ==
    /\ phase = "starting" /\ joinable = IOWorkers \cup Loops
    /\ phase' = "serving" /\ served' = TRUE
    /\ Says
    /\ UNCHANGED <<vars, core, alive, joinable, nulls, health, healthOn>>

StartReturns ==
    /\ phase = "serving" /\ alive \cap IOWorkers = {}
    /\ phase' = "stop health" /\ joinable' = joinable \ IOWorkers
    /\ UNCHANGED <<vars, logVars, core, alive, nulls, served, health, healthOn>>

----------------------------------------------------------------------------
(* Stop, called by another thread, which then joins three loops.            *)

StopCalled ==
    /\ phase = "serving" /\ core
    /\ core' = FALSE /\ nulls' = Cardinality(IOWorkers)
    /\ UNCHANGED <<vars, logVars, phase, alive, joinable, served, health, healthOn>>

CallerJoins(x) ==
    /\ served /\ ~core /\ x \in (StopJoined \cap joinable) \ alive
    /\ \A i, j \in DOMAIN LoopOrder : x = LoopOrder[i] /\ j < i => LoopOrder[j] \notin joinable
    /\ joinable' = joinable \ {x}
    /\ UNCHANGED <<vars, logVars, phase, core, alive, nulls, served, health, healthOn>>

----------------------------------------------------------------------------
(* ~ServerCore.                                                             *)

\* Mutant of HealthStopJoins: HealthServer::Stop detaches its thread.
HealthStopDetaches ==
    /\ phase = "join health" /\ phase' = "stop core"
    /\ UNCHANGED <<vars, logVars, core, alive, joinable, nulls, served, health, healthOn>>

\* HealthServer::Stop clears m_running, closes the socket and joins.
HealthStopFlags ==
    /\ phase = "stop health" /\ phase' = "join health" /\ healthOn' = FALSE
    /\ UNCHANGED <<vars, logVars, core, alive, joinable, nulls, served, health>>

HealthStopJoins ==
    /\ phase = "join health" /\ health \in {"off", "done"} /\ phase' = "stop core"
    /\ UNCHANGED <<vars, logVars, core, alive, joinable, nulls, served, health, healthOn>>

\* Stop() returns at once when Start() has not begun or Stop() was called before.
Stop ==
    /\ phase = "stop core" /\ phase' = IF core THEN "join loops" ELSE "join registry"
    /\ core' = FALSE
    /\ nulls' = IF core THEN Cardinality(IOWorkers \cap joinable) ELSE nulls
    /\ UNCHANGED <<vars, logVars, alive, joinable, served, health, healthOn>>

StopJoins3 ==
    /\ phase = "join loops" /\ StopJoined \cap alive = {}
    /\ joinable' = joinable \ StopJoined /\ phase' = "join registry"
    /\ UNCHANGED <<vars, logVars, core, alive, nulls, served, health, healthOn>>

\* Mutant of CloseDown: the registry thread is not joined.
CloseDownAtOnce ==
    /\ phase = "join registry" /\ phase' = "stop auth"
    /\ UNCHANGED <<vars, logVars, core, alive, joinable, nulls, served, health, healthOn>>

\* The registry thread is joined, and the sockets and the completion port closed.
CloseDown ==
    /\ phase = "join registry" /\ "registry" \notin alive
    /\ joinable' = joinable \ {"registry"} /\ phase' = "stop auth"
    /\ UNCHANGED <<vars, logVars, core, alive, nulls, served, health, healthOn>>

\* AuthService::Stop, if it runs.
AuthStopBegins ==
    /\ phase = "stop auth"
    /\ IF running THEN StopFlags /\ phase' = phase ELSE UNCHANGED vars /\ stopping = "no" /\ phase' = "stop log"
    /\ UNCHANGED <<logVars, core, alive, joinable, nulls, served, health, healthOn>>

AuthStopGoesOn == StopNotifies /\ UNCHANGED <<coreVars, logVars>>

AuthStopEnds ==
    /\ phase = "stop auth" /\ StopJoins /\ phase' = "stop log"
    /\ Says
    /\ UNCHANGED <<core, alive, joinable, nulls, served, health, healthOn>>

\* Logger::Shutdown.
LogStop ==
    /\ phase = "stop log"
    /\ \/ (ShutdownFlags \/ ShutdownNotifies) /\ phase' = phase
       \/ ShutdownJoins /\ phase' = "members"
    /\ UNCHANGED <<vars, core, alive, joinable, nulls, served, health, healthOn>>

\* The members go, std::threads among them.
DestroyMembers ==
    /\ phase = "members" /\ phase' = IF joinable = {} THEN "exited" ELSE "terminated"
    /\ UNCHANGED <<vars, logVars, core, alive, joinable, nulls, served, health, healthOn>>

----------------------------------------------------------------------------
(* The other threads.                                                       *)

\* WorkerThread takes an empty completion, or finds the completion port closed.
WorkerThreadEnds(x) ==
    /\ x \in alive \cap IOWorkers
    /\ \/ nulls > 0 /\ nulls' = nulls - 1
       \/ phase \in {"stop auth", "stop log", "members"} /\ UNCHANGED nulls
    /\ alive' = alive \ {x}
    /\ UNCHANGED <<vars, logVars, phase, core, joinable, served, health, healthOn>>

\* GameTickThread, HeartbeatThread, StatsThread and RegistryThread look at
\* m_running once per round; what they do in a round is modelled elsewhere,
\* except that they log.
LoopEnds(x) ==
    /\ x \in alive \cap Loops /\ ~core
    /\ alive' = alive \ {x}
    /\ UNCHANGED <<vars, logVars, phase, core, joinable, nulls, served, health, healthOn>>

LoopLogs ==
    /\ alive \cap Loops # {} /\ lines < MaxLines /\ Log
    /\ UNCHANGED <<vars, coreVars>>

\* HealthServer::WorkerLoop: a request comes, one of ServerCore's two callbacks
\* makes the answer, and m_running is looked at.  accept fails after a second.
HealthAccepts ==
    /\ health = "accepting" /\ healthOn /\ health' = "answering"
    /\ UNCHANGED <<vars, logVars, phase, core, alive, joinable, nulls, served, healthOn>>

HealthAnswers ==
    /\ health = "answering" /\ health' = "accepting"
    /\ UNCHANGED <<vars, logVars, phase, core, alive, joinable, nulls, served, healthOn>>

HealthEnds ==
    /\ health = "accepting" /\ ~healthOn /\ health' = "done"
    /\ UNCHANGED <<vars, logVars, phase, core, alive, joinable, nulls, served, healthOn>>

\* C_LOGIN on a worker, once clients may come.
Login(q) ==
    /\ served /\ alive \cap IOWorkers # {}
    /\ ValidateAsync(q)
    /\ UNCHANGED <<coreVars, logVars>>

LoginNotifies == NotifyOne /\ UNCHANGED <<coreVars, logVars>>

\* An AuthService worker; when session-server has failed, it logs.
AuthWorker(w) ==
    /\ WorkerStep(w)
    /\ UNCHANGED logVars \/ (at[w] = "serving" /\ lines < MaxLines /\ Log)
    /\ UNCHANGED coreVars

Spurious ==
    \/ LogWakes /\ UNCHANGED <<vars, coreVars>>
    \/ \E w \in Workers : SpuriousWakeup(w) /\ UNCHANGED <<coreVars, logVars>>

LogThread == LogWorker /\ UNCHANGED <<vars, coreVars>>

----------------------------------------------------------------------------
StartingUp ==
    \/ StartAuth \/ StartHealth \/ Serve \/ StartReturns
    \/ \E x \in IOWorkers \cup Loops : StartThread(x)

Destructor ==
    \/ HealthStopFlags \/ HealthStopJoins \/ Stop \/ StopJoins3 \/ CloseDown
    \/ AuthStopBegins \/ AuthStopGoesOn \/ AuthStopEnds \/ LogStop \/ DestroyMembers

Throws == AuthStartThrows \/ HealthStartThrows \/ StartThrows

ThreadEnds(x) == WorkerThreadEnds(x) \/ LoopEnds(x)

Running == phase \notin {"exited", "terminated"}

LifeNext ==
    /\ Running
    /\ \/ StartingUp \/ InitFails \/ Throws \/ StopCalled \/ Destructor
       \/ \E x \in IOWorkers \cup Loops : ThreadEnds(x) \/ CallerJoins(x)
       \/ LoopLogs \/ HealthAccepts \/ HealthAnswers \/ HealthEnds
       \/ (\E q \in Requests : Login(q)) \/ LoginNotifies
       \/ (\E w \in Workers : AuthWorker(w)) \/ Spurious \/ LogThread

\* The workers of AuthService and of Logger, the callers of ValidateAsync and main()
\* in the destructor go on when they can; HttpClient has timeouts.  The line that ends
\* AuthService::Stop needs Logger's mutex, which a worker that wakes for no reason takes
\* now and then: the mutex lets a thread in that it is free for again and again.  Nothing
\* is asked of the other threads, nor of the clients.
LifeFairness ==
    /\ WF_lifeVars(Running /\ Destructor) /\ WF_lifeVars(Running /\ LogThread)
    /\ SF_lifeVars(Running /\ AuthStopEnds)
    /\ WF_lifeVars(Running /\ LoginNotifies)
    /\ \A w \in Workers : WF_lifeVars(Running /\ AuthWorker(w))

LifeSpec == LifeInit /\ [][LifeNext]_lifeVars /\ LifeFairness

----------------------------------------------------------------------------
\* HealthServer's callbacks and the loops use the core's members, and the workers
\* of AuthService the Logger's: whoever does is gone before they go.
OutlivedByCore ==
    /\ phase \in {"members", "exited"} => health # "answering" /\ \A w \in Workers : at[w] = "done"
    /\ phase = "exited" => alive = {}

\* A std::thread is destroyed while it is joinable, which ends the process, in two
\* cases only: Start() has thrown, and then it is one of the workers that nobody
\* joins, or Stop() was called from outside and its caller has yet to join the tick,
\* heartbeat or stats thread.
AbruptEnd ==
    phase = "terminated" =>
        joinable # {} /\ joinable \subseteq (IF served THEN StopJoined ELSE IOWorkers)

\* AuthService::Stop and Logger::Shutdown return whenever no worker is between the
\* predicate of its wait and the wait at the moment m_running is cleared.  In that
\* moment neither holds the mutex, and the notification is lost.
StopsUnlessParking ==
    /\ (stopping = "flagged" /\ ~Locked) ~> (stopping = "stopped")
    /\ (shutdown = "flagged" /\ logAt # "parking") ~> (shutdown = "stopped")
=============================================================================
