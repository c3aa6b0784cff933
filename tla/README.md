# TLA+ development for realtime-server

`realtime-server` is an IOCP game server: clients connect over TCP, log in with
a token that another service (session-server) validates, enter rooms by name,
press ready, play, leave, drop and reconnect. This directory holds TLA+ modules
translated from its C++ sources, TLC configurations that check them on small
instances, and TLAPS proofs of the safety properties for every instance.

    tlc -workers 2 -config RoomGC.cfg MCRoomServer       # a run
    tlapm RoomServerProofs.tla                           # the proofs of a module

`PROJECT.json` lists components, runs, mutants, the source lines behind each
definition, findings, hazards and theorems.

## 1. The system

### Components

| Component | State | Operations | Hard because |
|---|---|---|---|
| `Game/GameRoom.h` | `m_state`, `m_members`, `m_readyPlayers`, `m_pendingMoves`, `m_pendingReconnects`, `m_emptySinceMs`, `m_finishedAt`, a job queue | `HandleEnter`, `HandleLeave`, `HandleReady`, `HandleMove`, `HandleRejoin`, `Broadcast`, `Tick` | no lock; jobs run long after they were pushed; three timeouts |
| `Game/RoomManager` | `m_rooms` (name to room) under `m_lock` | `GetOrCreate`, `TickAll`, `RemoveIdleRooms`, `FindReconnect`, `GetRoomInfoList` | hands out raw pointers that are used after the unlock |
| `Utils/JobQueue.h` | a queue under a spin lock | `Push`, `Flush` | order between two rooms' queues is not kept |
| `Packet/Logic/Logic.cpp` | none | eight packet handlers, the `C_LOGIN` callback | run on IOCP workers and on AuthService workers |
| `Core/ServerSession` | `m_accountId`, `m_room`, `m_disconnected`, `m_sock`, `IOContext`s | `Send*`, `PostRecv`, `PostSend`, `Disconnect` | read and written by four kinds of threads; the socket handle is closed and used again under a sender |
| `Core/ServerSession`, rate limit | `m_rateTokens`, `m_rateBurst`, `m_lastRefillMs` | `InitRateLimit`, `CheckRateLimit` | integer division loses fractions of tokens |
| `Core/ServerCore`, receive path | one posted receive per session | `PostRecv`, `HandleRecv`, `HandleDisconnect` | TCP cuts the stream anywhere |
| `Packet/RecvBuffer` | `m_data`, `m_head`, `m_tail` | `Write`, `TryGetPacket`, `Pop`, `GetWriteBufferPtr`, `Compact` | boundaries |
| `Core/ServerCore`, threads | - | `GameTickThread`, `HeartbeatThread`, `RegistryThread`, statistics | meet in rooms and sessions |
| `Core/ServerCore`, `main` | `m_running`, the threads | `Init`, `Start`, `Stop`, destructor | failures half way, the order of destruction |
| `Core/ServerCore`, accept path | connection tokens of the traffic policy | `PostAccept`, `HandleAcceptCompletion`, `ConsumeGlobalConnectionToken`, `RefreshTrafficPolicy` | failure in the middle, refill |
| `Game/SessionManager` | ids to sessions under a lock | `Add`, `Remove`, `GetAll` | must agree with `currentConnections` |
| `Utils/AuthService` | queue, `m_running`, condition variable, workers | `ValidateAsync`, `WorkerLoop`, `Stop` | wakeups, shutdown |
| `Utils/Logger.h` | queue, condition variable, one thread | `Log`, `Shutdown` | as AuthService |
| `Utils/HealthServer` | `m_running`, one thread | `Start`, `WorkerLoop`, `Stop` | its callbacks use the core's members |
| `Utils/ObjectPool.h`, `Utils/Lock.h` | free list under a spin lock | `Allocate`, `Deallocate` | life time of `IOContext` |
| `Packet/Logic/Packet.pb.*` | message objects | constructors, `Clear`, setters, `MergeFrom`, `_InternalParse`, `_InternalSerialize`, `ByteSizeLong` | size, encoding and decoding must agree |
| `PacketManager` | table from packet id to handler | dispatch | fixed before the threads start |
| `HttpClient`, `Config`, `ServerStats` | sockets, constants, counters | I/O | - |

### How they interact

* An IOCP worker completes a receive, frames packets out of `RecvBuffer` and
  calls a handler. A handler never changes a room: it pushes a job to the queue
  of the session's room (`GetRoom()`), or of the room `GetOrCreate` returns.
* The tick thread takes a snapshot of the rooms under `m_lock`, releases it, and
  for each room swaps the queue out and runs the jobs, then the rest of
  `Tick()`. It sets `m_room` of the sessions that enter and leave.
* `C_LOGIN` asks AuthService, whose worker calls back on its own thread: it sets
  `m_accountId`, looks for a reconnect slot (`FindReconnect`) and pushes a
  rejoin job to the room that has one.
* A connection can be given up by an IOCP worker (failed receive, rejected
  packet, failed send completion), by the heartbeat thread, and, through a
  `WSASend` that fails, by any thread that sends. The first two run
  `HandleDisconnect` (which queues the leave job); the last sets
  `m_disconnected` and nothing more.
* The heartbeat thread also calls `RemoveIdleRooms`, which destroys rooms.
* Whoever sends takes an `IOContext` from the global pool, fills it (or points it
  at a buffer that a whole broadcast shares) and hands it to `WSASend`; the worker
  that takes the completion returns it to the pool.
* `main` owns the core. Its destructor stops HealthServer, the loops, AuthService
  and Logger in that order; everybody logs until the end.

### What makes each part correct

* **Room**: a game has two players or more, starts when its players are ready,
  ends when somebody leaves, resets after the results; ready marks do not
  survive; the room is not filled beyond its limit; a queued leave happens.
* **RoomManager**: one live room per name, all live rooms reachable; emptied rooms
  are freed; rooms with members should not be, and nobody should use a freed one
  (both can happen, and section 3 says exactly when).
* **Session**: `m_room` is null or a live room that has the session as a member,
  with one exception; only logged-in sessions are members.
* **Receive path**: positions stay in the buffer, packets are framed exactly,
  a legal packet is handled, only a packet larger than the buffer starves.
* **AuthService, Logger**: one callback for each validation and one line for each
  `Log`, in order, none lost at shutdown; `Stop()` and `Shutdown()` return.
* **Life of the process**: no thread outlives what it uses, whether the server
  was stopped, failed to initialise or failed to start.
* **Sending**: an `IOContext` is in one place, a buffer does not change while the
  kernel sends from it, a packet goes to its own client, and decodes to the
  message that was sent.
* **Rate limit**: never more than the configured rate, and nobody who keeps well
  below it is dropped.
* **Connections**: `currentConnections` and `SessionManager` agree whoever gives
  a connection up, no more clients are let in than tokens were issued, a silent
  or lost connection is cleaned up.

`PROJECT.json` "hazards" lists where each of these can go wrong, by line.

## 2. Modules

### GameRoom: the room object as a value

A record with the class's data members, and one operator for each member
function: `HandleEnter`, `HandleLeave` (`Erase`, `SaveSlot`, `HandleGameEnd`,
`MarkIfEmpty` are its parts), `HandleRejoin`, `HandleReady` (`Toggle`,
`TryStartGame`), `HandleMove`, and `TickRest` (what `Tick()` does after
`Flush()`). The early returns are kept: `HandleLeave` returns after
`HandleGameEnd` without looking whether the room is empty; `Tick` returns
before `BroadcastPendingMoves` in `FINISHED`; `HandleRejoin` checks neither
state nor capacity; `TryStartGame` compares sizes. The `...Recipients` operators
say to whom each call sends, since a send may fail.

Times are abstracted to what the code asks of them: a stamp is `"unset"` (0, or
no entry), `"recent"` or `"elapsed"`. The actions `IdleTimeoutPasses`,
`ReconnectWindowPasses` and `ResultDelayPasses` of RoomServer turn `"recent"`
into `"elapsed"`, at any time. Positions of moves and packet contents are left
out; the keys of `m_pendingMoves` are kept.

### RoomServer: threads, sessions, queues and rooms

| Variable | Code |
|---|---|
| `room`, `queue`, `heap`, `created` | the `GameRoom` objects, their `m_jobQueue`s, which are allocated, how many ever were |
| `registry` | `RoomManager::m_rooms` |
| `sweep`, `doomed` | `RemoveIdleRooms`, which holds `m_lock` while either is set: elapsed rooms its loop has yet to look at, the room whose stamp it has loaded and will erase |
| `overtaken` | not in the code: rooms somebody came into while they were `doomed` |
| `todo`, `cur`, `batch` | the tick thread: `TickAll`'s snapshot, the room it is in, the jobs `Flush` swapped out |
| `acct`, `roomOf`, `disconnected` | `m_accountId`, `m_room`, `m_disconnected` |
| `recv`, `closing` | sessions whose receive is in use; threads inside `HandleDisconnect`, with the result of `GetRoom()` |
| `entering` | `Handle_C_ROOM_ENTER` between `GetOrCreate` and `PushJob` |
| `logins`, `found`, `rejoining` | `C_LOGIN` validations not answered; callbacks after `SetAccountId`; callbacks after `FindReconnect` |
| `uaf` | a thread has used a freed room |

One action per step another thread can come between. A critical section is one
step; a lookup in RoomManager and the use of its pointer are two; `TickAll`'s
snapshot, `Flush`, each job, and the rest of `Tick()` are steps; the `C_LOGIN`
callback is three (`SetAccountId`, `FindReconnect`, `PushJob` with the answer);
`HandleDisconnect` is three (`exchange`, `GetRoom()`, `SetRoom(nullptr)` with
the leave job). A job holds what its lambda captured: the session for enter,
leave and rejoin, whose account is then read when the job *runs*, and the
account id for ready, move and chat.

`RemoveIdleRooms` is three kinds of steps: it takes `m_lock` and the time, loads
the stamp of one room after the other, and erases a room whose stamp has run out
without looking again. `m_lock` keeps lookups and snapshots out (`Locked`), but not
the tick thread, which runs `Tick()` without it: an `Enter` or `Rejoin` job between
the load and the erase ends with a member in a room that is freed. The rooms that
this happens to are `overtaken`.

`GetRoom()` and the `PushJob` on it in a handler are one step: a room that `m_room`
points to carries no empty-since stamp, so between the two it could be freed only
if a whole idle timeout passed inside a handler, or if it is doomed and overtaken;
in that case the step can be taken before the erase (the job is lost with the room)
or after it (`uaf`), which are the outcomes of the order in between. In
`Handle_C_ROOM_ENTER` the push of the leave job and `GetOrCreate` are one step too,
which waits for `m_lock`: until it has returned, the handler has nothing but the
name of the new room, and what the tick thread does with the leave job meanwhile
it can do afterwards. A push that falls into a sweep is the one of
`Handle_C_ROOM_LEAVE`, which waits for nobody.

`InUse` is the one assumption on time: the idle timeout (60 s) does not *begin to
run out* while a thread is between a lookup and a push, while the tick thread is
in the room, or while `RemoveIdleRooms` is on its way to it. A timeout that ran
out before the lookup is not excluded: that is the race `RoomFree` shows.

A thread that uses a freed room sets `uaf`, and the model says nothing of what it
does then: after `uaf` the program has no meaning. So every property of this module
but the type invariant is about behaviours in which no freed room has been used yet
(`~uaf => ...`), and the steps the model no longer takes are hidden from none.
`NoUseAfterFree` itself is violated (`RoomFree`).

`Send(recipients)` models `Send`, `SendRaw` and `SendShared`: a disconnected
session is skipped, and for any of the others in `SendMayFail` the `WSASend` may
fail, which sets `m_disconnected` and runs no cleanup.

`RoomContract` is what a room promises, without threads, queues, accounts and
clocks: join, leave, start, forfeit, reset. It says nothing of the end of a room,
which RemoveIdleRooms cannot promise to be empty. `ContractKept` instantiates it for each room of RoomServer and says that every step of every thread is an
allowed step of each room or leaves it alone.

### RecvBuffer: the receive path of one connection

`data`, `head`, `tail` are the members of `RecvBuffer`, `window` the length
given to `WSARecv`, `pc` the place in the `PostRecv` / `HandleRecv` cycle;
`received`, `taken` and `front` number the bytes of the stream. A byte is
represented by its position in the stream, so exact framing can be stated
without contents. `RecvCompletes(n)` takes any `n` that fits the window.
`EmptyRecv` is Winsock's answer to an empty window.

### AuthService, Logger: two pools with a condition variable

`at` (`logAt` in Logger) says where each worker is in `WorkerLoop`, with the step
between evaluating the wait predicate and being on the wait list made explicit
(`"parking"`, mutex held). `ValidateAsync` pushes under the mutex and `NotifyOne`
comes later; `Stop()` and `Shutdown()` are three steps each, none of which takes
the mutex. Wakeups without reason are allowed. `Init` and `Logger` are the
constructors, `Start` creates AuthService's workers, and `StartThrowsAfter(ws)` only
those in `ws`, before a thread cannot be created. RoomServer uses what
AuthService promises: each accepted `C_LOGIN` has one callback (`logins`). A log
line is its number; `written`, `batch`, `entries` are the lines that are out,
taken and queued.

### Lifecycle: the process

EXTENDS AuthService and Logger and adds `main` and ServerCore.

| Variable | Code |
|---|---|
| `phase` | where `main` is: in `Init`, in `Start`, or at which statement of the destructor; `"terminated"` is the end by a `std::thread` that is destroyed while joinable |
| `core`, `alive`, `joinable` | `m_running`, the threads that run, the `std::thread` objects not yet joined |
| `nulls`, `served` | empty completions of `Stop()` in the completion port; clients may come |
| `health`, `healthOn` | HealthServer's thread and its `m_running` |

`Init` may return false at any of its steps before AuthService is started
(`InitFails`). It may throw at any worker of AuthService, whose `m_running` is then
set with some workers running (`AuthStartThrows`), or at HealthServer's thread
(`HealthStartThrows`). `Start` may throw at any thread it creates. An exception
reaches `main` after the destructor has run. `Stop` may be called from
another thread, which then joins three of the loops. What the loops do in a round
is in the other modules; here they only log and end. Every step of AuthService
and Logger is taken by somebody of this module: the login handlers on IOCP
workers, the destructor, everybody who logs. In Lifecycle AuthService is started,
used and stopped by the code that does so, and has no run of its own.

### RateLimiter: packets per second

`tokens` and `elapsed` (now less `m_lastRefillMs`) are the code's bucket. `full`
and `half` are exact buckets that see the same packets, counted in fractions of a
token: one fills at the configured rate and pays for what the code admits, the
other fills at half the rate and says which clients are slow enough. `verdict` is
the last answer; `HandleRecv` drops the session on the first refusal. The unit of
the clock is a parameter.

### Messages: the generated code and the packet header

A message is the list of its fields, and `New`, `Clear`, `Set`, `MergeFrom`,
`CopyFrom`, `Serialize`, `ByteSizeLong` and `Parse` are written once over that
list, as the generator has written them out for each class. An encoding is the
sequence of its fields with number, wire type and value; a text is its length,
whether it is UTF-8 and a name for its content, so sizes are computed and
contents are not. Kept from the code: defaults are not written, a float is compared by its bits,
fields seen twice overwrite, fields that are unknown are kept and written back,
text that is not UTF-8 is written and refused when read, a tag 0 or an end-group
tag ends a message early. `Packet` keeps the 16 bits of the header's size.

### Sending: from Send to the kernel and back to the pool

| Variable | Code |
|---|---|
| `pool`, `made` | `ObjectPool::m_pool`, contexts ever created |
| `ctxFor`, `own`, `points`, `keeps` | an `IOContext`'s session, its buffer, what `wsaBuf.buf` points to, `sharedBuffer` |
| `shared` | the buffers of `BroadcastShared` |
| `at`, `holds`, `handle`, `rest`, `buf` | each sending thread: its place, its context, `m_sock` as it has read it, the members still to serve, its shared buffer |
| `opened`, `disconnected`, `sock` | accepted sessions, `m_disconnected`, `m_sock` |
| `broken`, `pending`, `done`, `aborted` | the kernel: connections that fail, send queues, the completion port, failed completions |
| `posted`, `got` | not in the code: what `WSASend` took on a connection and what went out on it, with whom it was for |

`PostSend` is two steps, the check with the read of `m_sock` and the call of
`WSASend`: in between, the session may be closed and its handle given to a new
connection. `SerializeFails` is the return of `SendInternal` between `Allocate` and
`PostSend`. `Content` says what memory holds when it is sent: the own buffer, the
shared one while somebody keeps it, garbage afterwards.

`PacketStream` is what all this promises to a client, without threads, contexts,
buffers and handles: packets go out in the order in which they were handed over,
each once and unchanged. `StreamKept` instantiates it for each session with
`posted` and `got`.

### Connections: accepting and losing connections

| Variable | Code |
|---|---|
| `accept`, `cand`, `limit` | where the worker in `HandleAcceptCompletion` and `ConsumeGlobalConnectionToken` is, the session it has added, `limitPerMinute` as it loaded it |
| `policy`, `tokens`, `last` | the atomics `m_policyMaxConnectionsPerMinuteTotal`, `m_globalConnTokens`, `m_globalConnLastRefillMs` |
| `refresh`, `pulls` | where the registry thread is in `RefreshTrafficPolicy`, and how many answers it had |
| `opened`, `managed`, `count` | sessions created, `SessionManager::m_sessions`, `currentConnections` |
| `disconnected`, `broken` | `m_disconnected`; those where the `Disconnect()` of `PostSend` set it |
| `closing` | how far `HandleDisconnect` is |
| `recv`, `quiet`, `beat` | receives in use, sessions past the heartbeat timeout, what is left of `GetAll()`'s snapshot |
| `credit` | not in the code: tokens issued less connections let in for one |

`PostAccept` is the last thing `HandleAcceptCompletion` does, so one worker at
most is in it; if `PostAccept` fails nobody accepts any more (`"lost"`). Each
load, store and `fetch_sub` of the policy's atomics is a step, because the
registry thread's three stores may fall between any two of them. The counter,
the first `PostRecv` and the next `PostAccept` are one step (`Admit`): until
the first receive is posted no other thread does anything with the session but
look at its activity, and the heartbeat timeout does not run out while it is
being accepted. `HandleDisconnect` is three steps, `exchange`, the counter and
`Remove`; its room part is in RoomServer, its socket in Sending. `SendFails` is the `WSASend` that
fails at once and only sets the flag, `SendAborted` the completion that
reports a failure.

`PolicyMinute` adds a count of the connections let in during the first minute
under a policy. It begins when the first pull is stored, has one more pull in it
(`policy_refresh_interval_ms = 30000`), and no stamp gets a minute old in it.

## 3. Runs

| Run | Instance | Shows |
|---|---|---|
| `RoomReconnect` | alice sends every packet, bob enters and gets ready, alice drops and returns on a third connection by `C_LOGIN` | `TypeOK`, `MembersLoggedIn`, `InGameHasTwo`, `ReadyOnlyWhileWaiting`, `EmptyMarkSound`, `ContractKept` |
| `RoomGC` | 2 players and a client that has not logged in, 2 names, 2 rooms ever, one seat each, sends to one player may fail, the heartbeat thread frees rooms | `RoomPointerSafe`, `RegistryOwnsRooms`, `NoForgottenRoom`, `OnlyRejoinOverfills` |
| `RoomLive` | 2 players, one may drop, rooms are freed, fair | `LeaverFindsRoom`, `FinishedResets`, `LeaveTakesEffect`, `EmptiedRoomRemoved` |
| `RecvBuffer` | capacity 6, header 2, limit 5, payloads below, at and above the limits, 14 bytes, fair | `BufferBounds`, `HoldsStream`, `EmptyWindowMeansTooLarge`, `PacketsExact`, `LegalPacketHandled` |
| `Connections` | 2 connections, a policy answer that is null or 1, any number of windows, fair | `CountAgrees`, `TokensCover`, `OnlySendLeaks`, `GoneIsForgotten`, `SilentDropped` |
| `RateLimiter` | 3 packets a second, a clock of 10 units a second, gaps up to 13 units | `TypeOK`, `NeverAhead`, `HalfRateAdmitted` |
| `Sending` | 2 sending threads, 2 sessions, 1 handle, 3 contexts, 2 sends or broadcasts | `OnePlace`, `Intact`, `StrayOnlyAfterClose`, `DecodesAsSent`, `StreamKept`, and the codec |
| `Lifecycle` | 2 AuthService workers, 1 login, 1 IOCP worker, 4 loops, 2 lines, fair | `NoSleepWhileQueued`, `OneCallbackEach`, `StoppedDrained`, `LinesKept`, `OutlivedByCore`, `AbruptEnd`, `EveryRequestAnswered`, `StopsUnlessParking` |
| `PolicyMinute` | 2 connections, a limit of 1, 2 pulls | violates `LimitPerMinute` |
| `RoomStart` | 3 players | violates `StartNeedsAllReady` |
| `RoomFree` | 2 players, 2 rooms ever | violates `NoUseAfterFree` |
| `RoomIdle` | 2 players, one may drop, fair | violates `IdleRoomRemoved` |

The codec is checked by assumptions of MCSending, which TLC evaluates before the
run, over every message with a few values in each field (texts of 0, 1, 127 and
128 bytes, so that the length takes one byte and two): `SizeAgrees`
(`ByteSizeLong` is what is written), `RoundTrip`, `ConcatenationMerges` (parsing
two encodings in a row is merging the messages), `BadInputRefused`, and
`MessagesSound` (the hypotheses of `ClientsDecode`, section 4, for the messages that
the run sends).

What some properties say less than one might wish, because more would be false:

* `OnlyRejoinOverfills`: `server.cfg` calls `max_room_players` the largest number
  per room, and a room can exceed it, since `HandleRejoin` has no capacity check
  and nobody kept the seat. The property says that nothing else can, however many
  clients race for the last seat. The run shows the race; the theorem covers the
  instances with rejoins.
* `StopsUnlessParking`: `AuthService::Stop` and `Logger::Shutdown` set the flag and
  notify without the mutex. A worker that is between the predicate and the wait
  at that moment misses both, and the join never returns. The property says that
  this is the only way.
* `StrayOnlyAfterClose`: a packet can reach another client, on a handle that is
  used again between the check and `WSASend`. Only packets for sessions that
  have disconnected can.
* `HalfRateAdmitted`: the truncated refill can cost nearly half of the rate (a
  client that sends just before each second token), so nothing better than half
  can be promised.
* `OutlivedByCore` claims an orderly end only for `"exited"`. A thread that cannot
  be created in `Start`, or a caller of `Stop` that has not joined yet, ends in
  `"terminated"`; `AbruptEnd` says that nothing else does, and which
  `std::thread` objects it can be.
* `OnlySendLeaks`: a session whose `WSASend` failed stays in SessionManager for
  good, since the `HandleDisconnect` that follows finds the flag set and returns.
  The property says that this is the only way for a disconnected session to stay,
  and that there is no way back from it.
* `RoomPointerSafe`: `m_room` dangles when an `Enter` or `Rejoin` job runs between
  the load and the erase of `RemoveIdleRooms` (`overtaken`). The property says that
  this is the only way, and that a pointer to a live room is one to a room that has
  the session in it. `RoomGC` reaches the exception.
* `LeaverFindsRoom` has the same exception. It is about one of the four holders of
  room pointers: a handler in `C_ROOM_ENTER`, a login callback and the tick thread
  can be left with a pointer to a freed room in other ways too (`RoomFree`), because
  a room they find may be empty and its timeout over. `HandleDisconnect` finds a room
  that has the session in it, so the timeout has not begun, unless the room was
  doomed before the session came in.
* `TokensCover` counts every refill as tokens issued; that the limit holds per
  minute is what `PolicyMinute` refutes.

Two more observations: `PacketID.h:31-32` describes `S_ROOM_LIST` without the
state byte that `Handle_C_ROOM_LIST` writes; and two `C_ROOM_ENTER` in a row, the
second while the first job is queued, make a session a member of two rooms.

### Bounds, and why they are enough

`MaxRooms` bounds the rooms ever created, `MaxJobs` the jobs waiting while
clients still send, `MaxLogins` the logins under way for one session,
`StreamEnd` the bytes of the stream, `MaxPulls` the policy's answers, `MaxGap` the
time between two packets, `MaxHandles`, `MaxContexts` and `MaxSends` what is
sent, `MaxLines` the log. A room's rules distinguish nobody, one, two
and more than two members and a full room: two players with room for two reach
the first three and the full room; with one seat two players race for it. `MaxJobs` limits
only when a *new packet* is handled: jobs of `HandleDisconnect`, of a room change
(two at once, in two rooms) and of login callbacks come on top, so queues with
several jobs in any order do arise with `MaxJobs = 1`. Two rooms ever created
let a name be freed and taken again while pointers to the first are held. Six
bytes of buffer, two of header and five payload sizes reach compaction with
every split of a header and of a body, and a packet that is larger than the
buffer. Two workers of AuthService and one login give a worker that waits, one
that serves and both racing for the job while the process goes down around them;
two lines give one that is being written while the next is pushed. With one login
`NoSleepWhileQueued` is about one notification; the theorem `NoWakeupLost` covers
several that are on the way at once. A rate of 3
against a clock of 10 divides unevenly, and a gap of 13 units fills more than a
second's worth. Two sessions and one handle make every second connection inherit
the handle of the first; two sends, one of them perhaps a broadcast, use several
contexts and return them to the pool in every order. With one handle a broadcast
never has two live recipients, so a shared buffer that several pending sends keep
is left to the theorem `ArriveIntact`. Two connections and a policy of one give
the last token, the rejection after it, a refill by the worker and one by the
registry thread in every order; one pull is enough to race with an accept that
has loaded the old limit, and all threads that can lose a connection race for
each of the two. The bounds are guards, so they never
hide a state from the invariants, and the safety properties are proved without
them (section 4).

Symmetry is declared for the threads of `Sending`, which are alike and which no
liveness property mentions. Elsewhere the sessions play different parts.
Deadlock is checked in the room runs (the tick thread always has a step) and in
`Connections` (the heartbeat thread has one);
`RecvBuffer`, `RateLimiter`, `Sending` and `Lifecycle` end when the connection,
the session, the sends or the process do.

### Fairness, and why the code justifies it

* RoomServer: `GameTickThread` and `HeartbeatThread` loop until the server
  stops (weak fairness of `TickThread` and `RemoveIdleRooms`). A handler, a
  callback and `HandleDisconnect` that have begun go on; `HttpClient` has
  timeouts, so validations are answered; `closesocket` makes a pending receive
  complete. Time passes: weak fairness of `ResultDelayPasses`, and strong
  fairness of `IdleTimeoutPasses`, since its guard comes and goes with the
  tick thread's visits while the real clock goes on through them. Nothing makes a
  client send, log in, drop, or a send fail.
* RecvBuffer: workers go on, and the bytes of a packet that the client sends
  arrive while the connection lasts.
* Connections: `HeartbeatThread` loops, and a `HandleDisconnect` that has begun
  goes on. Nothing makes clients connect, send or leave, or a pull succeed.
* Lifecycle: the workers of AuthService and Logger, a caller between push and
  notify, and `main` in the destructor go on when they can (`HttpClient` has
  timeouts). `AuthStopEnds` logs, for which it needs Logger's mutex; a Logger worker
  that wakes for no reason again and again takes it again and again, so this one step
  has strong fairness: whoever finds the mutex free infinitely often gets it. No
  fairness for spurious wakeups, clients, the loops, failures, or
  for `Stop()` being called from outside: the properties do not need it.

### What the violations show

* **RoomStart** - `HandleReady` does not ask whether the account is still a
  member and `TryStartGame` compares sizes: a ready job that runs after the
  player's leave job leaves a mark that later counts for somebody who has not
  pressed ready. The comments say all players must be ready.
* **RoomFree** - a room whose idle timeout has run out is looked up, freed by
  the heartbeat thread, and used; or somebody comes in between the load of its stamp
  and the erase. The comments say only the tick thread touches rooms.
* **PolicyMinute** - every pull stores a full bucket, also when the limit has not
  changed, and there are two pulls in a minute: twice the limit get in. The
  repository's README says that the limit is per minute. With `MaxPulls = 1` the
  property holds.
* **RoomIdle** - a session that disconnects while its enter job is queued
  becomes a member afterwards and stays one; its room is never removed, though
  `RoomManager.h` says rooms nobody is in are.

## 4. Proofs

All hold for every value of the constants that meets the named assumptions, and
none uses fairness.

* **GameRoomProofs** - lemmas on the room operators. `RoomGood` says of one
  room: in a game there are two members or more, ready marks exist only in
  `WAITING`, an empty-since stamp means no members. Every handler returns a room
  of the right type that is again `RoomGood`. The arithmetic on member sets
  (`InsertCardinality`, `SomebodyIsLeft`) is separate.
* **RoomServerProofs** - `TypeCorrect`, `GamesHaveTwo`, `ReadyMarksCleared`,
  `MarksAreSound`, `PointersAreSafe`, `RoomsAreRegistered`. The inductive
  invariant is `TypeOK /\ RoomsGood /\ PointersGood /\ HeapAllocated /\
  RoomsRegistered /\ SweepGood`. The conjuncts need each other. `PointersGood`
  (`RoomPointerSafe` without its exception for `uaf`) survives the erase only because
  of `SweepGood`: a doomed room still has the elapsed stamp that was loaded and so is
  empty (`RoomsGood`), or it is overtaken, and every job that brings a member into a
  doomed room makes it so. `RoomsRegistered` survives `GetOrCreate` only because a new
  id is not in use (`HeapAllocated`); and a freed room is unregistered only because it
  had one name. No conjunct excepts `uaf`: the model never looks into a freed room.
  `CoreUnchanged` and `OneRoomChanges` say what a step must leave alone; then there is
  one lemma per group of actions.
  Five more results rest on it:
  - `NoRoomForgotten`. `Forgotten` (empty, unstamped, no `Enter` on the way) can
    only arise in a step that removes the last member, creates a room or takes
    an `Enter` job; each of these stamps the room, has the enterer at hand, or
    leaves a member or a stamp behind (`HandleEnter` on a full room finds members).
  - `OverfilledByRejoin`, the action property, from what each handler does to the
    member set.
  - `RoomsKeepContract`, the refinement. `RoomChange` lists what a step of the
    server can do to a room's members and state; each entry is a step of
    `RoomContract` or none.
  - `MembersHaveLoggedIn`. `LoggedInv` adds that jobs in the queues, handlers and
    callbacks on the way are about sessions that have an account: the login is
    checked when a packet is handled, and the job runs ticks later.
  - `LeaverNeverDangles`. That the room exists is not inductive; `LeaverInv` adds
    that its empty-since stamp has not run out (`Fresh`). At `GetRoom()` the room
    has the session as a member, so it carries no stamp (or is overtaken);
    `HandleLeave` can only give it a new one; and the timeout of a room in use does
    not run out (`InUse`, the one timing assumption of RoomServer), so
    `RemoveIdleRooms` passes it by (`StampKept`, `SweepGood`).

  Assumptions: finitely many sessions, `NoAccount` is no account, a positive room
  size, and the types of the parameters. No bound is assumed to be small.
* **RecvBufferProofs** - `TypeCorrect`, `BufferSafe`, `FramingExact`, `OnlyTooLargeStarves`,
  `PoppedAsSent` (the action property: `HeaderIntact` says that a header is read as
  the client wrote it, and `HoldsStream` that the bytes counted are there).
  The strengthening `Waiting` records what `PostRecv` knew when it posted: the
  first packet is incomplete, and the window is the rest of the buffer after
  compaction; without it an empty window says nothing about the packet.
  Assumes `HeaderSize \in 1 .. Capacity`.
* **AuthServiceProofs** - `TypeCorrect`, `CallbackOnce`, `StopDrains`.
  `Accounted` (each request asked for is queued, being served or answered) and
  `LeavesLast` (a worker that is done left an empty queue with `m_running`
  false, or was never created, and no request comes after) make `StoppedDrained` inductive.
  `NoWakeupLost`: while a worker waits, no more requests are queued than there are
  notifications on the way and workers that will look at the queue before they
  wait. This counts, and needs to: with "some" in the place of the numbers it is
  not inductive, as two pushes may be followed by two notifications of which the
  first wakes a worker that takes one request. `ParksOnEmpty` (a worker about to
  wait has seen an empty queue under the mutex) is the strengthening. Assumes
  finitely many workers.
* **ConnectionsProofs** - `TypeCorrect` (with it, that the unsigned counter never
  wraps below zero), `CounterAgrees`, `TokensSuffice`, from `NextIInv`.
  `LifeCycle` ties `m_disconnected`, `SessionManager` and the place in
  `HandleDisconnect` together: a session whose flag is not set is in the map and
  nobody closes it, so the winner of the `exchange` finds it counted.
  `TokensBacked` (`tokens <= credit`) is what `fetch_sub` needs: a positive token
  has been issued and not used. `CountedFinite` and the library's cardinality
  theorems carry the counter from step to step. Assumes finitely many sessions
  and that limits are natural numbers. `LeaksBySendOnly` rests on `Responsible`: the
  winner of the `exchange` is the one who removes the session, and `PostSend`, if it
  wins, does not; `LifeCycle` is what says that nobody was closing it before.
* **RateLimiterProofs** - `TypeCorrect`, `RateKept`, `HalfRateSafe`, for every rate
  and every resolution of the clock. `Worth` is what the code's bucket is worth
  with the time it has not turned into tokens; the exact bucket is behind it by
  less than a token (`FullCovers`), and the one of half the rate is not ahead of
  the tokens counted twice (`HalfCovered`): a refill of `k >= 1` whole tokens
  throws away less than one more. Products of variables are beyond the solver, so
  they are kept to the lemmas `Distribute`, `Monotone` and `Division`.
* **SendingProofs** - `NextIInv`, `TypeCorrect`, `ContextsOwned`, `StrayBounded`.
  `Owned` and `Found` say with `Once` and `Occurs` that a context is somewhere and
  never in two places, without counting; `OwnedOnePlace` turns that into the
  cardinality of `OnePlace`. `Busy` ties a thread's place to its context, `Handled`
  says that a handle in use belongs to one session that is open, and that a thread
  which has read a session's handle still has it unless the session has
  disconnected: hence `StrayOnlyAfterClose`.
  Three more results are about what is in the buffers:
  - `ArriveIntact`. `Intact` says "a prefix", which a step that appends to `posted`
    would break; `Ordered` says more of a connection that is open and has not
    broken: what went out followed by what is pending *is* what was handed over.
    `ConnectionStep` lists what a step can do to one connection (nothing, give up,
    take a packet, deliver one), `ContentsKept` says that the memory behind a pending
    context does not change, because its context is owned by the kernel (`OnePlace`)
    and a shared buffer is alive while a context keeps it (`BufferAlive`).
  - `ImplementsStreams`, the refinement of PacketStream, from the same four cases.
  - `ClientsDecode`. `Written` follows the packets from the sender through the
    contexts and shared buffers to `posted`; with `Intact` a client gets only packets
    that `Packet` has made. What the codec then reads is a hypothesis, `CodecRight`,
    since it is about folds (below); `CastsFit` is the check of the size that `Send`
    makes and `BroadcastShared` does not. MCSending evaluates both for its messages.
* **LifecycleProofs** - `ComposesAuthService` (`LifeSpec => Spec`: the process
  implements AuthService's specification, so `LoginAnsweredOnce` and
  `LoginsDrained` follow from AuthServiceProofs), `NoLineLost` (`LogInv`: lines in
  order, and a worker that is done has left nothing that was there when the flag
  was cleared), `NobodyOutlives` (`DownOrder`: from each statement of the destructor
  on, the threads it has joined are gone), `LoginsWakeWorkers` (`NoWakeupLost` carried
  over by `ComposesAuthService`), `AbruptInTwoWays` (`JoinOrder`: which `std::thread`
  objects can be joinable at each statement, given whether `Start` came to its end).

Only model-checked: the liveness properties (fairness and `ENABLED` are beyond the
prover), and the codec's assumptions (`SizeAgrees`, `RoundTrip`,
`ConcatenationMerges`, `BadInputRefused`, and with them `CodecRight`): they are about
what folds over sequences compute, which needs induction over data. All
invariants and action properties of the passing runs are theorems; `DecodesAsSent`
is one under the two hypotheses named above. Conversely, the type
invariants of RecvBuffer, Connections, Sending and AuthService are left to their
`TypeCorrect` theorems, and `InGameHasTwo` and `ContractKept` under failing sends,
which only `RoomGC` has, to `GamesHaveTwo` and `RoomsKeepContract`.

## 5. Plan

Done, in this order: GameRoom, RoomContract, RoomServer, RecvBuffer, AuthService,
Connections, RateLimiter, Messages, Sending, Logger, Lifecycle, and their proofs.
The room life cycle came first because most threads meet there.

What could follow:

1. **One field of the codec** - what `Parse` makes of one encoded field is provable
   without induction, and would leave only the fold over the fields to TLC.
2. **Rooms that can dangle** - with `LeaverFindsRoom` proved, say exactly when the
   other three holders of a pointer can be left with a freed room.
3. **Receive path and rate limit together** - a refusal in the middle of a buffer
   that holds more packets.

## 6. Not modelled

* Data races on the containers themselves: `FindReconnect` and
  `GetRoomInfoList` read `m_pendingReconnects`, `m_members` and `m_state` while
  the tick thread may be changing them. The model reads before or after a job;
  what a torn read of an `unordered_map` returns is outside it.
* `PostRecv` checks `m_disconnected` and then reads the socket handle, as `PostSend`
  does: between the two the handle may be closed and used again, and the receive
  goes to another client's connection. Sending models this window for `WSASend`;
  RecvBuffer is about one connection and has no second one to receive from.
* Bytes: texts of requests and answers (HTTP, JSON, log lines), positions of moves,
  and of protobuf the descriptors, reflection, arenas, swapping and `release_`
  accessors, which the server does not use.
* `HttpClient` (blocking I/O without state), `Config` (parsed before there is a
  second thread), `ServerStats` and the numbers `RegistryThread` reports (nobody
  decides on them), `TestClient`.
* `m_recvContext` owns its session and the session owns it, so neither is freed;
  this follows from two assignments and no step could change it.
* `MemoryPool`, which nothing uses.
* Integer widths: the header's size is kept modulo 2^16 in Messages. In the receive
  path sums are computed in wider types, the rate limiter's products fit in
  `int64_t`, and the model uses integers.
