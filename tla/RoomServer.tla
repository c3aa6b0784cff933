----------------------------- MODULE RoomServer -----------------------------
(***************************************************************************)
(* Sessions, rooms and the threads that meet in them:                      *)
(*   - IOCP workers run a session's packet handlers (Logic.cpp), which     *)
(*     never touch a room but push jobs to its queue;                      *)
(*   - the tick thread (RoomManager::TickAll, GameRoom::Tick) takes a      *)
(*     snapshot of the rooms, then flushes each queue and runs the jobs;   *)
(*   - AuthService workers run the callbacks of C_LOGIN, which may push a  *)
(*     rejoin job;                                                         *)
(*   - any thread may notice that a connection is gone (HandleDisconnect); *)
(*   - the heartbeat thread frees rooms that have long been empty.  It     *)
(*     holds m_lock meanwhile, but the tick thread, which is inside the    *)
(*     rooms without m_lock, may go on between its load of a room's stamp  *)
(*     and the erase.                                                      *)
(*                                                                         *)
(* A room pointer obtained from RoomManager is used after m_lock has been  *)
(* released, so each lookup and the use of its result are two steps.       *)
(* A handler's GetRoom() followed by PushJob() is one step: the room has a *)
(* member then, so that the only erase that could fall between the two is  *)
(* one decided before that member came in.  m_room dangles after it, and   *)
(* the push a step later is the same use of a freed room.                  *)
(***************************************************************************)
EXTENDS GameRoom, Sequences, Functions

CONSTANTS
    Names,        \* room names clients may ask for
    InitAccount,  \* [Sessions -> AccountIds]: who has logged in already
    LoginAs,      \* [Sessions -> SUBSET Accounts]: accounts whose token a client holds
    Packets,      \* [Sessions -> SUBSET PacketTypes]: what each client sends
    MayDrop,      \* sessions whose connection may be lost or time out
    SendMayFail,  \* sessions on which WSASend may fail
    RoomGC,       \* whether the heartbeat thread gets to free rooms
    MaxRooms,     \* bound: rooms ever created
    MaxJobs,      \* bound: clients send only while fewer jobs wait
    MaxLogins     \* bound: logins under way for one session

ASSUME InitAccountType == InitAccount \in [Sessions -> AccountIds]
ASSUME LoginAsType == LoginAs \in [Sessions -> SUBSET Accounts]
PacketTypes == {"C_LOGIN", "C_CHAT", "C_ROOM_ENTER", "C_ROOM_LEAVE", "C_MOVE", "C_PING",
                "C_ROOM_LIST", "C_READY"}

ASSUME PacketsType == Packets \in [Sessions -> SUBSET PacketTypes]
ASSUME BoundsType == MaxRooms \in Nat /\ MaxJobs \in Nat /\ MaxLogins \in Nat
ASSUME SwitchesType == MayDrop \subseteq Sessions /\ SendMayFail \subseteq Sessions /\ RoomGC \in BOOLEAN

VARIABLES
    room,         \* [RoomIds -> Room]: the GameRoom objects
    queue,        \* [RoomIds -> Seq(Job)]: m_jobQueue of each
    heap,         \* the objects that are allocated
    created,      \* how many were ever allocated
    registry,     \* [Names -> RoomRefs]: RoomManager::m_rooms
    sweep,        \* RemoveIdleRooms: elapsed rooms its loop has not looked at yet
    doomed,       \* the room whose elapsed stamp it has loaded and will erase
    overtaken,    \* history: rooms somebody came into while they were doomed
    todo,         \* TickAll's snapshot: the rooms it still has to tick
    cur,          \* the room in whose Tick() the tick thread is
    batch,        \* the jobs Flush() swapped out and has not run yet
    acct,         \* m_accountId of each session
    roomOf,       \* m_room of each session
    disconnected, \* sessions whose m_disconnected is set
    closing,      \* sessions inside HandleDisconnect, with what GetRoom() returned
    recv,         \* sessions with a receive posted or being handled
    entering,     \* the pointer Handle_C_ROOM_ENTER got from GetOrCreate
    logins,       \* validations session-server has not answered, per session
    found,        \* callbacks between SetAccountId and FindReconnect
    rejoining,    \* callbacks between FindReconnect and PushJob
    uaf           \* a thread has dereferenced a freed room: from here on the
                  \* program has no meaning, and the model says nothing of it

tickVars    == <<todo, cur, batch>>
roomVars    == <<heap, created, registry, sweep, doomed, overtaken>>
sessionVars == <<acct, roomOf, disconnected, closing, recv>>
authVars    == <<logins, found, rejoining>>
vars == <<room, queue, roomVars, tickVars, sessionVars, entering, authVars, uaf>>

None     == 0
RoomIds  == 1 .. MaxRooms
RoomRefs == 0 .. MaxRooms

\* Jobs about a session hold the session; the others captured its account id.
Job == [op : {"Enter", "Leave", "LeaveAck", "Rejoin"}, s : Sessions]
         \cup [op : {"Ready", "Move", "Chat"}, a : AccountIds]

SessionJob(op, s) == [op |-> op, s |-> s]
AccountJob(op, a) == [op |-> op, a |-> a]

Init ==
    /\ room = [r \in RoomIds |-> NewRoom]
    /\ queue = [r \in RoomIds |-> <<>>]
    /\ heap = {} /\ created = 0
    /\ registry = [n \in Names |-> None]
    /\ sweep = {} /\ doomed = None /\ overtaken = {}
    /\ todo = {} /\ cur = None /\ batch = <<>>
    /\ acct = InitAccount
    /\ roomOf = [s \in Sessions |-> None]
    /\ disconnected = {} /\ closing = {}
    /\ recv = Sessions
    /\ entering = [s \in Sessions |-> None]
    /\ logins = [s \in Sessions |-> 0]
    /\ found = {} /\ rejoining = {}
    /\ uaf = FALSE

----------------------------------------------------------------------------
(* Sending, and the queue.                                                  *)

\* Send, SendRaw, SendShared to each of a set of sessions.  A disconnected
\* session is skipped; a WSASend that fails calls Disconnect(), and only it.
Send(recipients) ==
    \E failed \in SUBSET ((recipients \cap SendMayFail) \ disconnected) :
        disconnected' = disconnected \cup failed

Pushed(r, job) == [queue EXCEPT ![r] = Append(@, job)]

\* PushJob on a pointer from RoomManager or m_room; the room may be gone by now.
PushJob(r, job) ==
    IF r \in heap THEN queue' = Pushed(r, job) /\ uaf' = uaf
                  ELSE uaf' = TRUE /\ UNCHANGED queue

\* RemoveIdleRooms holds m_lock: GetOrCreate, FindReconnect, GetRoomInfoList and
\* TickAll's snapshot wait.
Locked == sweep # {} \/ doomed # None

\* All jobs that have been pushed and have not been run.
JobsWaiting == Len(batch) + SumFunction([r \in RoomIds |-> Len(queue[r])])

\* A worker is in HandleRecv's loop for s and finds a packet of type p.  The
\* loop does not look at m_disconnected.
Receives(s, p) ==
    /\ p \in Packets[s]
    /\ s \in recv
    /\ entering[s] = None
    /\ JobsWaiting < MaxJobs

----------------------------------------------------------------------------
(* Packet handlers (Logic.cpp), run by IOCP workers.                        *)

\* A packet that GetRoom() routes to the sender's room as one job.
PushToOwnRoom(s, job) ==
    /\ roomOf[s] # None
    /\ PushJob(roomOf[s], job)
    /\ UNCHANGED <<room, roomVars, tickVars, sessionVars, entering, authVars>>

Handle_C_CHAT(s) ==
    Receives(s, "C_CHAT") /\ PushToOwnRoom(s, AccountJob("Chat", acct[s]))

Handle_C_MOVE(s) ==
    Receives(s, "C_MOVE") /\ PushToOwnRoom(s, AccountJob("Move", acct[s]))

Handle_C_READY(s) ==
    /\ Receives(s, "C_READY")
    /\ acct[s] # NoAccount
    /\ PushToOwnRoom(s, AccountJob("Ready", acct[s]))

\* The packets, and the early returns, that only send an answer.
Answer(s) ==
    /\ Send({s})
    /\ UNCHANGED <<room, queue, roomVars, tickVars, acct, roomOf, closing, recv,
                   entering, authVars, uaf>>

Handle_C_PING(s) == Receives(s, "C_PING") /\ Answer(s)

\* Reads the rooms under m_lock and sends their number, sizes and states.
Handle_C_ROOM_LIST(s) == Receives(s, "C_ROOM_LIST") /\ ~Locked /\ Answer(s)

Handle_C_ROOM_LEAVE(s) ==
    /\ Receives(s, "C_ROOM_LEAVE")
    /\ \/ roomOf[s] = None /\ Answer(s)
       \/ PushToOwnRoom(s, SessionJob("LeaveAck", s))

\* Mutant of GetOrCreate: it builds a room without looking for one.
AlwaysCreate(s, n) ==
    /\ created < MaxRooms
    /\ created' = created + 1
    /\ heap' = heap \cup {created'}
    /\ registry' = [registry EXCEPT ![n] = created']
    /\ entering' = [entering EXCEPT ![s] = created']
    /\ UNCHANGED <<sweep, doomed, overtaken>>

\* GetOrCreate, under m_lock: the registered room, or a new one.
GetOrCreate(s, n) ==
    \/ /\ registry[n] # None
       /\ entering' = [entering EXCEPT ![s] = registry[n]]
       /\ UNCHANGED roomVars
    \/ /\ registry[n] = None
       /\ created < MaxRooms
       /\ created' = created + 1
       /\ heap' = heap \cup {created'}
       /\ registry' = [registry EXCEPT ![n] = created']
       /\ entering' = [entering EXCEPT ![s] = created']
       /\ UNCHANGED <<sweep, doomed, overtaken>>

\* Leaves the room the session is in, if any, then looks the new one up.
ChangeRoom(s, n) ==
    /\ \/ roomOf[s] = None /\ UNCHANGED <<queue, uaf>>
       \/ roomOf[s] # None /\ PushJob(roomOf[s], SessionJob("Leave", s))
    /\ ~Locked
    /\ GetOrCreate(s, n)
    /\ UNCHANGED <<room, tickVars, sessionVars, authVars>>

Handle_C_ROOM_ENTER(s, n) ==
    /\ Receives(s, "C_ROOM_ENTER")
    /\ \/ acct[s] = NoAccount /\ Answer(s)
       \/ acct[s] # NoAccount /\ ChangeRoom(s, n)

EnterPush(s) ==
    /\ entering[s] # None
    /\ PushJob(entering[s], SessionJob("Enter", s))
    /\ entering' = [entering EXCEPT ![s] = None]
    /\ UNCHANGED <<room, roomVars, tickVars, sessionVars, authVars>>

----------------------------------------------------------------------------
(* C_LOGIN and its callback, run by AuthService workers.                    *)

\* Validations asked for by s that have not run their whole callback.
Underway(s) == logins[s] + Cardinality({c \in found \cup rejoining : c[1] = s})

\* ValidateAsync.
AsksSessionServer(s) ==
    /\ Underway(s) < MaxLogins
    /\ logins' = [logins EXCEPT ![s] = @ + 1]
    /\ UNCHANGED <<room, queue, roomVars, tickVars, sessionVars, entering, found, rejoining, uaf>>

\* An empty token is refused at once.
Handle_C_LOGIN(s) == Receives(s, "C_LOGIN") /\ (Answer(s) \/ AsksSessionServer(s))

\* Mutant of LoginRefused: one answer is delivered more than once.
AnsweredAgain(s) ==
    /\ logins' = [logins EXCEPT ![s] = @ - 1]
    /\ Send({s})
    /\ UNCHANGED <<room, queue, roomVars, tickVars, acct, roomOf, closing, recv,
                   entering, found, rejoining, uaf>>

\* session-server refused the token, or could not be reached.
LoginRefused(s) ==
    /\ logins[s] > 0
    /\ logins' = [logins EXCEPT ![s] = @ - 1]
    /\ Send({s})
    /\ UNCHANGED <<room, queue, roomVars, tickVars, acct, roomOf, closing, recv,
                   entering, found, rejoining, uaf>>

\* Mutant of LoginConfirmed: the account is not stored in the session.
ConfirmedNotStored(s, a) ==
    /\ logins[s] > 0
    /\ a \in LoginAs[s]
    /\ logins' = [logins EXCEPT ![s] = @ - 1]
    /\ found' = found \cup {<<s, a>>}
    /\ UNCHANGED <<room, queue, roomVars, tickVars, acct, roomOf, disconnected, closing, recv,
                   entering, rejoining, uaf>>

\* SetAccountId.  The callback does not look at m_disconnected.
LoginConfirmed(s, a) ==
    /\ logins[s] > 0
    /\ a \in LoginAs[s]
    /\ logins' = [logins EXCEPT ![s] = @ - 1]
    /\ acct' = [acct EXCEPT ![s] = a]
    /\ found' = found \cup {<<s, a>>}
    /\ UNCHANGED <<room, queue, roomVars, tickVars, roomOf, disconnected, closing, recv,
                   entering, rejoining, uaf>>

\* FindReconnect, under m_lock: some registered room with a slot for the account.
FindReconnect(a) ==
    {r \in RoomIds : /\ \E n \in Names : registry[n] = r
                     /\ room[r].slots[a] # "unset"}

LoginWithoutSlot(s, a) ==
    /\ <<s, a>> \in found
    /\ ~Locked
    /\ FindReconnect(a) = {}
    /\ found' = found \ {<<s, a>>}
    /\ Send({s})
    /\ UNCHANGED <<room, queue, roomVars, tickVars, acct, roomOf, closing, recv,
                   entering, logins, rejoining, uaf>>

LoginWithSlot(s, a) ==
    /\ <<s, a>> \in found
    /\ ~Locked
    /\ found' = found \ {<<s, a>>}
    /\ \E r \in FindReconnect(a) : rejoining' = rejoining \cup {<<s, r>>}
    /\ UNCHANGED <<room, queue, roomVars, tickVars, sessionVars, entering, logins, uaf>>

\* PushJob of the rejoin job, then S_LOGIN.
RejoinPush(s, r) ==
    /\ <<s, r>> \in rejoining
    /\ rejoining' = rejoining \ {<<s, r>>}
    /\ PushJob(r, SessionJob("Rejoin", s))
    /\ Send({s})
    /\ UNCHANGED <<room, roomVars, tickVars, acct, roomOf, closing, recv, entering, logins, found>>

----------------------------------------------------------------------------
(* Losing a connection.                                                     *)

\* m_disconnected.exchange(true) succeeds: the thread goes on with the cleanup.
Disconnect(s) ==
    /\ disconnected' = disconnected \cup {s}
    /\ closing' = closing \cup {<<s, None>>}

\* The receive fails or returns 0 bytes, a guard of HandleRecv rejects the
\* packet, or PostRecv finds the session disconnected: the last use of recv.
\* HandleDisconnect returns at once if somebody else has disconnected.
ReceiveEnds(s) ==
    /\ s \in recv
    /\ entering[s] = None
    /\ recv' = recv \ {s}
    /\ \/ s \in disconnected /\ UNCHANGED <<disconnected, closing>>
       \/ s \in MayDrop \ disconnected /\ Disconnect(s)
    /\ UNCHANGED <<room, queue, roomVars, tickVars, acct, roomOf, entering, authVars, uaf>>

\* The heartbeat thread finds the session timed out, or a send completion
\* reports failure: HandleDisconnect while the receive is still in use.
TimeOut(s) ==
    /\ s \in MayDrop \ disconnected
    /\ s \in recv
    /\ Disconnect(s)
    /\ UNCHANGED <<room, queue, roomVars, tickVars, acct, roomOf, recv, entering, authVars, uaf>>

\* The rest of HandleDisconnect: GetRoom() ...
DisconnectReadsRoom(s) ==
    /\ <<s, None>> \in closing
    /\ closing' = (closing \ {<<s, None>>})
                    \cup (IF roomOf[s] = None THEN {} ELSE {<<s, roomOf[s]>>})
    /\ UNCHANGED <<room, queue, roomVars, tickVars, acct, roomOf, disconnected, recv,
                   entering, authVars, uaf>>

\* ... then SetRoom(nullptr), whatever m_room is by now, and the leave job.
DisconnectLeavesRoom(s, r) ==
    /\ r # None /\ <<s, r>> \in closing
    /\ closing' = closing \ {<<s, r>>}
    /\ roomOf' = [roomOf EXCEPT ![s] = None]
    /\ PushJob(r, SessionJob("Leave", s))
    /\ UNCHANGED <<room, roomVars, tickVars, acct, disconnected, recv, entering, authVars>>

FinishDisconnect(s) ==
    DisconnectReadsRoom(s) \/ \E r \in RoomIds : DisconnectLeavesRoom(s, r)

----------------------------------------------------------------------------
(* The tick thread.                                                         *)

Registered == {registry[n] : n \in Names} \ {None}

\* TickAll's snapshot, under m_lock; the order of an unordered_map is any order.
TickAll ==
    /\ cur = None /\ todo = {}
    /\ ~Locked
    /\ todo' = Registered
    /\ UNCHANGED <<room, queue, roomVars, cur, batch, sessionVars, entering, authVars, uaf>>

\* room->Tick() begins: Flush swaps the queue out.
TickFlush(r) ==
    /\ cur = None /\ r \in todo /\ r \in heap
    /\ todo' = todo \ {r} /\ cur' = r
    /\ batch' = queue[r]
    /\ queue' = [queue EXCEPT ![r] = <<>>]
    /\ UNCHANGED <<room, roomVars, sessionVars, entering, authVars, uaf>>

\* The tick thread uses a room that has been freed.  What the rest of Tick()
\* does with it is not modelled: no property says anything once uaf is set.
TickFreed ==
    /\ \/ cur = None /\ \E r \in todo : r \notin heap
       \/ cur # None /\ cur \notin heap
    /\ uaf' = TRUE
    /\ UNCHANGED <<room, queue, roomVars, tickVars, sessionVars, entering, authVars>>

\* The next job of the batch, on a room that is still there.
Runs(op) ==
    /\ cur \in heap
    /\ batch # <<>>
    /\ Head(batch).op = op
    /\ batch' = Tail(batch)

\* History: the job brings somebody into the room it runs in.
ComesIn == overtaken' = IF cur = doomed THEN overtaken \cup {cur} ELSE overtaken

Becomes(rm) == room' = [room EXCEPT ![cur] = rm]

RunEnter ==
    /\ Runs("Enter")
    /\ LET s == Head(batch).s
       IN  /\ Becomes(HandleEnter(room[cur], s))
           /\ roomOf' = IF Admits(room[cur]) THEN [roomOf EXCEPT ![s] = cur] ELSE roomOf
           /\ Send(EnterRecipients(room[cur], s))
    /\ IF Admits(room[cur]) THEN ComesIn ELSE UNCHANGED overtaken
    /\ UNCHANGED <<queue, heap, created, registry, sweep, doomed, todo, cur, acct, closing, recv,
                   entering, authVars, uaf>>

\* The leave jobs; the one of C_ROOM_LEAVE also answers the sender.
LeaveAnswered == IF Head(batch).op = "LeaveAck" THEN {Head(batch).s} ELSE {}

\* Mutant of RunLeave: HandleLeave does not clear m_room.
RunLeaveKeepsPointer ==
    /\ Runs("Leave") \/ Runs("LeaveAck")
    /\ LET s == Head(batch).s
       IN  /\ Becomes(HandleLeave(room[cur], s, acct[s]))
           /\ Send(LeaveRecipients(room[cur], s) \cup LeaveAnswered)
    /\ UNCHANGED <<queue, roomVars, todo, cur, acct, roomOf, closing, recv, entering, authVars, uaf>>

\* Mutant of RunLeave: the job gives up on a session that has disconnected.
RunLeaveIfConnected ==
    /\ Runs("Leave") \/ Runs("LeaveAck")
    /\ LET s == Head(batch).s
       IN  IF s \in disconnected THEN UNCHANGED <<room, roomOf, disconnected>>
           ELSE /\ Becomes(HandleLeave(room[cur], s, acct[s]))
                /\ roomOf' = IF s \in room[cur].members THEN [roomOf EXCEPT ![s] = None] ELSE roomOf
                /\ Send(LeaveRecipients(room[cur], s) \cup LeaveAnswered)
    /\ UNCHANGED <<queue, roomVars, todo, cur, acct, closing, recv, entering, authVars, uaf>>

RunLeave ==
    /\ Runs("Leave") \/ Runs("LeaveAck")
    /\ LET s == Head(batch).s
       IN  /\ Becomes(HandleLeave(room[cur], s, acct[s]))
           /\ roomOf' = IF s \in room[cur].members THEN [roomOf EXCEPT ![s] = None] ELSE roomOf
           /\ Send(LeaveRecipients(room[cur], s) \cup LeaveAnswered)
    /\ UNCHANGED <<queue, roomVars, todo, cur, acct, closing, recv, entering, authVars, uaf>>

RunRejoin ==
    /\ Runs("Rejoin")
    /\ LET s == Head(batch).s
       IN  /\ Becomes(HandleRejoin(room[cur], s, acct[s]))
           /\ roomOf' = [roomOf EXCEPT ![s] = cur]
           /\ Send(RejoinRecipients(room[cur], s))
    /\ ComesIn
    /\ UNCHANGED <<queue, heap, created, registry, sweep, doomed, todo, cur, acct, closing, recv,
                   entering, authVars, uaf>>

RunReady ==
    /\ Runs("Ready")
    /\ Becomes(HandleReady(room[cur], Head(batch).a))
    /\ Send(ReadyRecipients(room[cur]))
    /\ UNCHANGED <<queue, roomVars, todo, cur, acct, roomOf, closing, recv, entering, authVars, uaf>>

RunMove ==
    /\ Runs("Move")
    /\ Becomes(HandleMove(room[cur], Head(batch).a))
    /\ UNCHANGED <<queue, roomVars, todo, cur, sessionVars, entering, authVars, uaf>>

RunChat ==
    /\ Runs("Chat")
    /\ Send(room[cur].members)
    /\ UNCHANGED <<room, queue, roomVars, todo, cur, acct, roomOf, closing, recv, entering, authVars, uaf>>

\* The rest of Tick(), after the last job.
TickEnds ==
    /\ cur \in heap /\ batch = <<>>
    /\ Becomes(TickRest(room[cur]))
    /\ Send(TickRecipients(room[cur]))
    /\ cur' = None
    /\ UNCHANGED <<queue, roomVars, todo, batch, acct, roomOf, closing, recv, entering, authVars, uaf>>

RunsJob == RunEnter \/ RunLeave \/ RunRejoin \/ RunReady \/ RunMove \/ RunChat

TickThread ==
    TickAll \/ (\E r \in RoomIds : TickFlush(r)) \/ TickFreed \/ RunsJob \/ TickEnds

----------------------------------------------------------------------------
(* The heartbeat thread and the clocks.                                     *)

\* Mutant of Expired: the test emptySince > 0 is missing, and 0 is long ago.
ExpiredSinceZero(r) == room[r].emptySince # "recent"

Expired(r) == room[r].emptySince = "elapsed"

Idle == {r \in Registered : Expired(r)}

\* RemoveIdleRooms takes m_lock and reads the clock.  The loop has work to do
\* for rooms whose timeout has passed by then, and keeps every other one.
SweepBegins ==
    /\ RoomGC
    /\ ~Locked /\ Idle # {}
    /\ sweep' = Idle
    /\ UNCHANGED <<room, queue, heap, created, registry, doomed, overtaken, tickVars, sessionVars,
                   entering, authVars, uaf>>

\* It loads the stamp of the next room, which a job may have cleared since.
SweepLoads(r) ==
    /\ doomed = None
    /\ r \in sweep
    /\ sweep' = sweep \ {r}
    /\ doomed' = IF Expired(r) THEN r ELSE None
    /\ UNCHANGED <<room, queue, heap, created, registry, overtaken, tickVars, sessionVars,
                   entering, authVars, uaf>>

\* It erases the room without another look; jobs still queued go with it.
SweepErases ==
    /\ doomed # None
    /\ heap' = heap \ {doomed}
    /\ registry' = [n \in Names |-> IF registry[n] = doomed THEN None ELSE registry[n]]
    /\ queue' = [queue EXCEPT ![doomed] = <<>>]
    /\ doomed' = None
    /\ UNCHANGED <<room, created, sweep, overtaken, tickVars, sessionVars, entering, authVars, uaf>>

RemoveIdleRooms == SweepBegins \/ (\E r \in RoomIds : SweepLoads(r)) \/ SweepErases

Ages(r, rm) ==
    /\ r \in heap
    /\ room' = [room EXCEPT ![r] = rm]
    /\ UNCHANGED <<queue, roomVars, tickVars, sessionVars, entering, authVars, uaf>>

\* The idle timeout (60 s) is long compared with a tick or a handler: it does
\* not run out while the tick thread is inside the room, while RemoveIdleRooms
\* is on its way to it, or while a thread is between getting a pointer to the
\* room and pushing its job.
InUse(r) ==
    \/ cur = r \/ doomed = r \/ r \in sweep
    \/ \E s \in Sessions : entering[s] = r \/ <<s, r>> \in rejoining \cup closing

IdleTimeoutPasses(r) ==
    /\ room[r].emptySince = "recent"
    /\ ~InUse(r)
    /\ Ages(r, [room[r] EXCEPT !.emptySince = "elapsed"])

ReconnectWindowPasses(r, a) ==
    /\ room[r].slots[a] = "recent"
    /\ Ages(r, [room[r] EXCEPT !.slots[a] = "elapsed"])

ResultDelayPasses(r) ==
    /\ room[r].finishedAt = "recent"
    /\ Ages(r, [room[r] EXCEPT !.finishedAt = "elapsed"])

----------------------------------------------------------------------------
Handlers(s) ==
    \/ Handle_C_CHAT(s) \/ Handle_C_MOVE(s) \/ Handle_C_READY(s)
    \/ Handle_C_ROOM_LEAVE(s) \/ Handle_C_PING(s) \/ Handle_C_ROOM_LIST(s)
    \/ \E n \in Names : Handle_C_ROOM_ENTER(s, n)
    \/ EnterPush(s)
    \/ Handle_C_LOGIN(s)

Callbacks(s) ==
    \/ LoginRefused(s)
    \/ \E a \in Accounts : LoginConfirmed(s, a) \/ LoginWithoutSlot(s, a) \/ LoginWithSlot(s, a)
    \/ \E r \in RoomIds : RejoinPush(s, r)

Connection(s) == ReceiveEnds(s) \/ TimeOut(s) \/ FinishDisconnect(s)

Clocks(r) ==
    \/ IdleTimeoutPasses(r) \/ ResultDelayPasses(r)
    \/ \E a \in AccountIds : ReconnectWindowPasses(r, a)

Next ==
    \/ \E s \in Sessions : Handlers(s) \/ Callbacks(s) \/ Connection(s)
    \/ TickThread
    \/ RemoveIdleRooms
    \/ \E r \in RoomIds : Clocks(r)

Spec == Init /\ [][Next]_vars

\* The tick and heartbeat threads run for as long as the server does, a
\* handler or callback that has begun goes on, HttpClient has timeouts, the
\* receive of a closed socket completes, and time passes (strongly fair where
\* a guard comes and goes).  Nobody makes a client send anything.
Fairness ==
    /\ WF_vars(TickThread)
    /\ WF_vars(RemoveIdleRooms)
    /\ \A s \in Sessions :
         /\ WF_vars(EnterPush(s))
         /\ WF_vars(Callbacks(s))
         /\ WF_vars(FinishDisconnect(s))
         /\ WF_vars(s \in disconnected /\ ReceiveEnds(s))
    /\ \A r \in RoomIds :
         /\ SF_vars(IdleTimeoutPasses(r))
         /\ WF_vars(ResultDelayPasses(r))

FairSpec == Spec /\ Fairness

----------------------------------------------------------------------------
(* Properties that hold.  Each but the types ends where a freed room has    *)
(* been used (uaf): nothing is claimed of the program from there on.        *)

TypeOK ==
    /\ room \in [RoomIds -> Room]
    /\ queue \in [RoomIds -> Seq(Job)]
    /\ heap \subseteq RoomIds
    /\ created \in RoomRefs
    /\ registry \in [Names -> RoomRefs]
    /\ sweep \subseteq RoomIds /\ overtaken \subseteq RoomIds
    /\ doomed \in RoomRefs
    /\ todo \subseteq RoomIds
    /\ cur \in RoomRefs
    /\ batch \in Seq(Job)
    /\ acct \in [Sessions -> AccountIds]
    /\ roomOf \in [Sessions -> RoomRefs]
    /\ disconnected \subseteq Sessions
    /\ closing \subseteq Sessions \X RoomRefs
    /\ recv \subseteq Sessions
    /\ entering \in [Sessions -> RoomRefs]
    /\ logins \in [Sessions -> Nat]
    /\ found \subseteq Sessions \X Accounts
    /\ rejoining \subseteq Sessions \X RoomIds
    /\ uaf \in BOOLEAN

\* A running game has at least two players, whoever leaves, drops or rejoins:
\* HandleLeave ends the game before a single player could be left in it, so
\* its branch for an empty room in IN_GAME is never taken.
InGameHasTwo ==
    ~uaf => \A r \in RoomIds : room[r].state = "IN_GAME" => Cardinality(room[r].members) >= 2

\* Ready marks never survive the start of a game, so that no game starts on
\* the marks of an earlier one (HandleReady's guard and TryStartGame's clear).
ReadyOnlyWhileWaiting ==
    ~uaf => \A r \in RoomIds : room[r].state # "WAITING" => room[r].ready = {}

\* Between two jobs, a room that carries an empty-since stamp is empty: the stamp,
\* the only thing RemoveIdleRooms looks at, is not left over from before the last
\* player came in.
EmptyMarkSound ==
    ~uaf => \A r \in RoomIds : room[r].emptySince # "unset" => room[r].members = {}

\* m_room, which workers follow without a lock, points to a room that has the
\* session as a member, or is null.  It dangles in one case only: an Enter or
\* Rejoin job came into the room after RemoveIdleRooms had loaded its elapsed
\* stamp and before it erased the room.
RoomPointerSafe ==
    ~uaf => \A s \in Sessions :
        roomOf[s] # None =>
            /\ roomOf[s] \in heap => s \in room[roomOf[s]].members
            /\ roomOf[s] \notin heap => roomOf[s] \in overtaken

\* HandleDisconnect pushes its leave job to a room that is still there, even if
\* the last player leaves it and RemoveIdleRooms runs after GetRoom(): the room
\* was not empty then, so its idle time begins anew when it becomes empty.  The
\* exception is the one of RoomPointerSafe.
LeaverFindsRoom ==
    ~uaf => \A s \in Sessions, r \in RoomIds :
        <<s, r>> \in closing => r \in heap \/ r \in overtaken

\* Every allocated room is registered under exactly one name, so nobody is
\* playing in a room that new players cannot reach and TickAll does not tick.
RegistryOwnsRooms ==
    ~uaf =>
      /\ heap = Registered
      /\ \A m, n \in Names : registry[m] = registry[n] /\ registry[m] # None => m = n

\* An Enter job for room r is queued, about to run or about to be pushed.
EnterPending(r) ==
    LET enters(jobs) == \E i \in DOMAIN jobs : jobs[i].op = "Enter"
    IN  \/ enters(queue[r])
        \/ cur = r /\ enters(batch)
        \/ \E s \in Sessions : entering[s] = r

\* An allocated room that is empty and carries no empty-since stamp, which
\* RemoveIdleRooms would keep for ever, has a player on the way into it.
NoForgottenRoom ==
    ~uaf => \A r \in heap :
        room[r].members = {} /\ room[r].emptySince = "unset" => EnterPending(r)

\* Only logged-in sessions are members, and only confirmed accounts are marked
\* ready, although the login is checked long before the job runs.
MembersLoggedIn ==
    ~uaf => \A r \in RoomIds :
        /\ \A s \in room[r].members : acct[s] # NoAccount
        /\ NoAccount \notin room[r].ready \cup room[r].moves

Contract(r) == INSTANCE RoomContract WITH
    Players <- Sessions, phase <- room[r].state, inside <- room[r].members

\* Every step of every thread is, for each room, a step that RoomContract
\* allows (joining, leaving, starting, forfeiting, reset) or none.
ContractStep(r) == Contract(r)!Next \/ UNCHANGED <<room[r].state, room[r].members>>

ContractKept ==
    /\ \A r \in RoomIds : Contract(r)!Init
    /\ [][~uaf' => \A r \in RoomIds : ContractStep(r)]_vars

\* However many clients race for the last seat, a member that is one too many for
\* max_room_players has come in by a rejoin job, which HandleRejoin never refuses,
\* although the seat was not kept.
OnlyRejoinOverfills ==
    [][~uaf' => \A r \in RoomIds :
          /\ ~(room'[r].members \subseteq room[r].members)
          /\ Cardinality(room'[r].members) > MaxPlayers
          => r = cur /\ Head(batch).op = "Rejoin"]_vars

\* A finished room goes back to WAITING, whatever the players do meanwhile,
\* unless it is removed first.
FinishedResets ==
    \A r \in RoomIds :
        room[r].state = "FINISHED" ~> room[r].state = "WAITING" \/ r \notin heap \/ uaf

\* A leave job, from C_ROOM_LEAVE, from changing rooms or from HandleDisconnect,
\* takes the session out of the room in the end, unless the room is removed.
LeaveQueued(r, s) ==
    \E i \in DOMAIN queue[r] :
        queue[r][i] \in {SessionJob("Leave", s), SessionJob("LeaveAck", s)}

LeaveTakesEffect ==
    \A r \in RoomIds, s \in Sessions :
        s \in room[r].members /\ LeaveQueued(r, s)
            ~> s \notin room[r].members \/ r \notin heap \/ uaf

\* A room that everybody has left through HandleLeave is freed by
\* RemoveIdleRooms unless somebody comes back.
EmptiedRoomRemoved ==
    \A r \in RoomIds :
        RoomGC /\ r \in heap /\ room[r].emptySince # "unset"
            ~> r \notin heap \/ room[r].members # {} \/ uaf

----------------------------------------------------------------------------
(* Statements of the repository that the code does not keep.                *)

\* GameRoom.h and Logic.h: the game starts when all players are ready.
StartNeedsAllReady ==
    [][\A r \in RoomIds :
          room[r].state = "WAITING" /\ room'[r].state = "IN_GAME" =>
              {acct[s] : s \in room[r].members} \subseteq room[r].ready \cup {Head(batch).a}]_vars

\* GameRoom.h: only the tick thread touches a room, so it needs no lock.  The
\* heartbeat thread must then not destroy a room another thread is using.
NoUseAfterFree == ~uaf

\* RoomManager.h: a room nobody has been in for idleMs is removed.
Deserted(r) == r \in heap /\ room[r].members \subseteq disconnected

IdleRoomRemoved == \A r \in RoomIds : Deserted(r) ~> ~Deserted(r) \/ uaf
=============================================================================
