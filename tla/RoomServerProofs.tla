-------------------------- MODULE RoomServerProofs --------------------------
(***************************************************************************)
(* RoomServer's safety properties for every number of sessions, accounts,  *)
(* rooms and jobs, and whatever the clients and the network do.            *)
(***************************************************************************)
EXTENDS RoomServer, GameRoomProofs, SequenceTheorems

LEMMA InitType == Init => TypeOK
  <1> SUFFICES ASSUME Init PROVE TypeOK
    OBVIOUS
  <1> USE DEF Init
  <1>1. room \in [RoomIds -> Room]
    BY NewRoomGood
  <1>2. queue \in [RoomIds -> Seq(Job)] /\ batch \in Seq(Job)
    OBVIOUS
  <1>3. /\ heap \subseteq RoomIds /\ created \in RoomRefs /\ registry \in [Names -> RoomRefs]
        /\ todo \subseteq RoomIds /\ cur \in RoomRefs
        /\ sweep \subseteq RoomIds /\ doomed \in RoomRefs /\ overtaken \subseteq RoomIds
        /\ roomOf \in [Sessions -> RoomRefs] /\ entering \in [Sessions -> RoomRefs]
    BY BoundsType DEF RoomRefs, None
  <1>4. acct \in [Sessions -> AccountIds]
    BY InitAccountType
  <1>5. /\ disconnected \subseteq Sessions /\ closing \subseteq Sessions /\ recv \subseteq Sessions
        /\ logins \in [Sessions -> Nat]
    OBVIOUS
  <1>6. found \subseteq Sessions \X Accounts /\ rejoining \subseteq Sessions \X RoomIds
    OBVIOUS
  <1>7. uaf \in BOOLEAN
    OBVIOUS
  <1> QED
    BY <1>1, <1>2, <1>3, <1>4, <1>5, <1>6, <1>7 DEF TypeOK

\* The jobs that the actions push are jobs.
LEMMA JobsTyped ==
    ASSUME NEW s \in Sessions, NEW a \in AccountIds
    PROVE  /\ \A op \in {"Enter", "Leave", "LeaveAck", "Rejoin"} : SessionJob(op, s) \in Job
           /\ \A op \in {"Ready", "Move", "Chat"} : AccountJob(op, a) \in Job
  BY DEF SessionJob, AccountJob, Job

LEMMA NoneIsRef == None \in RoomRefs
  BY BoundsType DEF None, RoomRefs

LEMMA PushedTyped ==
    ASSUME TypeOK, NEW r \in RoomRefs, NEW job \in Job
    PROVE  Pushed(r, job) \in [RoomIds -> Seq(Job)]
  <1>1. queue \in [RoomIds -> Seq(Job)]
    BY DEF TypeOK
  <1>2. \A q \in Seq(Job) : Append(q, job) \in Seq(Job)
    OBVIOUS
  <1> QED
    BY <1>1, <1>2 DEF Pushed

LEMMA SendTyped ==
    ASSUME TypeOK, NEW R \in SUBSET Sessions, Send(R)
    PROVE  disconnected' \subseteq Sessions
  BY DEF TypeOK, Send

LEMMA PushJobTyped ==
    ASSUME TypeOK, NEW r \in RoomRefs, NEW job \in Job, PushJob(r, job)
    PROVE  queue' \in [RoomIds -> Seq(Job)] /\ uaf' \in BOOLEAN
  BY PushedTyped DEF TypeOK, PushJob

\* The job at the head of the batch, by its kind.
LEMMA HeadTyped ==
    ASSUME TypeOK, NEW op, Runs(op)
    PROVE  /\ batch' \in Seq(Job)
           /\ cur \in RoomIds /\ room[cur] \in Room
           /\ op \in {"Enter", "Leave", "LeaveAck", "Rejoin"} => Head(batch).s \in Sessions
           /\ op \in {"Ready", "Move", "Chat"} => Head(batch).a \in AccountIds
  <1>1. batch \in Seq(Job) /\ batch # <<>> /\ Head(batch) \in Job /\ Tail(batch) \in Seq(Job)
    BY DEF TypeOK, Runs
  <1>2. cur \in RoomIds /\ room[cur] \in Room
    BY DEF TypeOK, Runs
  <1>3. Head(batch).op = op
    BY DEF Runs
  <1>4. op \in {"Enter", "Leave", "LeaveAck", "Rejoin"} => Head(batch).s \in Sessions
    BY <1>1, <1>3 DEF Job
  <1>5. op \in {"Ready", "Move", "Chat"} => Head(batch).a \in AccountIds
    BY <1>1, <1>3 DEF Job
  <1> QED
    BY <1>1, <1>2, <1>4, <1>5 DEF Runs

----------------------------------------------------------------------------
(* The inductive invariant.                                                 *)

RoomsGood == \A r \in RoomIds : RoomGood(room[r])

\* The bodies of RoomServer's properties, without their exception for uaf: the
\* model itself never looks into a freed room.
RoomsRegistered ==
    /\ heap = Registered
    /\ \A m, n \in Names : registry[m] = registry[n] /\ registry[m] # None => m = n

\* Where m_room points to.  A freed room is left as it was.
PointersGood ==
    \A s \in Sessions :
        roomOf[s] # None => /\ s \in room[roomOf[s]].members
                            /\ roomOf[s] \in heap \/ roomOf[s] \in overtaken

\* What RemoveIdleRooms has decided.  The room it is about to erase still carries
\* the stamp that was loaded, and so is empty, unless a job has overtaken it.
SweepGood ==
    /\ sweep \subseteq heap \ {doomed}
    /\ doomed # None => /\ doomed \in heap
                        /\ doomed \in overtaken \/ room[doomed].emptySince = "elapsed"

\* Ids are handed out in order, so the next one is not in use.
HeapAllocated == heap \subseteq 1 .. created

IInv ==
    /\ TypeOK
    /\ RoomsGood
    /\ PointersGood
    /\ HeapAllocated
    /\ RoomsRegistered
    /\ SweepGood

\* The variables that IInv says more of than their types.
coreVars == <<room, roomOf, heap, created, registry, sweep, doomed, overtaken>>

LEMMA CoreUnchanged ==
    ASSUME IInv, TypeOK', UNCHANGED coreVars
    PROVE  IInv'
  <1>1. RoomsGood'
    BY DEF IInv, RoomsGood, coreVars, RoomIds
  <1>2. PointersGood'
    BY DEF IInv, PointersGood, coreVars
  <1>3. HeapAllocated' /\ RoomsRegistered' /\ SweepGood'
    BY DEF IInv, HeapAllocated, RoomsRegistered, Registered, SweepGood, coreVars
  <1> QED
    BY <1>1, <1>2, <1>3 DEF IInv

\* One room object changes, and the pointers follow its members.
LEMMA OneRoomChanges ==
    ASSUME IInv, TypeOK', UNCHANGED <<heap, created, registry, sweep, doomed>>,
           overtaken \subseteq overtaken',
           NEW r \in heap, NEW rm \in Room, RoomGood(rm),
           room' = [room EXCEPT ![r] = rm],
           \A t \in Sessions :
               \/ roomOf'[t] = None
               \/ roomOf'[t] = r /\ t \in rm.members
               \/ roomOf'[t] = roomOf[t] /\ roomOf[t] # r,
           \/ r # doomed
           \/ r \in overtaken'
           \/ room[r].emptySince = "elapsed" => rm.emptySince = "elapsed"
    PROVE  IInv'
  <1> USE DEF IInv
  <1>1. r \in RoomIds /\ room \in [RoomIds -> Room] /\ heap' = heap
    BY DEF TypeOK
  <1>2. \A q \in RoomIds : room'[q] = IF q = r THEN rm ELSE room[q]
    BY <1>1
  <1>3. RoomsGood'
    BY <1>2 DEF RoomsGood, RoomIds
  <1>4. PointersGood'
    <2> SUFFICES ASSUME NEW t \in Sessions, roomOf'[t] # None
                 PROVE  /\ t \in room'[roomOf'[t]].members
                        /\ roomOf'[t] \in heap \/ roomOf'[t] \in overtaken'
      BY <1>1 DEF PointersGood
    <2>1. CASE roomOf'[t] = r /\ t \in rm.members
      BY <1>1, <1>2, <2>1
    <2>2. CASE roomOf'[t] = roomOf[t] /\ roomOf[t] # r
      <3>1. /\ t \in room[roomOf[t]].members
            /\ roomOf[t] \in heap \/ roomOf[t] \in overtaken
        BY <2>2 DEF PointersGood
      <3>2. roomOf[t] \in RoomIds
        BY <3>1 DEF TypeOK
      <3> QED
        BY <1>2, <2>2, <3>1, <3>2
    <2> QED
      BY <2>1, <2>2
  <1>5. HeapAllocated' /\ RoomsRegistered'
    BY DEF HeapAllocated, RoomsRegistered, Registered
  <1>6. SweepGood'
    <2>1. doomed # None => doomed \in RoomIds
      BY DEF SweepGood, TypeOK
    <2> QED
      BY <1>2, <2>1 DEF SweepGood
  <1> QED
    BY <1>3, <1>4, <1>5, <1>6

\* The initial state.
LEMMA InitIInv == Init => IInv
  <1> SUFFICES ASSUME Init PROVE IInv
    OBVIOUS
  <1>1. RoomsGood
    BY NewRoomGood DEF Init, RoomsGood
  <1>2. PointersGood
    BY DEF Init, PointersGood
  <1>3. HeapAllocated /\ RoomsRegistered /\ SweepGood
    BY DEF Init, HeapAllocated, RoomsRegistered, Registered, SweepGood
  <1> QED
    BY InitType, <1>1, <1>2, <1>3 DEF IInv

----------------------------------------------------------------------------
(* One lemma per group of actions.                                          *)

\* The packets, and the early returns, that are only answered.
LEMMA AnswerKeeps ==
    ASSUME IInv, NEW s \in Sessions, Answer(s)
    PROVE  IInv'
  <1>1. disconnected' \subseteq Sessions
    BY SendTyped DEF Answer, IInv
  <1>2. TypeOK' /\ UNCHANGED coreVars
    BY <1>1 DEF Answer, IInv, TypeOK, coreVars, roomVars, tickVars, sessionVars, authVars
  <1> QED
    BY <1>2, CoreUnchanged

\* Packet handlers that push a job to the sender's room or only answer.
LEMMA HandlersKeep ==
    ASSUME IInv, NEW s \in Sessions,
           \/ Handle_C_CHAT(s) \/ Handle_C_MOVE(s) \/ Handle_C_READY(s)
           \/ Handle_C_ROOM_LEAVE(s) \/ Handle_C_PING(s) \/ Handle_C_ROOM_LIST(s)
    PROVE  IInv'
  <1> USE DEF IInv
  <1>1. \A job \in Job : PushToOwnRoom(s, job) => TypeOK' /\ UNCHANGED coreVars
    <2> SUFFICES ASSUME NEW job \in Job, PushToOwnRoom(s, job)
                 PROVE  TypeOK' /\ UNCHANGED coreVars
      OBVIOUS
    <2>1. queue' \in [RoomIds -> Seq(Job)] /\ uaf' \in BOOLEAN
      BY PushJobTyped DEF PushToOwnRoom, TypeOK
    <2> QED
      BY <2>1 DEF PushToOwnRoom, TypeOK, coreVars, roomVars, tickVars, sessionVars, authVars
  <1>2. \A job \in Job : PushToOwnRoom(s, job) => IInv'
    BY <1>1, CoreUnchanged
  <1>3. acct[s] \in AccountIds
    BY DEF TypeOK
  <1> QED
    BY <1>2, <1>3, AnswerKeeps, JobsTyped
    DEF Handle_C_CHAT, Handle_C_MOVE, Handle_C_READY, Handle_C_ROOM_LEAVE, Handle_C_PING,
        Handle_C_ROOM_LIST

\* C_ROOM_ENTER before the login, into an existing room and into a new one.
LEMMA EnterKeeps ==
    ASSUME IInv, NEW s \in Sessions, NEW n \in Names, Handle_C_ROOM_ENTER(s, n)
    PROVE  IInv'
  <1> USE DEF IInv
  <1>1. CASE Answer(s)
    BY <1>1, AnswerKeeps
  <1>2. CASE ChangeRoom(s, n)
    <2>1. queue' \in [RoomIds -> Seq(Job)] /\ uaf' \in BOOLEAN
      <3>1. roomOf[s] \in RoomRefs /\ SessionJob("Leave", s) \in Job
        BY JobsTyped DEF TypeOK, AccountIds
      <3> QED
        BY <1>2, <3>1, PushJobTyped DEF ChangeRoom, TypeOK
    <2>2. CASE registry[n] # None
      <3>1. entering' \in [Sessions -> RoomRefs] /\ UNCHANGED roomVars
        BY <1>2, <2>2 DEF ChangeRoom, GetOrCreate, TypeOK
      <3>2. TypeOK' /\ UNCHANGED coreVars
        BY <1>2, <2>1, <3>1
        DEF ChangeRoom, TypeOK, coreVars, roomVars, tickVars, sessionVars, authVars
      <3> QED
        BY <3>2, CoreUnchanged
    <2>3. CASE registry[n] = None
      <3> DEFINE new == created + 1
      <3>1. /\ created < MaxRooms /\ created' = new /\ heap' = heap \cup {new}
            /\ registry' = [registry EXCEPT ![n] = new]
            /\ entering' = [entering EXCEPT ![s] = new]
            /\ UNCHANGED <<sweep, doomed, overtaken>>
        BY <1>2, <2>3 DEF ChangeRoom, GetOrCreate
      <3>2. new \in RoomIds /\ new \in RoomRefs /\ new \notin heap /\ new # None
        BY <3>1, BoundsType DEF TypeOK, RoomIds, RoomRefs, HeapAllocated, None
      <3> HIDE DEF new
      <3>3. TypeOK'
        BY <1>2, <2>1, <3>1, <3>2
        DEF ChangeRoom, TypeOK, roomVars, tickVars, sessionVars, authVars
      <3>4. RoomsGood' /\ PointersGood' /\ SweepGood'
        BY <1>2, <3>1 DEF ChangeRoom, RoomsGood, PointersGood, SweepGood, RoomIds, sessionVars
      <3>5. HeapAllocated'
        BY <3>1 DEF HeapAllocated, TypeOK, RoomRefs, new
      <3>6. RoomsRegistered'
        <4>1. registry \in [Names -> RoomRefs]
          BY DEF TypeOK
        <4>2. \A m \in Names : registry'[m] = IF m = n THEN new ELSE registry[m]
          BY <3>1, <4>1
        <4>3. \A m \in Names : registry[m] # None => registry[m] \in heap
          BY DEF RoomsRegistered, Registered
        <4>4. heap' = Registered'
          BY <2>3, <3>1, <3>2, <4>2 DEF RoomsRegistered, Registered
        <4> QED
          BY <3>2, <4>2, <4>3, <4>4 DEF RoomsRegistered
      <3> QED
        BY <3>3, <3>4, <3>5, <3>6
    <2> QED
      BY <2>2, <2>3
  <1> QED
    BY <1>1, <1>2 DEF Handle_C_ROOM_ENTER

LEMMA EnterPushKeeps ==
    ASSUME IInv, NEW s \in Sessions, EnterPush(s)
    PROVE  IInv'
  <1> USE DEF IInv
  <1>1. queue' \in [RoomIds -> Seq(Job)] /\ uaf' \in BOOLEAN
    <2>1. entering[s] \in RoomRefs /\ SessionJob("Enter", s) \in Job
      BY JobsTyped DEF TypeOK, AccountIds
    <2> QED
      BY <2>1, PushJobTyped DEF EnterPush
  <1>2. entering' \in [Sessions -> RoomRefs]
    BY BoundsType DEF EnterPush, TypeOK, RoomRefs, None
  <1>3. TypeOK' /\ UNCHANGED coreVars
    BY <1>1, <1>2 DEF EnterPush, TypeOK, coreVars, roomVars, tickVars, sessionVars, authVars
  <1> QED
    BY <1>3, CoreUnchanged

\* C_LOGIN and every step of its callback.
LEMMA LoginKeeps ==
    ASSUME IInv, NEW s \in Sessions, Handle_C_LOGIN(s) \/ Callbacks(s)
    PROVE  IInv'
  <1> USE DEF IInv
  <1>1. CASE Handle_C_LOGIN(s)
    <2>1. CASE Answer(s)
      BY <2>1, AnswerKeeps
    <2>2. CASE AsksSessionServer(s)
      BY <2>2, CoreUnchanged
      DEF AsksSessionServer, TypeOK, coreVars, roomVars, tickVars, sessionVars, authVars
    <2> QED
      BY <1>1, <2>1, <2>2 DEF Handle_C_LOGIN
  <1>2. CASE LoginRefused(s)
    <2>1. disconnected' \subseteq Sessions
      BY <1>2, SendTyped DEF LoginRefused
    <2>2. logins' \in [Sessions -> Nat]
      BY <1>2 DEF LoginRefused, TypeOK
    <2>3. TypeOK' /\ UNCHANGED coreVars
      BY <1>2, <2>1, <2>2 DEF LoginRefused, TypeOK, coreVars, roomVars, tickVars
    <2> QED
      BY <2>3, CoreUnchanged
  <1>3. ASSUME NEW a \in Accounts, LoginConfirmed(s, a) PROVE IInv'
    <2>1. logins' \in [Sessions -> Nat]
      BY <1>3 DEF LoginConfirmed, TypeOK
    <2>2. acct' \in [Sessions -> AccountIds]
      BY <1>3 DEF LoginConfirmed, TypeOK, AccountIds
    <2>3. found' \subseteq Sessions \X Accounts
      BY <1>3 DEF LoginConfirmed, TypeOK
    <2>4. TypeOK' /\ UNCHANGED coreVars
      BY <1>3, <2>1, <2>2, <2>3 DEF LoginConfirmed, TypeOK, coreVars, roomVars, tickVars
    <2> QED
      BY <2>4, CoreUnchanged
  <1>4. ASSUME NEW a \in Accounts, LoginWithoutSlot(s, a) PROVE IInv'
    <2>1. disconnected' \subseteq Sessions
      BY <1>4, SendTyped DEF LoginWithoutSlot
    <2>2. found' \subseteq Sessions \X Accounts
      BY <1>4 DEF LoginWithoutSlot, TypeOK
    <2>3. TypeOK' /\ UNCHANGED coreVars
      BY <1>4, <2>1, <2>2 DEF LoginWithoutSlot, TypeOK, coreVars, roomVars, tickVars
    <2> QED
      BY <2>3, CoreUnchanged
  <1>5. ASSUME NEW a \in Accounts, LoginWithSlot(s, a) PROVE IInv'
    <2>1. found' \subseteq Sessions \X Accounts
      BY <1>5 DEF LoginWithSlot, TypeOK
    <2>2. rejoining' \subseteq Sessions \X RoomIds
      BY <1>5 DEF LoginWithSlot, FindReconnect, TypeOK
    <2>3. TypeOK' /\ UNCHANGED coreVars
      BY <1>5, <2>1, <2>2 DEF LoginWithSlot, TypeOK, coreVars, roomVars, tickVars, sessionVars
    <2> QED
      BY <2>3, CoreUnchanged
  <1>6. ASSUME NEW r \in RoomIds, RejoinPush(s, r) PROVE IInv'
    <2>1. disconnected' \subseteq Sessions
      BY <1>6, SendTyped DEF RejoinPush
    <2>2. queue' \in [RoomIds -> Seq(Job)] /\ uaf' \in BOOLEAN
      <3>1. r \in RoomRefs /\ SessionJob("Rejoin", s) \in Job
        BY JobsTyped DEF AccountIds, RoomIds, RoomRefs
      <3> QED
        BY <1>6, <3>1, PushJobTyped DEF RejoinPush
    <2>3. rejoining' \subseteq Sessions \X RoomIds
      BY <1>6 DEF RejoinPush, TypeOK
    <2>4. TypeOK' /\ UNCHANGED coreVars
      BY <1>6, <2>1, <2>2, <2>3 DEF RejoinPush, TypeOK, coreVars, roomVars, tickVars
    <2> QED
      BY <2>4, CoreUnchanged
  <1> QED
    BY <1>1, <1>2, <1>3, <1>4, <1>5, <1>6 DEF Callbacks

\* Losing a connection.
LEMMA ConnectionKeeps ==
    ASSUME IInv, NEW s \in Sessions, Connection(s)
    PROVE  IInv'
  <1> USE DEF IInv
  <1>1. CASE ReceiveEnds(s) \/ TimeOut(s)
    <2>1. /\ disconnected' \subseteq Sessions /\ closing' \subseteq Sessions \X RoomRefs
          /\ recv' \subseteq Sessions
      BY <1>1, NoneIsRef DEF ReceiveEnds, TimeOut, Disconnect, TypeOK
    <2>2. TypeOK' /\ UNCHANGED coreVars
      BY <1>1, <2>1
      DEF ReceiveEnds, TimeOut, TypeOK, coreVars, roomVars, tickVars, authVars
    <2> QED
      BY <2>2, CoreUnchanged
  <1>2. CASE DisconnectReadsRoom(s)
    <2>1. closing' \subseteq Sessions \X RoomRefs
      BY <1>2 DEF DisconnectReadsRoom, TypeOK
    <2>2. TypeOK' /\ UNCHANGED coreVars
      BY <1>2, <2>1
      DEF DisconnectReadsRoom, TypeOK, coreVars, roomVars, tickVars, authVars
    <2> QED
      BY <2>2, CoreUnchanged
  <1>3. ASSUME NEW r \in RoomIds, DisconnectLeavesRoom(s, r) PROVE IInv'
    <2>1. queue' \in [RoomIds -> Seq(Job)] /\ uaf' \in BOOLEAN
      <3>1. r \in RoomRefs /\ SessionJob("Leave", s) \in Job
        BY JobsTyped DEF AccountIds, RoomIds, RoomRefs
      <3> QED
        BY <1>3, <3>1, PushJobTyped DEF DisconnectLeavesRoom
    <2>2. /\ roomOf' \in [Sessions -> RoomRefs]
          /\ \A t \in Sessions : roomOf'[t] = None \/ roomOf'[t] = roomOf[t]
      BY <1>3, NoneIsRef DEF DisconnectLeavesRoom, TypeOK
    <2>3. closing' \subseteq Sessions \X RoomRefs
      BY <1>3 DEF DisconnectLeavesRoom, TypeOK
    <2>4. TypeOK'
      BY <1>3, <2>1, <2>2, <2>3 DEF DisconnectLeavesRoom, TypeOK, roomVars, tickVars, authVars
    <2>5. PointersGood'
      BY <1>3, <2>2 DEF DisconnectLeavesRoom, PointersGood, roomVars
    <2>6. RoomsGood' /\ HeapAllocated' /\ RoomsRegistered' /\ SweepGood'
      BY <1>3
      DEF DisconnectLeavesRoom, RoomsGood, RoomIds, HeapAllocated, RoomsRegistered, Registered,
          SweepGood, roomVars
    <2> QED
      BY <2>4, <2>5, <2>6
  <1> QED
    BY <1>1, <1>2, <1>3 DEF Connection, FinishDisconnect

\* The steps of the tick thread between jobs, other than the end of Tick().
LEMMA TickStepsKeep ==
    ASSUME IInv, TickAll \/ (\E r \in RoomIds : TickFlush(r)) \/ TickFreed
    PROVE  IInv'
  <1> USE DEF IInv
  <1>1. CASE TickAll
    <2>1. Registered \subseteq RoomIds
      BY DEF RoomsRegistered, TypeOK
    <2>2. TypeOK' /\ UNCHANGED coreVars
      BY <1>1, <2>1 DEF TickAll, TypeOK, coreVars, roomVars, sessionVars, authVars
    <2> QED
      BY <2>2, CoreUnchanged
  <1>2. ASSUME NEW r \in RoomIds, TickFlush(r) PROVE IInv'
    <2>1. r \in RoomRefs /\ queue[r] \in Seq(Job) /\ <<>> \in Seq(Job)
      BY DEF TypeOK, RoomIds, RoomRefs
    <2>2. TypeOK' /\ UNCHANGED coreVars
      BY <1>2, <2>1 DEF TickFlush, TypeOK, coreVars, roomVars, sessionVars, authVars
    <2> QED
      BY <2>2, CoreUnchanged
  <1>3. CASE TickFreed
    BY <1>3, CoreUnchanged
    DEF TickFreed, TypeOK, coreVars, roomVars, tickVars, sessionVars, authVars
  <1> QED
    BY <1>1, <1>2, <1>3

\* The jobs that are about a session.
LEMMA SessionJobsKeep ==
    ASSUME IInv, RunEnter \/ RunLeave \/ RunRejoin
    PROVE  IInv'
  <1> USE DEF IInv
  <1> DEFINE s == Head(batch).s
  <1>1. /\ batch' \in Seq(Job) /\ cur \in RoomIds /\ cur \in heap /\ room[cur] \in Room
        /\ s \in Sessions
    BY HeadTyped DEF RunEnter, RunLeave, RunRejoin, Runs
  <1>2. acct[s] \in AccountIds /\ RoomGood(room[cur])
    BY <1>1 DEF TypeOK, RoomsGood
  <1> HIDE DEF s
  <1>3. \A t \in Sessions : roomOf[t] = cur => t \in room[cur].members
    BY <1>1 DEF PointersGood, RoomIds, None
  <1>4. room[cur].members \subseteq Sessions
    BY <1>1 DEF Room
  <1>5. cur \in RoomRefs
    BY <1>1 DEF TypeOK
  <1>6. CASE RunEnter
    <2> DEFINE rm == HandleEnter(room[cur], s)
    <2>1. /\ rm \in Room /\ RoomGood(rm)
          /\ room[cur].members \subseteq rm.members
          /\ Admits(room[cur]) => s \in rm.members
      BY <1>1, <1>2, EnterGood
    <2>2. room' = [room EXCEPT ![cur] = rm]
      BY <1>6 DEF RunEnter, Becomes, s
    <2> HIDE DEF rm
    <2>3. disconnected' \subseteq Sessions
      <3>1. EnterRecipients(room[cur], s) \subseteq Sessions
        BY <1>1, <1>4 DEF EnterRecipients
      <3> QED
        BY <1>6, <3>1, SendTyped DEF RunEnter, s
    <2>4. roomOf' = IF Admits(room[cur]) THEN [roomOf EXCEPT ![s] = cur] ELSE roomOf
      BY <1>6 DEF RunEnter, s
    <2>5. TypeOK'
      BY <1>1, <1>5, <1>6, <2>1, <2>2, <2>3, <2>4
      DEF RunEnter, ComesIn, TypeOK, authVars
    <2>6. \A t \in Sessions :
               \/ roomOf'[t] = None
               \/ roomOf'[t] = cur /\ t \in rm.members
               \/ roomOf'[t] = roomOf[t] /\ roomOf[t] # cur
      BY <1>1, <1>3, <2>1, <2>4 DEF TypeOK
    <2>7. /\ overtaken \subseteq overtaken'
          /\ cur # doomed \/ cur \in overtaken' \/ rm.emptySince = room[cur].emptySince
      BY <1>6 DEF RunEnter, ComesIn, HandleEnter, rm
    <2> QED
      BY <1>1, <1>6, <2>1, <2>2, <2>5, <2>6, <2>7, OneRoomChanges DEF RunEnter
  <1>7. CASE RunLeave
    <2> DEFINE rm == HandleLeave(room[cur], s, acct[s])
    <2>1. rm \in Room /\ RoomGood(rm) /\ rm.members = room[cur].members \ {s}
      BY <1>1, <1>2, LeaveGood
    <2>2. room' = [room EXCEPT ![cur] = rm]
      BY <1>7 DEF RunLeave, Becomes, s
    <2> HIDE DEF rm
    <2>3. disconnected' \subseteq Sessions
      <3>1. LeaveRecipients(room[cur], s) \cup LeaveAnswered \subseteq Sessions
        BY <1>1, <1>4 DEF LeaveRecipients, LeaveAnswered, s
      <3> QED
        BY <1>7, <3>1, SendTyped DEF RunLeave, s
    <2>4. roomOf' = IF s \in room[cur].members THEN [roomOf EXCEPT ![s] = None] ELSE roomOf
      BY <1>7 DEF RunLeave, s
    <2>5. None \in RoomRefs
      BY BoundsType DEF None, RoomRefs
    <2>6. TypeOK'
      BY <1>1, <1>5, <1>7, <2>1, <2>2, <2>3, <2>4, <2>5
      DEF RunLeave, TypeOK, roomVars, authVars
    <2>7. \A t \in Sessions :
               \/ roomOf'[t] = None
               \/ roomOf'[t] = cur /\ t \in rm.members
               \/ roomOf'[t] = roomOf[t] /\ roomOf[t] # cur
      BY <1>1, <1>3, <2>1, <2>4 DEF TypeOK
    <2>8. room[cur].emptySince = "elapsed" => rm.emptySince = "elapsed"
      <3>1. room[cur].emptySince = "elapsed" => s \notin room[cur].members
        BY <1>2 DEF RoomGood
      <3> QED
        BY <3>1 DEF HandleLeave, rm
    <2> QED
      BY <1>1, <1>7, <2>1, <2>2, <2>6, <2>7, <2>8, OneRoomChanges DEF RunLeave, roomVars
  <1>8. CASE RunRejoin
    <2> DEFINE rm == HandleRejoin(room[cur], s, acct[s])
    <2>1. rm \in Room /\ RoomGood(rm) /\ rm.members = room[cur].members \cup {s}
      BY <1>1, <1>2, RejoinGood
    <2>2. room' = [room EXCEPT ![cur] = rm]
      BY <1>8 DEF RunRejoin, Becomes, s
    <2> HIDE DEF rm
    <2>3. disconnected' \subseteq Sessions
      <3>1. RejoinRecipients(room[cur], s) \subseteq Sessions
        BY <1>1, <1>4 DEF RejoinRecipients
      <3> QED
        BY <1>8, <3>1, SendTyped DEF RunRejoin, s
    <2>4. roomOf' = [roomOf EXCEPT ![s] = cur]
      BY <1>8 DEF RunRejoin, s
    <2>5. TypeOK'
      BY <1>1, <1>5, <1>8, <2>1, <2>2, <2>3, <2>4
      DEF RunRejoin, ComesIn, TypeOK, authVars
    <2>6. \A t \in Sessions :
               \/ roomOf'[t] = None
               \/ roomOf'[t] = cur /\ t \in rm.members
               \/ roomOf'[t] = roomOf[t] /\ roomOf[t] # cur
      BY <1>1, <1>3, <2>1, <2>4 DEF TypeOK
    <2>7. overtaken \subseteq overtaken' /\ (cur # doomed \/ cur \in overtaken')
      BY <1>8 DEF RunRejoin, ComesIn
    <2> QED
      BY <1>1, <1>8, <2>1, <2>2, <2>5, <2>6, <2>7, OneRoomChanges DEF RunRejoin
  <1> QED
    BY <1>6, <1>7, <1>8

\* A room that changes without gaining or losing members.
LEMMA SameMembersKeep ==
    ASSUME IInv, TypeOK', UNCHANGED <<roomVars, roomOf>>,
           NEW r \in heap, NEW rm \in Room, RoomGood(rm),
           rm.members = room[r].members,
           room[r].emptySince = "elapsed" => rm.emptySince = "elapsed",
           room' = [room EXCEPT ![r] = rm]
    PROVE  IInv'
  <1>1. \A t \in Sessions :
               \/ roomOf'[t] = None
               \/ roomOf'[t] = r /\ t \in rm.members
               \/ roomOf'[t] = roomOf[t] /\ roomOf[t] # r
    BY DEF IInv, PointersGood
  <1> QED
    BY <1>1, OneRoomChanges DEF roomVars

\* The calls that leave the empty-since stamp alone.
LEMMA StampKept ==
    ASSUME NEW rm \in Room, NEW a
    PROVE  /\ HandleReady(rm, a).emptySince = rm.emptySince
           /\ HandleMove(rm, a).emptySince = rm.emptySince
           /\ TickRest(rm).emptySince = rm.emptySince
  <1>1. HandleReady(rm, a).emptySince = rm.emptySince
    BY DEF HandleReady, TryStartGame, StartGame, Toggle, Room
  <1>2. HandleMove(rm, a).emptySince = rm.emptySince
    BY DEF HandleMove, Room
  <1>3. TickRest(rm).emptySince = rm.emptySince
    BY DEF TickRest, ExpireSlots, Room
  <1> QED
    BY <1>1, <1>2, <1>3

\* The jobs about an account, and the end of Tick().
LEMMA OtherJobsKeep ==
    ASSUME IInv, RunReady \/ RunMove \/ RunChat \/ TickEnds
    PROVE  IInv'
  <1> USE DEF IInv
  <1>1. cur \in heap /\ cur \in RoomIds /\ room[cur] \in Room
    BY DEF RunReady, RunMove, RunChat, TickEnds, Runs, TypeOK
  <1>2. RoomGood(room[cur]) /\ room[cur].members \subseteq Sessions /\ None \in RoomRefs
    BY <1>1, BoundsType DEF RoomsGood, Room, None, RoomRefs
  <1>3. CASE RunReady
    <2>1. batch' \in Seq(Job) /\ Head(batch).a \in AccountIds
      BY <1>3, HeadTyped DEF RunReady
    <2> DEFINE rm == HandleReady(room[cur], Head(batch).a)
    <2>2. /\ rm \in Room /\ RoomGood(rm) /\ rm.members = room[cur].members
          /\ rm.emptySince = room[cur].emptySince
      BY <1>1, <1>2, <2>1, ReadyGood, StampKept
    <2>3. room' = [room EXCEPT ![cur] = rm]
      BY <1>3 DEF RunReady, Becomes
    <2> HIDE DEF rm
    <2>4. disconnected' \subseteq Sessions
      BY <1>2, <1>3, SendTyped DEF RunReady, ReadyRecipients
    <2>5. TypeOK'
      BY <1>1, <1>3, <2>1, <2>2, <2>3, <2>4 DEF RunReady, TypeOK, roomVars, authVars
    <2> QED
      BY <1>1, <1>3, <2>2, <2>3, <2>5, SameMembersKeep DEF RunReady
  <1>4. CASE RunMove
    <2>1. batch' \in Seq(Job) /\ Head(batch).a \in AccountIds
      BY <1>4, HeadTyped DEF RunMove
    <2> DEFINE rm == HandleMove(room[cur], Head(batch).a)
    <2>2. /\ rm \in Room /\ RoomGood(rm) /\ rm.members = room[cur].members
          /\ rm.emptySince = room[cur].emptySince
      BY <1>1, <1>2, <2>1, MoveGood, StampKept
    <2>3. room' = [room EXCEPT ![cur] = rm]
      BY <1>4 DEF RunMove, Becomes
    <2> HIDE DEF rm
    <2>4. TypeOK'
      BY <1>1, <1>4, <2>1, <2>2, <2>3 DEF RunMove, TypeOK, roomVars, sessionVars, authVars
    <2> QED
      BY <1>1, <1>4, <2>2, <2>3, <2>4, SameMembersKeep DEF RunMove, sessionVars
  <1>5. CASE RunChat
    <2>1. batch' \in Seq(Job)
      BY <1>5, HeadTyped DEF RunChat
    <2>2. disconnected' \subseteq Sessions
      BY <1>2, <1>5, SendTyped DEF RunChat
    <2>3. TypeOK' /\ UNCHANGED coreVars
      BY <1>5, <2>1, <2>2 DEF RunChat, TypeOK, coreVars, roomVars, authVars
    <2> QED
      BY <2>3, CoreUnchanged
  <1>6. CASE TickEnds
    <2> DEFINE rm == TickRest(room[cur])
    <2>1. /\ rm \in Room /\ RoomGood(rm) /\ rm.members = room[cur].members
          /\ rm.emptySince = room[cur].emptySince
      BY <1>1, <1>2, TickGood, StampKept
    <2>2. room' = [room EXCEPT ![cur] = rm]
      BY <1>6 DEF TickEnds, Becomes
    <2> HIDE DEF rm
    <2>3. disconnected' \subseteq Sessions
      BY <1>2, <1>6, SendTyped DEF TickEnds, TickRecipients
    <2>4. TypeOK'
      BY <1>1, <1>2, <1>6, <2>1, <2>2, <2>3 DEF TickEnds, TypeOK, roomVars, authVars
    <2> QED
      BY <1>1, <1>6, <2>1, <2>2, <2>4, SameMembersKeep DEF TickEnds
  <1> QED
    BY <1>3, <1>4, <1>5, <1>6

\* Time stamps grow old.
LEMMA ClocksKeep ==
    ASSUME IInv, NEW r \in RoomIds, Clocks(r)
    PROVE  IInv'
  <1> USE DEF IInv
  <1>1. room[r] \in Room /\ RoomGood(room[r])
    BY DEF TypeOK, RoomsGood
  <1>2. PICK rm : /\ rm \in Room /\ RoomGood(rm) /\ rm.members = room[r].members
                  /\ room[r].emptySince = "elapsed" => rm.emptySince = "elapsed"
                  /\ Ages(r, rm)
    <2>1. CASE IdleTimeoutPasses(r)
      BY <1>1, <2>1 DEF IdleTimeoutPasses, Room, RoomGood, Stamp
    <2>2. CASE ResultDelayPasses(r)
      BY <1>1, <2>2 DEF ResultDelayPasses, Room, RoomGood, Stamp
    <2>3. ASSUME NEW a \in AccountIds, ReconnectWindowPasses(r, a)
          PROVE  [room[r] EXCEPT !.slots[a] = "elapsed"] \in Room /\
                 RoomGood([room[r] EXCEPT !.slots[a] = "elapsed"])
      BY <1>1, <2>3 DEF Room, RoomGood, Stamp
    <2>4. ASSUME NEW a \in AccountIds, ReconnectWindowPasses(r, a)
          PROVE  \E rm : /\ rm \in Room /\ RoomGood(rm) /\ rm.members = room[r].members
                         /\ room[r].emptySince = "elapsed" => rm.emptySince = "elapsed"
                         /\ Ages(r, rm)
      BY <1>1, <2>3, <2>4 DEF ReconnectWindowPasses, Room
    <2> QED
      BY <2>1, <2>2, <2>4 DEF Clocks
  <1>3. TypeOK'
    BY <1>2 DEF Ages, TypeOK, roomVars, tickVars, sessionVars, authVars
  <1> QED
    BY <1>2, <1>3, SameMembersKeep DEF Ages, sessionVars

\* RemoveIdleRooms.  A pointer to the room it erases is left behind only if a job
\* has overtaken it: the room was empty when its stamp was loaded.
LEMMA RemoveIdleKeeps ==
    ASSUME IInv, RemoveIdleRooms
    PROVE  IInv'
  <1> USE DEF IInv
  <1>1. CASE SweepBegins
    <2>1. Idle \subseteq heap /\ doomed = None /\ None \notin heap
      BY <1>1 DEF SweepBegins, Locked, Idle, RoomsRegistered, TypeOK, RoomIds, None
    <2>2. TypeOK'
      BY <1>1, <2>1 DEF SweepBegins, TypeOK, tickVars, sessionVars, authVars
    <2>3. SweepGood'
      BY <1>1, <2>1 DEF SweepBegins, SweepGood
    <2> QED
      BY <1>1, <2>2, <2>3
      DEF SweepBegins, RoomsGood, RoomIds, PointersGood, HeapAllocated, RoomsRegistered, Registered,
          sessionVars
  <1>2. ASSUME NEW r \in RoomIds, SweepLoads(r) PROVE IInv'
    <2>1. r \in heap /\ r \in RoomRefs /\ None \in RoomRefs /\ r # None
      BY <1>2, NoneIsRef DEF SweepLoads, SweepGood, RoomIds, RoomRefs, None
    <2>2. TypeOK'
      BY <1>2, <2>1 DEF SweepLoads, TypeOK, tickVars, sessionVars, authVars
    <2>3. SweepGood'
      BY <1>2, <2>1 DEF SweepLoads, Expired, SweepGood
    <2> QED
      BY <1>2, <2>2, <2>3
      DEF SweepLoads, RoomsGood, RoomIds, PointersGood, HeapAllocated, RoomsRegistered, Registered,
          sessionVars
  <1>3. CASE SweepErases
    <2>1. doomed \in heap /\ doomed \in RoomIds /\ doomed # None /\ None \in RoomRefs
      BY <1>3, NoneIsRef DEF SweepErases, SweepGood, TypeOK
    <2>2. doomed \in overtaken \/ room[doomed].members = {}
      BY <1>3, <2>1 DEF SweepErases, SweepGood, RoomsGood, RoomGood
    <2>3. /\ heap' = heap \ {doomed} /\ UNCHANGED <<room, roomOf, created, sweep, overtaken>>
          /\ registry' = [n \in Names |-> IF registry[n] = doomed THEN None ELSE registry[n]]
          /\ doomed' = None
      BY <1>3 DEF SweepErases, sessionVars
    <2>4. TypeOK'
      <3>1. queue' \in [RoomIds -> Seq(Job)]
        <4>1. << >> \in Seq(Job) /\ queue \in [RoomIds -> Seq(Job)]
          BY DEF TypeOK
        <4>2. queue' = [queue EXCEPT ![doomed] = << >>]
          BY <1>3 DEF SweepErases
        <4> QED
          BY <4>1, <4>2
      <3>2. registry' \in [Names -> RoomRefs]
        BY <2>1, <2>3 DEF TypeOK
      <3> QED
        BY <1>3, <2>1, <2>3, <3>1, <3>2 DEF SweepErases, TypeOK, tickVars, sessionVars, authVars
    <2>5. RoomsGood' /\ HeapAllocated'
      BY <2>3 DEF RoomsGood, RoomIds, HeapAllocated
    <2>6. PointersGood'
      BY <2>2, <2>3 DEF PointersGood
    <2>7. RoomsRegistered'
      <3>1. \A n \in Names : registry'[n] = IF registry[n] = doomed THEN None ELSE registry[n]
        BY <2>3
      <3>2. heap' = Registered'
        BY <2>3, <3>1 DEF RoomsRegistered, Registered
      <3> QED
        BY <3>1, <3>2 DEF RoomsRegistered
    <2>8. SweepGood'
      <3>1. None \notin heap
        BY DEF TypeOK, RoomIds, None
      <3> QED
        BY <2>3, <3>1 DEF SweepGood
    <2> QED
      BY <2>4, <2>5, <2>6, <2>7, <2>8
  <1> QED
    BY <1>1, <1>2, <1>3 DEF RemoveIdleRooms

----------------------------------------------------------------------------
(* The theorems.                                                            *)

\* IInv is inductive: every step of every thread keeps it.
THEOREM NextIInv == IInv /\ [Next]_vars => IInv'
  <1> SUFFICES ASSUME IInv, [Next]_vars PROVE IInv'
    OBVIOUS
  <1>1. ASSUME NEW s \in Sessions, Handlers(s) PROVE IInv'
    BY <1>1, HandlersKeep, EnterKeeps, EnterPushKeeps, LoginKeeps DEF Handlers
  <1>2. ASSUME NEW s \in Sessions, Callbacks(s) PROVE IInv'
    BY <1>2, LoginKeeps
  <1>3. ASSUME NEW s \in Sessions, Connection(s) PROVE IInv'
    BY <1>3, ConnectionKeeps
  <1>4. CASE TickThread
    BY <1>4, TickStepsKeep, SessionJobsKeep, OtherJobsKeep DEF TickThread, RunsJob
  <1>5. CASE RemoveIdleRooms
    BY <1>5, RemoveIdleKeeps
  <1>6. ASSUME NEW r \in RoomIds, Clocks(r) PROVE IInv'
    BY <1>6, ClocksKeep
  <1>7. CASE UNCHANGED vars
    <2>1. TypeOK' /\ UNCHANGED coreVars
      BY <1>7 DEF IInv, vars, TypeOK, coreVars, roomVars, tickVars, sessionVars, authVars
    <2> QED
      BY <2>1, CoreUnchanged
  <1> QED
    BY <1>1, <1>2, <1>3, <1>4, <1>5, <1>6, <1>7 DEF Next

THEOREM Invariance == Spec => []IInv
  BY InitIInv, NextIInv, PTL DEF Spec

\* Every variable keeps its type.
THEOREM TypeCorrect == Spec => []TypeOK
  <1>1. IInv => TypeOK
    BY DEF IInv
  <1> QED
    BY <1>1, Invariance, PTL

\* A running game never has fewer than two players (HandleLeave ends it first).
THEOREM GamesHaveTwo == Spec => []InGameHasTwo
  <1>1. IInv => InGameHasTwo
    BY DEF IInv, RoomsGood, RoomGood, InGameHasTwo
  <1> QED
    BY <1>1, Invariance, PTL

\* No ready mark outlives the lobby it was set in.
THEOREM ReadyMarksCleared == Spec => []ReadyOnlyWhileWaiting
  <1>1. IInv => ReadyOnlyWhileWaiting
    BY DEF IInv, RoomsGood, RoomGood, ReadyOnlyWhileWaiting
  <1> QED
    BY <1>1, Invariance, PTL

\* A room with an empty-since stamp is empty whenever no job is running in it.
THEOREM MarksAreSound == Spec => []EmptyMarkSound
  <1>1. IInv => EmptyMarkSound
    BY DEF IInv, RoomsGood, RoomGood, EmptyMarkSound
  <1> QED
    BY <1>1, Invariance, PTL

\* m_room points to a room with the session as a member, or nowhere; it dangles
\* only when a job came into the room between the load and the erase of
\* RemoveIdleRooms.
THEOREM PointersAreSafe == Spec => []RoomPointerSafe
  <1>1. IInv => RoomPointerSafe
    BY DEF IInv, PointersGood, RoomPointerSafe
  <1> QED
    BY <1>1, Invariance, PTL

\* Every room in memory is registered under exactly one name.
THEOREM RoomsAreRegistered == Spec => []RegistryOwnsRooms
  <1>1. IInv => RegistryOwnsRooms
    BY DEF IInv, RoomsRegistered, RegistryOwnsRooms
  <1> QED
    BY <1>1, Invariance, PTL

----------------------------------------------------------------------------
(* What a step may do to the rooms.                                         *)

\* Only the tick thread and time change a room.
LEMMA RoomSteps ==
    ASSUME [Next]_vars
    PROVE  \/ UNCHANGED room
           \/ \E r \in RoomIds : Clocks(r)
           \/ RunEnter \/ RunLeave \/ RunRejoin \/ RunReady \/ RunMove \/ TickEnds
  <1>1. ASSUME NEW s \in Sessions, Handlers(s) PROVE UNCHANGED room
    BY <1>1 DEF Handlers, Handle_C_CHAT, Handle_C_MOVE, Handle_C_READY, Handle_C_ROOM_LEAVE,
       Handle_C_PING, Handle_C_ROOM_LIST, Handle_C_ROOM_ENTER, EnterPush, Handle_C_LOGIN,
       PushToOwnRoom, Answer, ChangeRoom, AsksSessionServer
  <1>2. ASSUME NEW s \in Sessions, Callbacks(s) \/ Connection(s) PROVE UNCHANGED room
    BY <1>2 DEF Callbacks, LoginRefused, LoginConfirmed, LoginWithoutSlot, LoginWithSlot, RejoinPush,
       Connection, ReceiveEnds, TimeOut, FinishDisconnect, DisconnectReadsRoom, DisconnectLeavesRoom
  <1>3. ASSUME TickAll \/ (\E r \in RoomIds : TickFlush(r)) \/ TickFreed \/ RunChat PROVE UNCHANGED room
    BY <1>3 DEF TickAll, TickFlush, TickFreed, RunChat
  <1>4. UNCHANGED vars => UNCHANGED room
    BY DEF vars
  <1>5. RemoveIdleRooms => UNCHANGED room
    BY DEF RemoveIdleRooms, SweepBegins, SweepLoads, SweepErases
  <1> QED
    BY <1>1, <1>2, <1>3, <1>4, <1>5 DEF Next, TickThread, RunsJob

\* What a step may do to the members and the state of room r.
RoomChange(r) ==
    \/ room'[r].members = room[r].members /\ room'[r].state = room[r].state
    \/ /\ room'[r].members = room[r].members
       /\ room[r].state = "WAITING" /\ room'[r].state = "IN_GAME"
       /\ Cardinality(room[r].members) >= 2
    \/ /\ room'[r].members = room[r].members
       /\ room[r].state = "FINISHED" /\ room'[r].state = "WAITING"
    \/ \E s \in Sessions :
         \/ /\ room'[r].members = room[r].members \cup {s} /\ room'[r].state = room[r].state
            /\ r = cur
            /\ \/ Head(batch).op = "Rejoin"
               \/ Cardinality(room[r].members) < MaxPlayers
         \/ /\ room'[r].members = room[r].members \ {s} /\ room'[r].state = room[r].state
            /\ room[r].state # "IN_GAME"
         \/ /\ s \in room[r].members /\ room'[r].members = room[r].members \ {s}
            /\ room'[r].members # {}
            /\ room[r].state = "IN_GAME" /\ room'[r].state = "FINISHED"

LEMMA RoomsChange ==
    ASSUME IInv, [Next]_vars, NEW r \in RoomIds
    PROVE  RoomChange(r)
  <1> USE DEF IInv
  <1>1. room \in [RoomIds -> Room] /\ room[r] \in Room /\ RoomGood(room[r])
    BY DEF TypeOK, RoomsGood
  <1>2. CASE UNCHANGED room
    BY <1>2 DEF RoomChange
  <1>4. CASE \E q \in RoomIds : Clocks(q)
    BY <1>1, <1>4 DEF RoomChange, Clocks, IdleTimeoutPasses, ReconnectWindowPasses, ResultDelayPasses,
       Ages, Room
  <1>5. ASSUME NEW rm, room' = [room EXCEPT ![cur] = rm], r # cur PROVE RoomChange(r)
    BY <1>1, <1>5 DEF RoomChange
  <1>6. CASE RunEnter
    <2> DEFINE s == Head(batch).s
    <2>1. s \in Sessions /\ room' = [room EXCEPT ![cur] = HandleEnter(room[cur], s)]
      BY <1>6, HeadTyped DEF RunEnter, Becomes
    <2> HIDE DEF s
    <2>2. CASE r = cur
      <3>1. room'[r] = HandleEnter(room[r], s)
        BY <1>1, <2>1, <2>2
      <3>2. CASE Admits(room[r])
        <4>1. room'[r].members = room[r].members \cup {s} /\ room'[r].state = room[r].state
          BY <1>1, <3>1, <3>2 DEF HandleEnter, Insert, Room
        <4> QED
          BY <2>1, <2>2, <3>2, <4>1 DEF Admits, RoomChange
      <3>3. CASE ~Admits(room[r])
        BY <3>1, <3>3 DEF HandleEnter, RoomChange
      <3> QED
        BY <3>2, <3>3
    <2> QED
      BY <1>5, <2>1, <2>2
  <1>7. CASE RunLeave
    <2> DEFINE s == Head(batch).s
    <2>1. s \in Sessions /\ room' = [room EXCEPT ![cur] = HandleLeave(room[cur], s, acct[s])]
      BY <1>7, HeadTyped DEF RunLeave, Becomes
    <2> HIDE DEF s
    <2>2. CASE r = cur
      <3>1. room'[r] = HandleLeave(room[r], s, acct[s])
        BY <1>1, <2>1, <2>2
      <3>2. acct[s] \in AccountIds
        BY <2>1 DEF TypeOK
      <3>3. /\ room'[r].members = room[r].members \ {s}
            /\ s \in room[r].members /\ room[r].state = "IN_GAME"
                 => room'[r].state = "FINISHED" /\ room'[r].members # {}
            /\ s \notin room[r].members \/ room[r].state # "IN_GAME" => room'[r].state = room[r].state
        BY <1>1, <2>1, <3>1, <3>2, LeaveGood
      <3>4. s \notin room[r].members => room'[r].members = room[r].members
        BY <3>3
      <3> QED
        BY <2>1, <3>3, <3>4 DEF RoomChange
    <2> QED
      BY <1>5, <2>1, <2>2
  <1>8. CASE RunRejoin
    <2> DEFINE s == Head(batch).s
    <2>1. /\ s \in Sessions /\ Head(batch).op = "Rejoin"
          /\ room' = [room EXCEPT ![cur] = HandleRejoin(room[cur], s, acct[s])]
      BY <1>8, HeadTyped DEF RunRejoin, Becomes, Runs
    <2> HIDE DEF s
    <2>2. CASE r = cur
      <3>1. acct[s] \in AccountIds
        BY <2>1 DEF TypeOK
      <3>2. room'[r].members = room[r].members \cup {s} /\ room'[r].state = room[r].state
        BY <1>1, <2>1, <2>2, <3>1, RejoinGood
      <3> QED
        BY <2>1, <2>2, <3>2 DEF RoomChange
    <2> QED
      BY <1>5, <2>1, <2>2
  <1>9. CASE RunReady
    <2>1. Head(batch).a \in AccountIds /\ room' = [room EXCEPT ![cur] = HandleReady(room[cur], Head(batch).a)]
      BY <1>9, HeadTyped DEF RunReady, Becomes
    <2>2. CASE r = cur
      BY <1>1, <2>1, <2>2, ReadyGood DEF RoomChange
    <2> QED
      BY <1>5, <2>1, <2>2
  <1>10. CASE RunMove
    <2>1. Head(batch).a \in AccountIds /\ room' = [room EXCEPT ![cur] = HandleMove(room[cur], Head(batch).a)]
      BY <1>10, HeadTyped DEF RunMove, Becomes
    <2>2. CASE r = cur
      BY <1>1, <2>1, <2>2, MoveGood DEF RoomChange
    <2> QED
      BY <1>5, <2>1, <2>2
  <1>11. CASE TickEnds
    <2>1. room' = [room EXCEPT ![cur] = TickRest(room[cur])]
      BY <1>11 DEF TickEnds, Becomes
    <2>2. CASE r = cur
      BY <1>1, <2>1, <2>2, TickGood DEF RoomChange
    <2> QED
      BY <1>5, <2>1, <2>2
  <1> QED
    BY <1>2, <1>4, <1>6, <1>7, <1>8, <1>9, <1>10, <1>11, RoomSteps

\* A room gets more members than max_room_players only by a rejoin job.
THEOREM OverfilledByRejoin == Spec => OnlyRejoinOverfills
  <1> DEFINE Step == ~uaf' => \A r \in RoomIds :
          /\ ~(room'[r].members \subseteq room[r].members)
          /\ Cardinality(room'[r].members) > MaxPlayers
          => r = cur /\ Head(batch).op = "Rejoin"
  <1>1. ASSUME IInv, [Next]_vars PROVE Step
    <2> SUFFICES ASSUME NEW r \in RoomIds,
                        ~(room'[r].members \subseteq room[r].members),
                        Cardinality(room'[r].members) > MaxPlayers
                 PROVE  r = cur /\ Head(batch).op = "Rejoin"
      OBVIOUS
    <2>1. RoomChange(r)
      BY <1>1, RoomsChange
    <2>2. PICK s \in Sessions :
            /\ room'[r].members = room[r].members \cup {s} /\ r = cur
            /\ Head(batch).op = "Rejoin" \/ Cardinality(room[r].members) < MaxPlayers
      BY <2>1 DEF RoomChange
    <2>3. room[r] \in Room
      BY <1>1 DEF IInv, TypeOK
    <2>4. IsFiniteSet(room[r].members) /\ Cardinality(room[r].members) \in Nat
      BY <2>3, MembersFinite
    <2>5. s \notin room[r].members
      BY <2>2
    <2>6. Cardinality(room'[r].members) = Cardinality(room[r].members) + 1
      BY <2>2, <2>4, <2>5, FS_AddElement
    <2> QED
      BY <2>2, <2>4, <2>6, MaxPlayersPositive
  <1>2. Spec => [][Step]_vars
    BY <1>1, Invariance, PTL DEF Spec
  <1> QED
    BY <1>2 DEF OnlyRejoinOverfills

\* Every room keeps the contract of RoomContract, whatever the threads do.
THEOREM RoomsKeepContract == Spec => ContractKept
  <1>1. Init => \A r \in RoomIds : Contract(r)!Init
    BY DEF Init, NewRoom, Contract!Init
  <1>2. ASSUME IInv, [Next]_vars, NEW r \in RoomIds PROVE ContractStep(r)
    <2>1. RoomChange(r)
      BY <1>2, RoomsChange
    <2>2. room[r] \in Room
      BY <1>2 DEF IInv, TypeOK
    <2>3. Cardinality(room[r].members) >= 2 => \E p, q \in room[r].members : p # q
      <3> SUFFICES ASSUME Cardinality(room[r].members) >= 2
                   PROVE  \E p, q \in room[r].members : p # q
        OBVIOUS
      <3>1. room[r].members \subseteq Sessions /\ room[r].members # {}
        BY <2>2, FS_EmptySet DEF Room
      <3>2. PICK p \in room[r].members : p \in Sessions
        BY <3>1
      <3> QED
        BY <2>2, <3>2, SomebodyIsLeft
    <2> QED
      BY <2>1, <2>3 DEF RoomChange, ContractStep, Contract!Next, Contract!Join, Contract!Leave,
         Contract!Forfeit, Contract!Start, Contract!Reset
  <1>3. IInv /\ [Next]_vars => (~uaf' => \A r \in RoomIds : ContractStep(r))
    BY <1>2
  <1> QED
    BY <1>1, <1>3, Invariance, PTL DEF Spec, ContractKept

----------------------------------------------------------------------------
(* Who has logged in.                                                       *)

\* MembersLoggedIn without its exception for uaf.
LoggedMembers ==
    \A r \in RoomIds :
        /\ \A s \in room[r].members : acct[s] # NoAccount
        /\ NoAccount \notin room[r].ready \cup room[r].moves

\* The jobs that may be waiting: one that makes a member or a mark is about somebody
\* who has logged in.
LoggedJobs ==
    {j \in Job : /\ j.op \in {"Enter", "Rejoin"} => acct[j.s] # NoAccount
                 /\ j.op \in {"Ready", "Move"} => j.a # NoAccount}

\* The callbacks and handlers that have not pushed their job yet.
LoggedOnTheWay ==
    /\ \A s \in Sessions : entering[s] # None => acct[s] # NoAccount
    /\ \A c \in found \cup rejoining : acct[c[1]] # NoAccount

LoggedQueues == queue \in [RoomIds -> Seq(LoggedJobs)] /\ batch \in Seq(LoggedJobs)

\* The login is checked when a job is pushed, and nobody is ever logged out.
LoggedInv == LoggedMembers /\ LoggedQueues /\ LoggedOnTheWay

LEMMA InitLogged == Init => LoggedInv
  BY DEF Init, NewRoom, LoggedInv, LoggedMembers, LoggedQueues, LoggedOnTheWay

\* Steps that change neither a room nor an account.
LEMMA RoomsSameLogged ==
    ASSUME LoggedInv, UNCHANGED <<room, acct>>,
           queue' \in [RoomIds -> Seq(LoggedJobs)], batch' \in Seq(LoggedJobs), LoggedOnTheWay'
    PROVE  LoggedInv'
  <1>1. LoggedJobs' = LoggedJobs
    BY DEF LoggedJobs, Job
  <1>2. LoggedMembers'
    BY DEF LoggedInv, LoggedMembers, RoomIds
  <1>3. LoggedQueues'
    BY <1>1 DEF LoggedQueues, RoomIds
  <1> QED
    BY <1>2, <1>3 DEF LoggedInv

LEMMA PushedLogged ==
    ASSUME LoggedInv, NEW r, NEW job \in LoggedJobs
    PROVE  Pushed(r, job) \in [RoomIds -> Seq(LoggedJobs)]
  <1>1. queue \in [RoomIds -> Seq(LoggedJobs)]
    BY DEF LoggedInv, LoggedQueues
  <1>2. \A q \in Seq(LoggedJobs) : Append(q, job) \in Seq(LoggedJobs)
    OBVIOUS
  <1> QED
    BY <1>1, <1>2 DEF Pushed

LEMMA JobsLogged ==
    ASSUME NEW s \in Sessions, NEW a \in AccountIds
    PROVE  /\ SessionJob("Leave", s) \in LoggedJobs /\ SessionJob("LeaveAck", s) \in LoggedJobs
           /\ AccountJob("Chat", a) \in LoggedJobs
           /\ a # NoAccount => AccountJob("Ready", a) \in LoggedJobs /\ AccountJob("Move", a) \in LoggedJobs
           /\ acct[s] # NoAccount
                => SessionJob("Enter", s) \in LoggedJobs /\ SessionJob("Rejoin", s) \in LoggedJobs
  BY JobsTyped DEF LoggedJobs, SessionJob, AccountJob

\* The packet handlers.
LEMMA HandlersLogged ==
    ASSUME IInv, LoggedInv, NEW s \in Sessions, Handlers(s)
    PROVE  LoggedInv'
  <1> USE DEF IInv
  <1>1. queue \in [RoomIds -> Seq(LoggedJobs)] /\ batch \in Seq(LoggedJobs) /\ LoggedOnTheWay
    BY DEF LoggedInv, LoggedQueues
  <1>2. acct[s] \in AccountIds
    BY DEF TypeOK
  <1>3. CASE Answer(s)
    <2>1. UNCHANGED <<room, acct, queue, batch>> /\ LoggedOnTheWay'
      BY <1>1, <1>3 DEF Answer, tickVars, authVars, LoggedOnTheWay
    <2> QED
      BY <1>1, <2>1, RoomsSameLogged
  <1>4. ASSUME NEW job \in LoggedJobs, PushToOwnRoom(s, job) PROVE LoggedInv'
    <2>1. UNCHANGED <<room, acct, batch>> /\ LoggedOnTheWay'
      BY <1>1, <1>4 DEF PushToOwnRoom, tickVars, authVars, sessionVars, LoggedOnTheWay
    <2>2. queue' \in [RoomIds -> Seq(LoggedJobs)]
      BY <1>1, <1>4, PushedLogged DEF PushToOwnRoom, PushJob
    <2> QED
      BY <1>1, <2>1, <2>2, RoomsSameLogged
  <1>5. roomOf[s] # None => acct[s] # NoAccount
    BY DEF PointersGood, TypeOK, LoggedInv, LoggedMembers
  <1>6. CASE Handle_C_CHAT(s) \/ Handle_C_MOVE(s) \/ Handle_C_READY(s) \/ Handle_C_ROOM_LEAVE(s)
               \/ Handle_C_PING(s) \/ Handle_C_ROOM_LIST(s)
    BY <1>2, <1>3, <1>4, <1>5, <1>6, JobsLogged
    DEF Handle_C_CHAT, Handle_C_MOVE, Handle_C_READY, Handle_C_ROOM_LEAVE, Handle_C_PING,
        Handle_C_ROOM_LIST, PushToOwnRoom
  <1>7. ASSUME NEW n \in Names, acct[s] # NoAccount, ChangeRoom(s, n) PROVE LoggedInv'
    <2>1. UNCHANGED <<room, acct, batch, found, rejoining>>
      BY <1>7 DEF ChangeRoom, tickVars, sessionVars, authVars
    <2>2. queue' \in [RoomIds -> Seq(LoggedJobs)]
      BY <1>1, <1>2, <1>7, PushedLogged, JobsLogged DEF ChangeRoom, PushJob
    <2>3. \A t \in Sessions : t = s \/ entering'[t] = entering[t]
      BY <1>7 DEF ChangeRoom, GetOrCreate, TypeOK
    <2>4. LoggedOnTheWay'
      BY <1>1, <1>7, <2>1, <2>3 DEF LoggedOnTheWay
    <2> QED
      BY <1>1, <2>1, <2>2, <2>4, RoomsSameLogged
  <1>8. CASE EnterPush(s)
    <2>1. UNCHANGED <<room, acct, batch, found, rejoining>>
      BY <1>8 DEF EnterPush, tickVars, sessionVars, authVars
    <2>2. acct[s] # NoAccount
      BY <1>1, <1>8 DEF EnterPush, LoggedOnTheWay
    <2>3. queue' \in [RoomIds -> Seq(LoggedJobs)]
      BY <1>1, <1>2, <1>8, <2>2, PushedLogged, JobsLogged DEF EnterPush, PushJob
    <2>4. \A t \in Sessions : entering'[t] = None \/ entering'[t] = entering[t]
      BY <1>8 DEF EnterPush, TypeOK
    <2>5. LoggedOnTheWay'
      BY <1>1, <2>1, <2>4 DEF LoggedOnTheWay
    <2> QED
      BY <1>1, <2>1, <2>3, <2>5, RoomsSameLogged
  <1>9. CASE AsksSessionServer(s)
    <2>1. UNCHANGED <<room, acct, queue, batch>> /\ LoggedOnTheWay'
      BY <1>1, <1>9 DEF AsksSessionServer, tickVars, sessionVars, LoggedOnTheWay
    <2> QED
      BY <1>1, <2>1, RoomsSameLogged
  <1> QED
    BY <1>3, <1>6, <1>7, <1>8, <1>9 DEF Handlers, Handle_C_ROOM_ENTER, Handle_C_LOGIN

\* The login callback, and the loss of a connection.
LEMMA CallbacksLogged ==
    ASSUME IInv, LoggedInv, NEW s \in Sessions, Callbacks(s) \/ Connection(s)
    PROVE  LoggedInv'
  <1> USE DEF IInv
  <1>1. queue \in [RoomIds -> Seq(LoggedJobs)] /\ batch \in Seq(LoggedJobs) /\ LoggedOnTheWay
    BY DEF LoggedInv, LoggedQueues
  <1>2. acct[s] \in AccountIds
    BY DEF TypeOK
  <1>3. ASSUME NEW a \in Accounts, LoginConfirmed(s, a) PROVE LoggedInv'
    <2>1. UNCHANGED <<room, queue, batch, entering, rejoining>> /\ acct' = [acct EXCEPT ![s] = a]
          /\ found' = found \cup {<<s, a>>}
      BY <1>3 DEF LoginConfirmed, tickVars
    <2>2. /\ acct \in [Sessions -> AccountIds] /\ a # NoAccount
          /\ found \subseteq Sessions \X Accounts /\ rejoining \subseteq Sessions \X RoomIds
      BY NoAccountFresh DEF TypeOK
    <2>3. \A t \in Sessions : acct[t] # NoAccount => acct'[t] # NoAccount
      BY <2>1, <2>2
    <2>4. acct'[s] # NoAccount
      BY <2>1, <2>2
    <2>5. LoggedJobs \subseteq LoggedJobs'
      BY <2>3 DEF LoggedJobs, Job
    <2>6. LoggedQueues'
      <3>1. \A q \in Seq(LoggedJobs) : q \in Seq(LoggedJobs')
        BY <2>5, SeqMonotonic
      <3> QED
        BY <1>1, <2>1, <3>1 DEF LoggedQueues, RoomIds
    <2>7. LoggedMembers'
      <3>1. \A r \in RoomIds : room[r].members \subseteq Sessions
        BY DEF TypeOK, Room
      <3> QED
        BY <2>1, <2>3, <3>1 DEF LoggedInv, LoggedMembers, RoomIds
    <2>8. LoggedOnTheWay'
      <3>1. \A c \in found \cup rejoining : c[1] \in Sessions
        BY <2>2
      <3> QED
        BY <1>1, <2>1, <2>3, <2>4, <3>1 DEF LoggedOnTheWay
    <2> QED
      BY <2>6, <2>7, <2>8 DEF LoggedInv
  <1>4. CASE LoginRefused(s)
    <2>1. UNCHANGED <<room, acct, queue, batch>> /\ LoggedOnTheWay'
      BY <1>1, <1>4 DEF LoginRefused, tickVars, LoggedOnTheWay
    <2> QED
      BY <1>1, <2>1, RoomsSameLogged
  <1>5. ASSUME NEW a \in Accounts, LoginWithoutSlot(s, a) \/ LoginWithSlot(s, a) PROVE LoggedInv'
    <2>1. UNCHANGED <<room, acct, queue, batch, entering>> /\ found' \subseteq found
          /\ <<s, a>> \in found /\ \A c \in rejoining' : c \in rejoining \/ \E r : c = <<s, r>>
      BY <1>5 DEF LoginWithoutSlot, LoginWithSlot, tickVars, sessionVars
    <2>2. acct[s] # NoAccount
      BY <1>1, <2>1 DEF LoggedOnTheWay
    <2>3. LoggedOnTheWay'
      BY <1>1, <2>1, <2>2 DEF LoggedOnTheWay
    <2> QED
      BY <1>1, <2>1, <2>3, RoomsSameLogged
  <1>6. ASSUME NEW r \in RoomIds, RejoinPush(s, r) PROVE LoggedInv'
    <2>1. UNCHANGED <<room, acct, batch, entering, found>> /\ rejoining' \subseteq rejoining
          /\ <<s, r>> \in rejoining /\ PushJob(r, SessionJob("Rejoin", s))
      BY <1>6 DEF RejoinPush, tickVars
    <2>2. acct[s] # NoAccount
      BY <1>1, <2>1 DEF LoggedOnTheWay
    <2>3. queue' \in [RoomIds -> Seq(LoggedJobs)]
      BY <1>1, <1>2, <2>1, <2>2, PushedLogged, JobsLogged DEF PushJob
    <2>4. LoggedOnTheWay'
      BY <1>1, <2>1 DEF LoggedOnTheWay
    <2> QED
      BY <1>1, <2>1, <2>3, <2>4, RoomsSameLogged
  <1>7. CASE Connection(s)
    <2>1. UNCHANGED <<room, acct, batch, entering, found, rejoining>>
      BY <1>7 DEF Connection, ReceiveEnds, TimeOut, FinishDisconnect, DisconnectReadsRoom,
         DisconnectLeavesRoom, tickVars, authVars
    <2>2. queue' \in [RoomIds -> Seq(LoggedJobs)]
      <3>1. UNCHANGED queue \/ \E r \in RoomIds : queue' = Pushed(r, SessionJob("Leave", s))
        BY <1>7 DEF Connection, ReceiveEnds, TimeOut, FinishDisconnect, DisconnectReadsRoom,
           DisconnectLeavesRoom, PushJob
      <3> QED
        BY <1>1, <1>2, <3>1, PushedLogged, JobsLogged
    <2>3. LoggedOnTheWay'
      BY <1>1, <2>1 DEF LoggedOnTheWay
    <2> QED
      BY <1>1, <2>1, <2>2, <2>3, RoomsSameLogged
  <1> QED
    BY <1>3, <1>4, <1>5, <1>6, <1>7 DEF Callbacks

\* The tick thread: jobs make members and marks of those who have logged in.
LEMMA TickLogged ==
    ASSUME IInv, LoggedInv, TickThread
    PROVE  LoggedInv'
  <1> USE DEF IInv
  <1>1. /\ queue \in [RoomIds -> Seq(LoggedJobs)] /\ batch \in Seq(LoggedJobs) /\ LoggedOnTheWay
        /\ LoggedMembers /\ room \in [RoomIds -> Room]
    BY DEF LoggedInv, LoggedQueues, TypeOK
  <1>2. CASE TickAll \/ (\E r \in RoomIds : TickFlush(r)) \/ TickFreed
    <2>1. UNCHANGED <<room, acct>> /\ LoggedOnTheWay'
      BY <1>1, <1>2 DEF TickAll, TickFlush, TickFreed, sessionVars, authVars, LoggedOnTheWay
    <2>2. queue' \in [RoomIds -> Seq(LoggedJobs)] /\ batch' \in Seq(LoggedJobs)
      <3>1. ASSUME NEW r \in RoomIds, TickFlush(r)
            PROVE  queue' \in [RoomIds -> Seq(LoggedJobs)] /\ batch' \in Seq(LoggedJobs)
        <4>1. queue[r] \in Seq(LoggedJobs) /\ << >> \in Seq(LoggedJobs)
          BY <1>1
        <4> QED
          BY <1>1, <3>1, <4>1 DEF TickFlush
      <3>2. TickAll \/ TickFreed => UNCHANGED <<queue, batch>>
        BY DEF TickAll, TickFreed, tickVars
      <3> QED
        BY <1>1, <1>2, <3>1, <3>2
    <2> QED
      BY <2>1, <2>2, RoomsSameLogged
  <1>3. \* What is left to show for a job, or for the end of Tick().
        ASSUME NEW rm, cur \in RoomIds, room' = [room EXCEPT ![cur] = rm],
               UNCHANGED <<acct, queue, entering, found, rejoining>>,
               batch' \in Seq(LoggedJobs),
               \A s \in rm.members : acct[s] # NoAccount,
               NoAccount \notin rm.ready \cup rm.moves
        PROVE  LoggedInv'
    <2>1. LoggedJobs' = LoggedJobs
      BY <1>3 DEF LoggedJobs, Job
    <2>2. \A r \in RoomIds : room'[r] = IF r = cur THEN rm ELSE room[r]
      BY <1>1, <1>3
    <2>3. LoggedMembers'
      BY <1>1, <1>3, <2>2 DEF LoggedMembers, RoomIds
    <2>4. LoggedQueues' /\ LoggedOnTheWay'
      BY <1>1, <1>3, <2>1 DEF LoggedQueues, LoggedOnTheWay, RoomIds
    <2> QED
      BY <2>3, <2>4 DEF LoggedInv
  <1>4. ASSUME RunsJob
        PROVE  /\ cur \in RoomIds /\ batch' \in Seq(LoggedJobs) /\ Head(batch) \in LoggedJobs
               /\ room[cur] \in Room
               /\ \A s \in room[cur].members : acct[s] # NoAccount
               /\ NoAccount \notin room[cur].ready \cup room[cur].moves
    <2>1. cur \in heap /\ batch # <<>> /\ batch' = Tail(batch)
      BY <1>4 DEF RunsJob, RunEnter, RunLeave, RunRejoin, RunReady, RunMove, RunChat, Runs
    <2> QED
      BY <1>1, <2>1 DEF TypeOK, LoggedMembers
  <1>5. ASSUME RunsJob PROVE UNCHANGED <<acct, queue, entering, found, rejoining>>
    BY <1>5 DEF RunsJob, RunEnter, RunLeave, RunRejoin, RunReady, RunMove, RunChat, sessionVars, authVars
  <1>6. CASE RunEnter \/ RunRejoin
    <2> DEFINE s == Head(batch).s
    <2>1. acct[s] # NoAccount
      BY <1>4, <1>6 DEF RunsJob, RunEnter, RunRejoin, Runs, LoggedJobs
    <2>2. PICK rm : /\ room' = [room EXCEPT ![cur] = rm]
                    /\ rm.members \subseteq room[cur].members \cup {s}
                    /\ rm.ready = room[cur].ready /\ rm.moves = room[cur].moves
      <3>1. RunsJob /\ room[cur] \in Room
        BY <1>4, <1>6 DEF RunsJob
      <3>2. CASE RunEnter
        <4> DEFINE rm == HandleEnter(room[cur], s)
        <4>1. rm.members \subseteq room[cur].members \cup {s} /\ rm.ready = room[cur].ready /\ rm.moves = room[cur].moves
          BY <3>1 DEF HandleEnter, Insert, Room
        <4> QED
          BY <3>2, <4>1 DEF RunEnter, Becomes
      <3>3. CASE RunRejoin
        <4> DEFINE rm == HandleRejoin(room[cur], s, acct[s])
        <4>1. rm.members = room[cur].members \cup {s} /\ rm.ready = room[cur].ready /\ rm.moves = room[cur].moves
          BY <3>1 DEF HandleRejoin, Insert, Room
        <4> QED
          BY <3>3, <4>1 DEF RunRejoin, Becomes
      <3> QED
        BY <1>6, <3>2, <3>3
    <2> HIDE DEF s
    <2> QED
      BY <1>3, <1>4, <1>5, <1>6, <2>1, <2>2 DEF RunsJob
  <1>7. CASE RunLeave
    <2> DEFINE s == Head(batch).s
               a == acct[s]
    <2>1. RunsJob /\ room[cur] \in Room
      BY <1>4, <1>7 DEF RunsJob
    <2>2. room' = [room EXCEPT ![cur] = HandleLeave(room[cur], s, a)]
      BY <1>7 DEF RunLeave, Becomes
    <2> HIDE DEF s, a
    <2>3. LET rm == HandleLeave(room[cur], s, a)
          IN  rm.members \subseteq room[cur].members /\ rm.ready \subseteq room[cur].ready
              /\ rm.moves \subseteq room[cur].moves
      BY <2>1 DEF HandleLeave, LeaveMember, MarkIfEmpty, HandleGameEnd, SaveSlot, Erase, Room
    <2> QED
      BY <1>3, <1>4, <1>5, <2>1, <2>2, <2>3
  <1>8. CASE RunReady \/ RunMove
    <2> DEFINE a == Head(batch).a
    <2>1. RunsJob /\ room[cur] \in Room /\ Head(batch) \in LoggedJobs
      BY <1>4, <1>8 DEF RunsJob
    <2>2. a # NoAccount
      BY <1>8, <2>1 DEF RunReady, RunMove, Runs, LoggedJobs
    <2>3. \/ room' = [room EXCEPT ![cur] = HandleReady(room[cur], a)]
          \/ room' = [room EXCEPT ![cur] = HandleMove(room[cur], a)]
      BY <1>8 DEF RunReady, RunMove, Becomes
    <2> HIDE DEF a
    <2>4. LET rm == HandleReady(room[cur], a)
          IN  rm.members = room[cur].members /\ rm.ready \subseteq room[cur].ready \cup {a}
              /\ rm.moves = room[cur].moves
      BY <2>1 DEF HandleReady, TryStartGame, StartGame, Toggle, Room
    <2>5. LET rm == HandleMove(room[cur], a)
          IN  rm.members = room[cur].members /\ rm.ready = room[cur].ready
              /\ rm.moves \subseteq room[cur].moves \cup {a}
      BY <2>1 DEF HandleMove, Room
    <2> QED
      BY <1>3, <1>4, <1>5, <2>1, <2>2, <2>3, <2>4, <2>5
  <1>9. CASE RunChat
    <2>1. RunsJob /\ UNCHANGED <<room, acct, queue>> /\ LoggedOnTheWay'
      BY <1>1, <1>9 DEF RunsJob, RunChat, authVars, LoggedOnTheWay
    <2> QED
      BY <1>1, <1>4, <2>1, RoomsSameLogged
  <1>10. CASE TickEnds
    <2>1. /\ cur \in RoomIds /\ room' = [room EXCEPT ![cur] = TickRest(room[cur])]
          /\ UNCHANGED <<acct, queue, entering, found, rejoining, batch>>
      BY <1>10 DEF TickEnds, Becomes, TypeOK, authVars
    <2>2. room[cur] \in Room
      BY <1>1, <2>1
    <2>3. LET rm == TickRest(room[cur])
          IN  rm.members = room[cur].members /\ rm.ready = room[cur].ready
              /\ rm.moves \subseteq room[cur].moves
      BY <2>2 DEF TickRest, ExpireSlots, Room
    <2> QED
      BY <1>1, <1>3, <2>1, <2>3 DEF LoggedMembers
  <1> QED
    BY <1>2, <1>6, <1>7, <1>8, <1>9, <1>10 DEF TickThread, RunsJob

\* The heartbeat thread and the clocks.
LEMMA OthersLogged ==
    ASSUME IInv, LoggedInv, RemoveIdleRooms \/ (\E r \in RoomIds : Clocks(r)) \/ UNCHANGED vars
    PROVE  LoggedInv'
  <1> USE DEF IInv
  <1>1. /\ queue \in [RoomIds -> Seq(LoggedJobs)] /\ batch \in Seq(LoggedJobs) /\ LoggedOnTheWay
        /\ LoggedMembers /\ room \in [RoomIds -> Room]
    BY DEF LoggedInv, LoggedQueues, TypeOK
  <1>2. UNCHANGED <<acct, batch, entering, found, rejoining>>
    BY DEF RemoveIdleRooms, SweepBegins, SweepLoads, SweepErases, Clocks, IdleTimeoutPasses,
       ReconnectWindowPasses, ResultDelayPasses, Ages, vars, tickVars, sessionVars, authVars
  <1>3. LoggedJobs' = LoggedJobs /\ LoggedOnTheWay'
    BY <1>1, <1>2 DEF LoggedJobs, Job, LoggedOnTheWay
  <1>4. queue' \in [RoomIds -> Seq(LoggedJobs)]
    <2>1. CASE RemoveIdleRooms
      <3>1. << >> \in Seq(LoggedJobs)
        OBVIOUS
      <3>2. UNCHANGED queue \/ queue' = [queue EXCEPT ![doomed] = << >>]
        BY <2>1 DEF RemoveIdleRooms, SweepBegins, SweepLoads, SweepErases
      <3> QED
        BY <1>1, <3>1, <3>2
    <2>2. (\E r \in RoomIds : Clocks(r)) \/ UNCHANGED vars => UNCHANGED queue
      BY DEF Clocks, IdleTimeoutPasses, ReconnectWindowPasses, ResultDelayPasses, Ages, vars
    <2> QED
      BY <1>1, <2>1, <2>2
  <1>5. ASSUME NEW r \in RoomIds
        PROVE  /\ room'[r].members = room[r].members
               /\ room'[r].ready = room[r].ready /\ room'[r].moves = room[r].moves
    <2>1. room[r] \in Room
      BY <1>1
    <2>2. CASE RemoveIdleRooms
      BY <2>2 DEF RemoveIdleRooms, SweepBegins, SweepLoads, SweepErases
    <2>3. ASSUME NEW q \in RoomIds, Clocks(q)
          PROVE  /\ room'[r].members = room[r].members
                 /\ room'[r].ready = room[r].ready /\ room'[r].moves = room[r].moves
      <3>1. room[q] \in Room
        BY <1>1
      <3>2. CASE IdleTimeoutPasses(q)
        BY <1>1, <3>1, <3>2 DEF IdleTimeoutPasses, Ages, Room
      <3>3. CASE ResultDelayPasses(q)
        BY <1>1, <3>1, <3>3 DEF ResultDelayPasses, Ages, Room
      <3>4. ASSUME NEW a \in AccountIds, ReconnectWindowPasses(q, a)
            PROVE  /\ room'[r].members = room[r].members
                   /\ room'[r].ready = room[r].ready /\ room'[r].moves = room[r].moves
        BY <1>1, <3>1, <3>4 DEF ReconnectWindowPasses, Ages, Room
      <3> QED
        BY <2>3, <3>2, <3>3, <3>4 DEF Clocks
    <2>4. CASE UNCHANGED vars
      BY <2>4 DEF vars
    <2> QED
      BY <2>2, <2>3, <2>4
  <1>6. LoggedMembers'
    BY <1>1, <1>2, <1>5 DEF LoggedMembers, RoomIds
  <1> QED
    BY <1>1, <1>2, <1>3, <1>4, <1>6 DEF LoggedInv, LoggedQueues, RoomIds

\* Members have logged in, and no mark is made for the empty account.
THEOREM MembersHaveLoggedIn == Spec => []MembersLoggedIn
  <1>1. ASSUME IInv, LoggedInv, [Next]_vars PROVE LoggedInv'
    BY <1>1, HandlersLogged, CallbacksLogged, TickLogged, OthersLogged DEF Next
  <1>2. LoggedInv => MembersLoggedIn
    BY DEF LoggedInv, LoggedMembers, MembersLoggedIn
  <1> QED
    BY <1>1, <1>2, InitLogged, Invariance, PTL DEF Spec

----------------------------------------------------------------------------
(* Rooms that RemoveIdleRooms would keep for ever.                          *)

\* NoForgottenRoom without its exception for uaf.
NoneLeftBehind ==
    \A r \in heap :
        room[r].members = {} /\ room[r].emptySince = "unset" => EnterPending(r)

Forgotten(r) == room[r].members = {} /\ room[r].emptySince = "unset"

HasEnter(jobs) == \E i \in DOMAIN jobs : jobs[i].op = "Enter"

LEMMA PendingIs ==
    ASSUME NEW r
    PROVE  EnterPending(r) <=> \/ HasEnter(queue[r])
                               \/ cur = r /\ HasEnter(batch)
                               \/ \E s \in Sessions : entering[s] = r
  BY DEF EnterPending, HasEnter

LEMMA AppendEnter ==
    ASSUME NEW q \in Seq(Job), NEW job \in Job
    PROVE  /\ HasEnter(q) => HasEnter(Append(q, job))
           /\ job.op = "Enter" => HasEnter(Append(q, job))
  <1>1. /\ DOMAIN q = 1 .. Len(q) /\ DOMAIN Append(q, job) = 1 .. Len(q) + 1 /\ Len(q) \in Nat
        /\ \A i \in 1 .. Len(q) : Append(q, job)[i] = q[i]
        /\ Append(q, job)[Len(q) + 1] = job
    OBVIOUS
  <1> QED
    BY <1>1 DEF HasEnter

LEMMA TailEnter ==
    ASSUME NEW q \in Seq(Job), q # << >>, Head(q).op # "Enter", HasEnter(q)
    PROVE  HasEnter(Tail(q))
  <1>1. /\ DOMAIN q = 1 .. Len(q) /\ DOMAIN Tail(q) = 1 .. Len(q) - 1 /\ Len(q) \in Nat
        /\ \A i \in 1 .. Len(q) - 1 : Tail(q)[i] = q[i + 1]
        /\ Head(q) = q[1]
    OBVIOUS
  <1>2. PICK i \in 1 .. Len(q) : q[i].op = "Enter"
    BY <1>1 DEF HasEnter
  <1>3. i # 1
    BY <1>1, <1>2
  <1>4. i - 1 \in 1 .. Len(q) - 1 /\ Tail(q)[i - 1] = q[i]
    BY <1>1, <1>2, <1>3
  <1> QED
    BY <1>1, <1>2, <1>4 DEF HasEnter

\* A step that forgets no further room and loses no Enter job.
LEMMA NoneForgotten ==
    ASSUME NoneLeftBehind, heap' \subseteq heap,
           \A r \in heap' : (Forgotten(r)' => Forgotten(r)) /\ (EnterPending(r) => EnterPending(r)')
    PROVE  NoneLeftBehind'
  BY DEF NoneLeftBehind, Forgotten

\* A step that at most pushes a job that is no Enter job.
LEMMA PushForgets ==
    ASSUME IInv, NoneLeftBehind, UNCHANGED <<room, heap, cur, batch, entering>>,
           UNCHANGED queue \/ \E q, job : job \in Job /\ queue' = Pushed(q, job)
    PROVE  NoneLeftBehind'
  <1>1. ASSUME NEW r \in heap, EnterPending(r) PROVE EnterPending(r)'
    <2>1. r \in RoomIds /\ queue \in [RoomIds -> Seq(Job)]
      BY DEF IInv, TypeOK
    <2>2. HasEnter(queue[r]) => HasEnter(queue'[r])
      BY <2>1, AppendEnter DEF Pushed
    <2> QED
      BY <1>1, <2>2 DEF EnterPending, HasEnter
  <1>2. \A r : Forgotten(r)' => Forgotten(r)
    BY DEF Forgotten
  <1> QED
    BY <1>1, <1>2, NoneForgotten

\* The handlers, callbacks and lost connections.
LEMMA ClientsForget ==
    ASSUME IInv, NoneLeftBehind, NEW s \in Sessions, Handlers(s) \/ Callbacks(s) \/ Connection(s)
    PROVE  NoneLeftBehind'
  <1> USE DEF IInv
  <1>1. queue \in [RoomIds -> Seq(Job)] /\ entering \in [Sessions -> RoomRefs] /\ heap \subseteq RoomIds
    BY DEF TypeOK
  <1>2. acct[s] \in AccountIds
    BY DEF TypeOK
  <1>3. CASE \/ Handle_C_CHAT(s) \/ Handle_C_MOVE(s) \/ Handle_C_READY(s) \/ Handle_C_ROOM_LEAVE(s)
             \/ Handle_C_PING(s) \/ Handle_C_ROOM_LIST(s) \/ Handle_C_LOGIN(s) \/ Answer(s)
    <2>1. UNCHANGED <<room, heap, cur, batch, entering>>
      BY <1>3 DEF Handle_C_CHAT, Handle_C_MOVE, Handle_C_READY, Handle_C_ROOM_LEAVE, Handle_C_PING,
         Handle_C_ROOM_LIST, Handle_C_LOGIN, AsksSessionServer, PushToOwnRoom, Answer, roomVars, tickVars
    <2>2. UNCHANGED queue \/ \E q, job : job \in Job /\ queue' = Pushed(q, job)
      BY <1>2, <1>3, JobsTyped DEF Handle_C_CHAT, Handle_C_MOVE, Handle_C_READY, Handle_C_ROOM_LEAVE,
         Handle_C_PING, Handle_C_ROOM_LIST, Handle_C_LOGIN, AsksSessionServer, PushToOwnRoom, PushJob,
         Answer
    <2> QED
      BY <2>1, <2>2, PushForgets
  <1>4. CASE Callbacks(s) \/ Connection(s)
    <2>1. UNCHANGED <<room, heap, cur, batch, entering>>
      BY <1>4 DEF Callbacks, LoginRefused, LoginConfirmed, LoginWithoutSlot, LoginWithSlot, RejoinPush,
         Connection, ReceiveEnds, TimeOut, FinishDisconnect, DisconnectReadsRoom, DisconnectLeavesRoom,
         roomVars, tickVars
    <2>2. \/ UNCHANGED queue
          \/ \E q \in RoomIds : queue' = Pushed(q, SessionJob("Rejoin", s))
          \/ \E q \in RoomIds : queue' = Pushed(q, SessionJob("Leave", s))
      BY <1>4 DEF Callbacks, LoginRefused, LoginConfirmed, LoginWithoutSlot, LoginWithSlot, RejoinPush,
         Connection, ReceiveEnds, TimeOut, FinishDisconnect, DisconnectReadsRoom, DisconnectLeavesRoom,
         PushJob
    <2>3. SessionJob("Rejoin", s) \in Job /\ SessionJob("Leave", s) \in Job
      BY <1>2, JobsTyped
    <2> QED
      BY <2>1, <2>2, <2>3, PushForgets
  <1>5. ASSUME NEW n \in Names, ChangeRoom(s, n), entering[s] = None PROVE NoneLeftBehind'
    <2>1. /\ UNCHANGED <<room, cur, batch>>
          /\ \A t \in Sessions : t # s => entering'[t] = entering[t]
          /\ UNCHANGED heap \/ heap' = heap \cup {entering'[s]}
      BY <1>1, <1>5 DEF ChangeRoom, GetOrCreate, tickVars, roomVars
    <2>2. \A r \in RoomIds : HasEnter(queue[r]) => HasEnter(queue'[r])
      <3>1. UNCHANGED queue \/ queue' = Pushed(roomOf[s], SessionJob("Leave", s))
        BY <1>5 DEF ChangeRoom, PushJob
      <3>2. SessionJob("Leave", s) \in Job
        BY <1>2, JobsTyped
      <3>3. \A r \in RoomIds : queue'[r] = queue[r] \/ queue'[r] = Append(queue[r], SessionJob("Leave", s))
        BY <1>1, <3>1 DEF Pushed
      <3> QED
        BY <1>1, <3>2, <3>3, AppendEnter
    <2>3. ASSUME NEW r \in heap, EnterPending(r) PROVE EnterPending(r)'
      <3>1. r \in RoomIds /\ r # None
        BY <1>1 DEF RoomIds, None
      <3>2. CASE HasEnter(queue[r])
        BY <2>2, <3>1, <3>2 DEF EnterPending, HasEnter
      <3>3. CASE cur = r /\ HasEnter(batch)
        BY <2>1, <3>3 DEF EnterPending, HasEnter
      <3>4. CASE \E t \in Sessions : entering[t] = r
        BY <1>5, <2>1, <3>1, <3>4 DEF EnterPending
      <3> QED
        BY <2>3, <3>2, <3>3, <3>4, PendingIs
    <2>4. ASSUME NEW r, entering'[s] = r PROVE EnterPending(r)'
      BY <2>4 DEF EnterPending
    <2> QED
      BY <2>1, <2>3, <2>4 DEF NoneLeftBehind, Forgotten
  <1>6. CASE EnterPush(s)
    <2> DEFINE e == entering[s]
               job == SessionJob("Enter", s)
    <2>1. /\ UNCHANGED <<room, heap, cur, batch>>
          /\ \A t \in Sessions : t # s => entering'[t] = entering[t]
          /\ e \in heap => queue' = Pushed(e, job)
          /\ e \notin heap => UNCHANGED queue
      BY <1>1, <1>6 DEF EnterPush, PushJob, tickVars, roomVars
    <2>2. job \in Job /\ job.op = "Enter"
      BY <1>2, JobsTyped DEF SessionJob
    <2> HIDE DEF job, e
    <2>3. ASSUME NEW r \in heap, EnterPending(r) PROVE EnterPending(r)'
      <3>1. r \in RoomIds /\ queue[r] \in Seq(Job)
        BY <1>1
      <3>2. HasEnter(queue[r]) => HasEnter(queue'[r])
        BY <1>1, <2>1, <2>2, <3>1, AppendEnter DEF Pushed
      <3>3. r = e => HasEnter(queue'[r])
        BY <1>1, <2>1, <2>2, <3>1, AppendEnter DEF Pushed
      <3>4. CASE HasEnter(queue[r]) \/ r = e
        BY <3>2, <3>3, <3>4 DEF EnterPending, HasEnter
      <3>5. CASE cur = r /\ HasEnter(batch)
        BY <2>1, <3>5 DEF EnterPending, HasEnter
      <3>6. ASSUME NEW t \in Sessions, entering[t] = r, r # e PROVE EnterPending(r)'
        <4>1. entering'[t] = r
          BY <2>1, <3>6 DEF e
        <4> QED
          BY <4>1 DEF EnterPending
      <3> QED
        BY <2>3, <3>4, <3>5, <3>6, PendingIs
    <2>4. \A r : Forgotten(r)' => Forgotten(r)
      BY <2>1 DEF Forgotten
    <2> QED
      BY <2>1, <2>3, <2>4, NoneForgotten
  <1> QED
    BY <1>3, <1>4, <1>5, <1>6 DEF Handlers, Handle_C_ROOM_ENTER, Receives

\* A room that HandleEnter refuses somebody is not empty.
LEMMA RefusedMeansFull ==
    ASSUME NEW rm \in Room, RoomGood(rm), ~Admits(rm)
    PROVE  rm.members # {}
  BY MaxPlayersPositive, FS_EmptySet DEF RoomGood, Admits

\* The tick thread.
LEMMA TickForgets ==
    ASSUME IInv, NoneLeftBehind, TickThread
    PROVE  NoneLeftBehind'
  <1> USE DEF IInv
  <1>1. /\ queue \in [RoomIds -> Seq(Job)] /\ batch \in Seq(Job) /\ heap \subseteq RoomIds
        /\ room \in [RoomIds -> Room]
    BY DEF TypeOK
  <1>2. CASE TickAll \/ TickFreed
    <2>1. UNCHANGED <<room, heap, cur, batch, entering, queue>>
      BY <1>2 DEF TickAll, TickFreed, roomVars, tickVars
    <2> QED
      BY <2>1, PushForgets
  <1>3. ASSUME NEW q \in RoomIds, TickFlush(q) PROVE NoneLeftBehind'
    <2>1. /\ UNCHANGED <<room, heap, entering>> /\ cur = None /\ cur' = q /\ batch' = queue[q]
          /\ \A r \in RoomIds : r # q => queue'[r] = queue[r]
      BY <1>1, <1>3 DEF TickFlush, roomVars
    <2>2. ASSUME NEW r \in heap, EnterPending(r) PROVE EnterPending(r)'
      <3>1. r \in RoomIds /\ r # cur
        BY <1>1, <2>1 DEF RoomIds, None
      <3>2. CASE HasEnter(queue[r]) /\ r = q
        BY <2>1, <3>2 DEF EnterPending, HasEnter
      <3>3. CASE HasEnter(queue[r]) /\ r # q
        BY <2>1, <3>1, <3>3 DEF EnterPending, HasEnter
      <3>4. CASE \E t \in Sessions : entering[t] = r
        BY <2>1, <3>4 DEF EnterPending
      <3> QED
        BY <2>2, <3>1, <3>2, <3>3, <3>4, PendingIs
    <2>3. \A r : Forgotten(r)' => Forgotten(r)
      BY <2>1 DEF Forgotten
    <2> QED
      BY <2>1, <2>2, <2>3, NoneForgotten
  <1>4. CASE RunEnter
    <2> DEFINE rm == HandleEnter(room[cur], Head(batch).s)
    <2>1. /\ cur \in RoomIds /\ UNCHANGED <<heap, cur, entering, queue>>
          /\ room' = [room EXCEPT ![cur] = rm] /\ Head(batch).s \in Sessions
      BY <1>4, HeadTyped DEF RunEnter, Becomes, roomVars
    <2>2. room[cur] \in Room /\ RoomGood(room[cur])
      BY <1>1, <2>1 DEF RoomsGood
    <2>3. rm.members # {}
      BY <2>1, <2>2, EnterGood, RefusedMeansFull DEF HandleEnter
    <2> HIDE DEF rm
    <2>4. ASSUME NEW r \in heap, Forgotten(r)' PROVE r # cur /\ Forgotten(r)
      BY <1>1, <2>1, <2>3, <2>4 DEF Forgotten
    <2>5. ASSUME NEW r \in heap, r # cur, EnterPending(r) PROVE EnterPending(r)'
      BY <2>1, <2>5 DEF EnterPending
    <2> QED
      BY <2>1, <2>4, <2>5 DEF NoneLeftBehind, Forgotten
  <1>5. \* A job of another kind, or the end of Tick().
        ASSUME UNCHANGED <<heap, entering, queue>>,
               UNCHANGED cur \/ batch = << >>,
               batch = << >> \/ (batch' = Tail(batch) /\ Head(batch).op # "Enter"),
               \A r \in heap : Forgotten(r)' => Forgotten(r)
        PROVE  NoneLeftBehind'
    <2>1. HasEnter(batch) => HasEnter(batch') /\ UNCHANGED cur
      <3>1. batch = << >> => ~HasEnter(batch)
        BY DEF HasEnter
      <3> QED
        BY <1>1, <1>5, <3>1, TailEnter
    <2>2. ASSUME NEW r \in heap, EnterPending(r) PROVE EnterPending(r)'
      <3>1. CASE HasEnter(queue[r]) \/ \E t \in Sessions : entering[t] = r
        BY <1>5, <3>1 DEF EnterPending, HasEnter
      <3>2. CASE cur = r /\ HasEnter(batch)
        BY <2>1, <3>2 DEF EnterPending, HasEnter
      <3> QED
        BY <2>2, <3>1, <3>2, PendingIs
    <2> QED
      BY <1>5, <2>2, NoneForgotten
  <1>6. \* A room that is not more forgotten than before.
        ASSUME NEW rm, cur \in RoomIds, room' = [room EXCEPT ![cur] = rm],
               rm.members = {} /\ rm.emptySince = "unset"
                  => room[cur].members = {} /\ room[cur].emptySince = "unset"
        PROVE  \A r \in heap : Forgotten(r)' => Forgotten(r)
    BY <1>1, <1>6 DEF Forgotten
  <1>7. CASE RunLeave
    <2> DEFINE s == Head(batch).s
               rm == HandleLeave(room[cur], s, acct[s])
    <2>1. /\ cur \in RoomIds /\ s \in Sessions /\ UNCHANGED <<heap, cur, entering, queue>>
          /\ room' = [room EXCEPT ![cur] = rm]
          /\ batch' = Tail(batch) /\ Head(batch).op # "Enter"
      BY <1>7, HeadTyped DEF RunLeave, Becomes, Runs, roomVars
    <2>2. room[cur] \in Room /\ RoomGood(room[cur]) /\ acct[s] \in AccountIds
      BY <1>1, <2>1 DEF RoomsGood, TypeOK
    <2>3. rm.members = {} /\ rm.emptySince = "unset"
             => room[cur].members = {} /\ room[cur].emptySince = "unset"
      <3>1. CASE s \notin room[cur].members
        BY <3>1 DEF HandleLeave
      <3>2. CASE s \in room[cur].members /\ room[cur].state = "IN_GAME"
        BY <2>1, <2>2, <3>2, LeaveGood
      <3>3. CASE s \in room[cur].members /\ room[cur].state # "IN_GAME"
        <4>1. rm = MarkIfEmpty(Erase(room[cur], s, acct[s]))
          BY <3>3 DEF HandleLeave, LeaveMember
        <4> QED
          BY <2>2, <4>1 DEF MarkIfEmpty, Erase, Room
      <3> QED
        BY <3>1, <3>2, <3>3
    <2> HIDE DEF rm
    <2>4. \A r \in heap : Forgotten(r)' => Forgotten(r)
      BY <1>6, <2>1, <2>3
    <2> QED
      BY <1>5, <2>1, <2>4
  <1>8. CASE RunRejoin
    <2> DEFINE s == Head(batch).s
               rm == HandleRejoin(room[cur], s, acct[s])
    <2>1. /\ cur \in RoomIds /\ s \in Sessions /\ UNCHANGED <<heap, cur, entering, queue>>
          /\ room' = [room EXCEPT ![cur] = rm]
          /\ batch' = Tail(batch) /\ Head(batch).op # "Enter"
      BY <1>8, HeadTyped DEF RunRejoin, Becomes, Runs, roomVars
    <2>2. room[cur] \in Room /\ RoomGood(room[cur]) /\ acct[s] \in AccountIds
      BY <1>1, <2>1 DEF RoomsGood, TypeOK
    <2>3. rm.members # {}
      <3>1. rm.members = room[cur].members \cup {s}
        BY <2>2 DEF HandleRejoin, Insert, Room
      <3> QED
        BY <3>1
    <2> HIDE DEF rm
    <2>4. \A r \in heap : Forgotten(r)' => Forgotten(r)
      BY <1>6, <2>1, <2>3
    <2> QED
      BY <1>5, <2>1, <2>4
  <1>9. CASE RunReady \/ RunMove
    <2> DEFINE a == Head(batch).a
    <2>1. /\ cur \in RoomIds /\ UNCHANGED <<heap, cur, entering, queue>>
          /\ \/ room' = [room EXCEPT ![cur] = HandleReady(room[cur], a)]
             \/ room' = [room EXCEPT ![cur] = HandleMove(room[cur], a)]
          /\ batch' = Tail(batch) /\ Head(batch).op # "Enter"
      BY <1>9, HeadTyped DEF RunReady, RunMove, Becomes, Runs, roomVars
    <2>2. room[cur] \in Room
      BY <1>1, <2>1
    <2> HIDE DEF a
    <2>3. /\ HandleReady(room[cur], a).members = room[cur].members
          /\ HandleReady(room[cur], a).emptySince = room[cur].emptySince
      BY <2>2 DEF HandleReady, TryStartGame, StartGame, Toggle, Room
    <2>4. /\ HandleMove(room[cur], a).members = room[cur].members
          /\ HandleMove(room[cur], a).emptySince = room[cur].emptySince
      BY <2>2 DEF HandleMove, Room
    <2>5. \A r \in heap : Forgotten(r)' => Forgotten(r)
      BY <1>6, <2>1, <2>3, <2>4
    <2> QED
      BY <1>5, <2>1, <2>5
  <1>10. CASE RunChat
    <2>1. /\ UNCHANGED <<room, heap, cur, entering, queue>>
          /\ batch' = Tail(batch) /\ Head(batch).op # "Enter"
      BY <1>10 DEF RunChat, Runs, roomVars
    <2>2. \A r \in heap : Forgotten(r)' => Forgotten(r)
      BY <2>1 DEF Forgotten
    <2> QED
      BY <1>5, <2>1, <2>2
  <1>11. CASE TickEnds
    <2>1. /\ cur \in RoomIds /\ UNCHANGED <<heap, entering, queue>> /\ batch = << >>
          /\ room' = [room EXCEPT ![cur] = TickRest(room[cur])]
      BY <1>1, <1>11 DEF TickEnds, Becomes, roomVars
    <2>2. room[cur] \in Room
      BY <1>1, <2>1
    <2>3. /\ TickRest(room[cur]).members = room[cur].members
          /\ TickRest(room[cur]).emptySince = room[cur].emptySince
      BY <2>2 DEF TickRest, ExpireSlots, Room
    <2>4. \A r \in heap : Forgotten(r)' => Forgotten(r)
      BY <1>6, <2>1, <2>3
    <2> QED
      BY <1>5, <2>1, <2>4
  <1> QED
    BY <1>2, <1>3, <1>4, <1>7, <1>8, <1>9, <1>10, <1>11 DEF TickThread, RunsJob

\* The heartbeat thread and the clocks.
LEMMA OthersForget ==
    ASSUME IInv, NoneLeftBehind, RemoveIdleRooms \/ (\E r \in RoomIds : Clocks(r)) \/ UNCHANGED vars
    PROVE  NoneLeftBehind'
  <1> USE DEF IInv
  <1>1. room \in [RoomIds -> Room] /\ heap \subseteq RoomIds
    BY DEF TypeOK
  <1>2. CASE RemoveIdleRooms
    <2>1. /\ heap' \subseteq heap /\ UNCHANGED <<room, cur, batch, entering>>
          /\ \A r \in heap' : queue'[r] = queue[r]
      BY <1>1, <1>2 DEF RemoveIdleRooms, SweepBegins, SweepLoads, SweepErases, TypeOK, tickVars
    <2>2. ASSUME NEW r \in heap' PROVE (Forgotten(r)' => Forgotten(r)) /\ (EnterPending(r) => EnterPending(r)')
      BY <2>1 DEF Forgotten, EnterPending
    <2> QED
      BY <2>1, <2>2, NoneForgotten
  <1>3. ASSUME NEW q \in RoomIds, Clocks(q) PROVE NoneLeftBehind'
    <2>1. UNCHANGED <<heap, cur, batch, entering, queue>>
      BY <1>3 DEF Clocks, IdleTimeoutPasses, ReconnectWindowPasses, ResultDelayPasses, Ages, roomVars, tickVars
    <2>2. room[q] \in Room
      BY <1>1
    <2>3. ASSUME NEW r \in RoomIds PROVE room'[r].members = room[r].members /\
                    (room'[r].emptySince = "unset" => room[r].emptySince = "unset")
      <3>1. CASE IdleTimeoutPasses(q)
        BY <1>1, <2>2, <3>1 DEF IdleTimeoutPasses, Ages, Room
      <3>2. CASE ResultDelayPasses(q)
        BY <1>1, <2>2, <3>2 DEF ResultDelayPasses, Ages, Room
      <3>3. ASSUME NEW a \in AccountIds, ReconnectWindowPasses(q, a)
            PROVE  room'[r].members = room[r].members /\
                    (room'[r].emptySince = "unset" => room[r].emptySince = "unset")
        BY <1>1, <2>2, <3>3 DEF ReconnectWindowPasses, Ages, Room
      <3> QED
        BY <1>3, <3>1, <3>2, <3>3 DEF Clocks
    <2>4. ASSUME NEW r \in heap PROVE (Forgotten(r)' => Forgotten(r)) /\ (EnterPending(r) => EnterPending(r)')
      BY <1>1, <2>1, <2>3 DEF Forgotten, EnterPending
    <2> QED
      BY <2>1, <2>4, NoneForgotten
  <1>4. CASE UNCHANGED vars
    BY <1>4, PushForgets DEF vars, roomVars, tickVars
  <1> QED
    BY <1>2, <1>3, <1>4

\* A room without members and without an empty-since stamp has somebody on the way
\* into it: no room escapes RemoveIdleRooms by never having been left.
THEOREM NoRoomForgotten == Spec => []NoForgottenRoom
  <1>1. Init => NoneLeftBehind
    BY DEF Init, NoneLeftBehind
  <1>2. ASSUME IInv, NoneLeftBehind, [Next]_vars PROVE NoneLeftBehind'
    BY <1>2, ClientsForget, TickForgets, OthersForget DEF Next
  <1>3. NoneLeftBehind => NoForgottenRoom
    BY DEF NoneLeftBehind, NoForgottenRoom
  <1> QED
    BY <1>1, <1>2, <1>3, Invariance, PTL DEF Spec

----------------------------------------------------------------------------
(* The room that HandleDisconnect holds a pointer to.                       *)

\* A room that RemoveIdleRooms would not decide to remove now, and, by SweepGood,
\* has not decided to remove; or one that a job has overtaken.
Fresh(r) == r \in overtaken \/ (r \in heap /\ room[r].emptySince # "elapsed")

LeaverInv == \A s \in Sessions, r \in RoomIds : <<s, r>> \in closing => Fresh(r)

\* A step in which no further session gets hold of a room and none becomes stale.
LEMMA LeaversKept ==
    ASSUME LeaverInv,
           \A s \in Sessions, r \in RoomIds : <<s, r>> \in closing' => <<s, r>> \in closing,
           \A r \in RoomIds : Fresh(r) => Fresh(r)'
    PROVE  LeaverInv'
  BY DEF LeaverInv, RoomIds

\* The handlers, callbacks and lost connections.  GetRoom() returned a room with
\* the session in it, and a room with members carries no empty-since stamp.
LEMMA ClientsLeave ==
    ASSUME IInv, LeaverInv, NEW s \in Sessions, Handlers(s) \/ Callbacks(s) \/ Connection(s)
    PROVE  LeaverInv'
  <1>1. UNCHANGED <<room, overtaken>> /\ heap \subseteq heap'
    BY DEF Handlers, Handle_C_CHAT, Handle_C_MOVE, Handle_C_READY, Handle_C_ROOM_LEAVE, Handle_C_PING,
       Handle_C_ROOM_LIST, Handle_C_LOGIN, Handle_C_ROOM_ENTER, ChangeRoom, GetOrCreate, EnterPush,
       AsksSessionServer, PushToOwnRoom, Answer, Callbacks, LoginRefused, LoginConfirmed,
       LoginWithoutSlot, LoginWithSlot, RejoinPush, Connection, ReceiveEnds, TimeOut, FinishDisconnect,
       DisconnectReadsRoom, DisconnectLeavesRoom, roomVars
  <1>2. \A r \in RoomIds : Fresh(r) => Fresh(r)'
    BY <1>1 DEF Fresh
  <1>3. CASE DisconnectReadsRoom(s)
    <2>1. ASSUME NEW t \in Sessions, NEW r \in RoomIds, <<t, r>> \in closing' PROVE Fresh(r)
      <3>1. <<t, r>> \in closing \/ (t = s /\ r = roomOf[s] /\ roomOf[s] # None)
        BY <1>3, <2>1 DEF DisconnectReadsRoom
      <3>2. CASE t = s /\ r = roomOf[s] /\ roomOf[s] # None
        <4>1. (r \in heap \/ r \in overtaken) /\ s \in room[r].members
          BY <3>2 DEF IInv, PointersGood
        <4>2. room[r] \in Room /\ RoomGood(room[r])
          BY DEF IInv, TypeOK, RoomsGood
        <4> QED
          BY <4>1, <4>2 DEF RoomGood, Fresh
      <3> QED
        BY <3>1, <3>2 DEF LeaverInv
    <2> QED
      BY <1>2, <2>1 DEF LeaverInv, RoomIds
  <1>4. CASE ~DisconnectReadsRoom(s)
    <2>1. \A t, r : r # None /\ <<t, r>> \in closing' => <<t, r>> \in closing
      <3>1. CASE Handlers(s) \/ Callbacks(s)
        BY <3>1
        DEF Handlers, Handle_C_CHAT, Handle_C_MOVE, Handle_C_READY, Handle_C_ROOM_LEAVE, Handle_C_PING,
           Handle_C_ROOM_LIST, Handle_C_LOGIN, Handle_C_ROOM_ENTER, ChangeRoom, EnterPush,
           AsksSessionServer, PushToOwnRoom, Answer, Callbacks, LoginRefused, LoginConfirmed,
           LoginWithoutSlot, LoginWithSlot, RejoinPush, sessionVars
      <3>2. CASE ReceiveEnds(s) \/ TimeOut(s)
        <4>1. closing' = closing \/ closing' = closing \cup {<<s, None>>}
          BY <3>2 DEF ReceiveEnds, TimeOut, Disconnect
        <4> QED
          BY <4>1
      <3>3. CASE \E r \in RoomIds : DisconnectLeavesRoom(s, r)
        BY <3>3 DEF DisconnectLeavesRoom
      <3> QED
        BY <1>4, <3>1, <3>2, <3>3 DEF Connection, FinishDisconnect
    <2>2. \A r \in RoomIds : r # None
      BY DEF RoomIds, None
    <2> QED
      BY <1>2, <2>1, <2>2, LeaversKept
  <1> QED
    BY <1>3, <1>4

\* The tick thread.  HandleLeave stamps a room it empties with the time of day,
\* and nothing else sets the stamp.
LEMMA TickLeaves ==
    ASSUME IInv, LeaverInv, TickThread
    PROVE  LeaverInv'
  <1>1. UNCHANGED <<heap, closing>> /\ overtaken \subseteq overtaken'
    BY DEF ComesIn, TickThread, TickAll, TickFlush, TickFreed, RunsJob, RunEnter, RunLeave, RunRejoin, RunReady,
       RunMove, RunChat, TickEnds, roomVars, sessionVars
  <1>2. room \in [RoomIds -> Room]
    BY DEF IInv, TypeOK
  <1>3. \/ UNCHANGED room
        \/ \E rm : /\ cur \in RoomIds /\ room' = [room EXCEPT ![cur] = rm]
                   /\ rm.emptySince = "elapsed" => room[cur].emptySince = "elapsed"
    <2>1. CASE TickAll \/ (\E r \in RoomIds : TickFlush(r)) \/ TickFreed \/ RunChat
      BY <2>1 DEF TickAll, TickFlush, TickFreed, RunChat
    <2>2. CASE RunEnter
      <3> DEFINE rm == HandleEnter(room[cur], Head(batch).s)
      <3>1. room' = [room EXCEPT ![cur] = rm] /\ cur \in RoomIds /\ room[cur] \in Room
        BY <2>2, HeadTyped DEF IInv, RunEnter, Becomes
      <3>2. rm.emptySince = "elapsed" => room[cur].emptySince = "elapsed"
        BY <3>1 DEF HandleEnter, Insert, Room
      <3> QED
        BY <3>1, <3>2
    <2>3. CASE RunLeave
      <3> DEFINE s == Head(batch).s
                 rm == HandleLeave(room[cur], s, acct[s])
      <3>1. room' = [room EXCEPT ![cur] = rm] /\ cur \in RoomIds /\ room[cur] \in Room
        BY <2>3, HeadTyped DEF IInv, RunLeave, Becomes
      <3> HIDE DEF s
      <3>2. rm.emptySince = "elapsed" => room[cur].emptySince = "elapsed"
        BY <3>1 DEF HandleLeave, LeaveMember, MarkIfEmpty, SaveSlot, HandleGameEnd, Erase, Room
      <3> QED
        BY <3>1, <3>2
    <2>4. CASE RunRejoin
      <3> DEFINE s == Head(batch).s
                 rm == HandleRejoin(room[cur], s, acct[s])
      <3>1. room' = [room EXCEPT ![cur] = rm] /\ cur \in RoomIds /\ room[cur] \in Room
        BY <2>4, HeadTyped DEF IInv, RunRejoin, Becomes
      <3> HIDE DEF s
      <3>2. rm.emptySince = "elapsed" => room[cur].emptySince = "elapsed"
        BY <3>1 DEF HandleRejoin, Insert, Room
      <3> QED
        BY <3>1, <3>2
    <2>5. CASE RunReady \/ RunMove
      <3> DEFINE a == Head(batch).a
      <3>1. /\ cur \in RoomIds /\ room[cur] \in Room
            /\ \/ room' = [room EXCEPT ![cur] = HandleReady(room[cur], a)]
               \/ room' = [room EXCEPT ![cur] = HandleMove(room[cur], a)]
        BY <2>5, HeadTyped DEF IInv, RunReady, RunMove, Becomes
      <3> HIDE DEF a
      <3>2. /\ HandleReady(room[cur], a).emptySince = room[cur].emptySince
            /\ HandleMove(room[cur], a).emptySince = room[cur].emptySince
        BY <3>1 DEF HandleReady, TryStartGame, StartGame, Toggle, HandleMove, Room
      <3> QED
        BY <3>1, <3>2
    <2>6. CASE TickEnds
      <3>1. room' = [room EXCEPT ![cur] = TickRest(room[cur])] /\ cur \in RoomIds /\ room[cur] \in Room
        BY <1>2, <2>6 DEF IInv, TypeOK, TickEnds, Becomes
      <3>2. TickRest(room[cur]).emptySince = room[cur].emptySince
        BY <3>1 DEF TickRest, ExpireSlots, Room
      <3> QED
        BY <3>1, <3>2
    <2> QED
      BY <2>1, <2>2, <2>3, <2>4, <2>5, <2>6 DEF TickThread, RunsJob
  <1>4. \A r \in RoomIds : Fresh(r) => Fresh(r)'
    BY <1>1, <1>2, <1>3 DEF Fresh
  <1> QED
    BY <1>1, <1>4, LeaversKept

\* The heartbeat thread frees none of these rooms but an overtaken one, and the idle timeout of a room
\* in use does not run out.
LEMMA OthersLeave ==
    ASSUME IInv, LeaverInv, RemoveIdleRooms \/ (\E r \in RoomIds : Clocks(r)) \/ UNCHANGED vars
    PROVE  LeaverInv'
  <1>1. room \in [RoomIds -> Room]
    BY DEF IInv, TypeOK
  <1>2. CASE RemoveIdleRooms
    <2>1. UNCHANGED closing
      BY <1>2 DEF RemoveIdleRooms, SweepBegins, SweepLoads, SweepErases, sessionVars
    <2>2. \A r \in RoomIds : Fresh(r) => Fresh(r)'
      BY <1>2 DEF IInv, SweepGood, RemoveIdleRooms, SweepBegins, SweepLoads, SweepErases, Fresh
    <2> QED
      BY <2>1, <2>2, LeaversKept
  <1>3. ASSUME NEW q \in RoomIds, Clocks(q) PROVE LeaverInv'
    <2>1. UNCHANGED <<heap, closing, overtaken>> /\ room[q] \in Room
      BY <1>1, <1>3
      DEF Clocks, IdleTimeoutPasses, ReconnectWindowPasses, ResultDelayPasses, Ages, roomVars, sessionVars
    <2>2. CASE IdleTimeoutPasses(q)
      <3>1. \A s \in Sessions : <<s, q>> \notin closing
        BY <2>2 DEF IdleTimeoutPasses, InUse
      <3>2. \A r \in RoomIds : r # q => room'[r] = room[r]
        BY <1>1, <2>2 DEF IdleTimeoutPasses, Ages
      <3> QED
        BY <2>1, <3>1, <3>2 DEF LeaverInv, Fresh, RoomIds
    <2>3. CASE ResultDelayPasses(q) \/ \E a \in AccountIds : ReconnectWindowPasses(q, a)
      <3>1. ASSUME NEW r \in RoomIds PROVE room'[r].emptySince = room[r].emptySince
        <4>1. CASE ResultDelayPasses(q)
          BY <1>1, <2>1, <4>1 DEF ResultDelayPasses, Ages, Room
        <4>2. ASSUME NEW a \in AccountIds, ReconnectWindowPasses(q, a)
              PROVE  room'[r].emptySince = room[r].emptySince
          BY <1>1, <2>1, <4>2 DEF ReconnectWindowPasses, Ages, Room
        <4> QED
          BY <2>3, <4>1, <4>2
      <3> QED
        BY <2>1, <3>1, LeaversKept DEF Fresh
    <2> QED
      BY <1>3, <2>2, <2>3 DEF Clocks
  <1>4. CASE UNCHANGED vars
    BY <1>4, LeaversKept DEF vars, Fresh, roomVars, sessionVars
  <1> QED
    BY <1>2, <1>3, <1>4

\* The pointer HandleDisconnect has read from m_room is good when it pushes the
\* leave job, unless a job has come into the room between the load and the erase
\* of RemoveIdleRooms.
THEOREM LeaverNeverDangles == Spec => []LeaverFindsRoom
  <1>1. Init => LeaverInv
    BY DEF Init, LeaverInv
  <1>2. ASSUME IInv, LeaverInv, [Next]_vars PROVE LeaverInv'
    BY <1>2, ClientsLeave, TickLeaves, OthersLeave DEF Next
  <1>3. LeaverInv => LeaverFindsRoom
    BY DEF LeaverInv, LeaverFindsRoom, Fresh
  <1> QED
    BY <1>1, <1>2, <1>3, Invariance, PTL DEF Spec
=============================================================================
