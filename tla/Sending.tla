------------------------------ MODULE Sending -------------------------------
(***************************************************************************)
(* How packets leave: ServerSession's Send, SendRaw and SendShared, the    *)
(* IOContexts and the pool they come from, GameRoom's BroadcastShared, the *)
(* kernel's send queues and the completions that workers return to the     *)
(* pool.  Any thread may send to any session at any time, while another    *)
(* thread closes it.                                                       *)
(*                                                                         *)
(* PostSend looks at m_disconnected and reads m_sock, and then calls       *)
(* WSASend: in between, Disconnect() may close the socket and a new        *)
(* connection may get the same handle.  The pool's two operations run      *)
(* under its spin lock, and Disconnect() closes and forgets the socket in  *)
(* one step: a sender that reads m_sock in the middle has what it would    *)
(* have read before.                                                       *)
(***************************************************************************)
EXTENDS Messages, FiniteSets

CONSTANTS
    Sessions,     \* connections
    Senders,      \* threads that send: workers, AuthService workers, the tick thread
    Outgoing,     \* messages that are sent to one session
    Casts,        \* messages that BroadcastShared sends to all
    Raws,         \* packets without a message: S_PONG, S_ROOM_LIST, ...
    MaxHandles,   \* bound: socket handles, which are used again
    MaxContexts,  \* bound: IOContexts ever created
    MaxSends      \* bound: sends and broadcasts

ASSUME BoundsType == MaxHandles \in Nat /\ MaxContexts \in Nat /\ MaxSends \in Nat

ASSUME SessionsExist == Sessions # {}

VARIABLES
    pool,         \* ObjectPool::m_pool
    made,         \* IOContexts created so far; they are 1 .. made
    ctxFor,       \* session of each context
    own,          \* buffer of each context
    points,       \* wsaBuf.buf: 0 is the own buffer, otherwise a shared one
    keeps,        \* sharedBuffer: what keeps a shared buffer alive, or 0
    shared,       \* what the shared buffers hold
    at,           \* where each thread is
    holds,        \* the context it is about to post
    handle,       \* m_sock as PostSend has read it
    rest,         \* the members BroadcastShared has still to serve
    buf,          \* its shared buffer, or 0
    opened,       \* sessions that have been accepted
    disconnected, \* m_disconnected
    sock,         \* m_sock; 0 is INVALID_SOCKET
    broken,       \* connections that are broken and accept no more sends
    pending,      \* sends the kernel has accepted, per connection
    done,         \* contexts whose completion waits in the completion port
    aborted,      \* those of them that have failed
    posted,       \* what WSASend has accepted on each connection
    got,          \* what has gone out on it
    sends         \* sends so far

ctxVars    == <<pool, made, ctxFor, own, points, keeps>>
threadVars == <<at, holds, handle, rest, buf>>
sockVars   == <<opened, disconnected, sock>>
kernelVars == <<broken, pending, done, aborted, posted, got>>
vars == <<ctxVars, shared, threadVars, sockVars, kernelVars, sends>>

Contexts == 1 .. MaxContexts
Handles  == 1 .. MaxHandles
Buffers  == 1 .. MaxSends
Garbage  == Packet(0, 0, << >>)      \* what freed memory holds

MAX_BUF_SIZE == 4096

Init ==
    /\ pool = << >> /\ made = 0
    /\ ctxFor = [c \in Contexts |-> CHOOSE s \in Sessions : TRUE]
    /\ own = [c \in Contexts |-> Garbage]
    /\ points = [c \in Contexts |-> 0] /\ keeps = [c \in Contexts |-> 0]
    /\ shared = [b \in Buffers |-> Garbage]
    /\ at = [t \in Senders |-> "idle"] /\ holds = [t \in Senders |-> 0]
    /\ handle = [t \in Senders |-> 0]
    /\ rest = [t \in Senders |-> {}] /\ buf = [t \in Senders |-> 0]
    /\ opened = {} /\ disconnected = {} /\ sock = [s \in Sessions |-> 0]
    /\ broken = {} /\ pending = [s \in Sessions |-> << >>] /\ done = {} /\ aborted = {}
    /\ posted = [s \in Sessions |-> << >>] /\ got = [s \in Sessions |-> << >>]
    /\ sends = 0

----------------------------------------------------------------------------
(* The pool.                                                                *)

\* The oldest context of the pool, or a new one.
Allocate(c) ==
    IF pool = << >>
    THEN /\ c = made + 1 /\ made < MaxContexts
         /\ made' = made + 1 /\ pool' = pool
    ELSE c = Head(pool) /\ pool' = Tail(pool) /\ made' = made

\* The context keeps its session and its shared buffer until it is used again.
Deallocate(c) == pool' = Append(pool, c) /\ UNCHANGED <<made, ctxFor, own, points, keeps>>

----------------------------------------------------------------------------
(* Closing a connection.                                                    *)

\* Mutant of Disconnect: the socket is closed and m_disconnected is not set.
CloseUnflagged(s) ==
    /\ sock' = [sock EXCEPT ![s] = 0]
    /\ UNCHANGED disconnected
    /\ pending' = [pending EXCEPT ![s] = << >>]
    /\ done' = done \cup Range(pending[s])
    /\ aborted' = aborted \cup Range(pending[s])

\* closesocket ends the sends that are under way, as failures.
Disconnect(s) ==
    IF s \in disconnected
    THEN UNCHANGED <<disconnected, sock, pending, done, aborted>>
    ELSE /\ disconnected' = disconnected \cup {s}
         /\ sock' = [sock EXCEPT ![s] = 0]
         /\ pending' = [pending EXCEPT ![s] = << >>]
         /\ done' = done \cup Range(pending[s])
         /\ aborted' = aborted \cup Range(pending[s])

\* A connection is accepted on a handle that is free.
Open(s) ==
    /\ s \notin opened
    /\ \E h \in Handles \ Range(sock) : sock' = [sock EXCEPT ![s] = h]
    /\ opened' = opened \cup {s}
    /\ UNCHANGED <<ctxVars, shared, threadVars, disconnected, kernelVars, sends>>

\* Its receive ends, a packet is refused, or the heartbeat gives it up.
Lose(s) ==
    /\ s \in opened \ disconnected
    /\ Disconnect(s)
    /\ UNCHANGED <<ctxVars, shared, threadVars, opened, broken, posted, got, sends>>

----------------------------------------------------------------------------
(* Sending.  A session that has disconnected, and a packet that does not    *)
(* fit in a context's buffer, are refused without a trace.                  *)

\* Allocate and Reset, then the own buffer is filled and addressed.
Fill(t, s, packet) ==
    /\ at[t] = "idle" /\ sends < MaxSends
    /\ s \in opened \ disconnected
    /\ \E c \in Contexts :
         /\ Allocate(c)
         /\ ctxFor' = [ctxFor EXCEPT ![c] = s]
         /\ own' = [own EXCEPT ![c] = packet]
         /\ points' = [points EXCEPT ![c] = 0] /\ keeps' = [keeps EXCEPT ![c] = 0]
         /\ holds' = [holds EXCEPT ![t] = c]
    /\ at' = [at EXCEPT ![t] = "posting"]
    /\ sends' = sends + 1
    /\ UNCHANGED <<shared, handle, rest, buf, sockVars, kernelVars>>

SendInternal(t, s, m) ==
    /\ HeaderSize + ByteSizeLong(m) <= MAX_BUF_SIZE
    /\ Fill(t, s, MessagePacket(m))

SendRaw(t, s, packet) ==
    /\ HeaderSize + packet.packetSize <= MAX_BUF_SIZE
    /\ Fill(t, s, packet)

\* BroadcastShared: the message is written once, then each member is served.
BroadcastShared(t, m) ==
    /\ at[t] = "idle" /\ sends < MaxSends /\ opened # {}
    /\ sends' = sends + 1
    /\ shared' = [shared EXCEPT ![sends'] = MessagePacket(m)]
    /\ buf' = [buf EXCEPT ![t] = sends']
    /\ rest' = [rest EXCEPT ![t] = opened]
    /\ at' = [at EXCEPT ![t] = "casting"]
    /\ UNCHANGED <<ctxVars, holds, handle, sockVars, kernelVars>>

\* Mutant of SendShared: the buffer is addressed and not kept alive.
SendSharedUnkept(t, s) ==
    /\ at[t] = "casting" /\ s \in rest[t]
    /\ rest' = [rest EXCEPT ![t] = @ \ {s}]
    /\ s \notin disconnected
    /\ \E c \in Contexts :
         /\ Allocate(c)
         /\ ctxFor' = [ctxFor EXCEPT ![c] = s]
         /\ points' = [points EXCEPT ![c] = buf[t]]
         /\ keeps' = [keeps EXCEPT ![c] = 0]
         /\ holds' = [holds EXCEPT ![t] = c]
    /\ at' = [at EXCEPT ![t] = "posting"]
    /\ UNCHANGED <<own, shared, handle, buf, sockVars, kernelVars, sends>>

SendShared(t, s) ==
    /\ at[t] = "casting" /\ s \in rest[t]
    /\ rest' = [rest EXCEPT ![t] = @ \ {s}]
    /\ s \notin disconnected
    /\ \E c \in Contexts :
         /\ Allocate(c)
         /\ ctxFor' = [ctxFor EXCEPT ![c] = s]
         /\ points' = [points EXCEPT ![c] = buf[t]]
         /\ keeps' = [keeps EXCEPT ![c] = buf[t]]
         /\ holds' = [holds EXCEPT ![t] = c]
    /\ at' = [at EXCEPT ![t] = "posting"]
    /\ UNCHANGED <<own, shared, handle, buf, sockVars, kernelVars, sends>>

\* SendShared returns at once.
SkipMember(t, s) ==
    /\ at[t] = "casting" /\ s \in rest[t] \cap disconnected
    /\ rest' = [rest EXCEPT ![t] = @ \ {s}]
    /\ UNCHANGED <<ctxVars, shared, at, holds, handle, buf, sockVars, kernelVars, sends>>

\* The broadcast is over and lets go of the buffer.
EndBroadcast(t) ==
    /\ at[t] = "casting" /\ rest[t] = {}
    /\ at' = [at EXCEPT ![t] = "idle"]
    /\ buf' = [buf EXCEPT ![t] = 0]
    /\ UNCHANGED <<ctxVars, shared, holds, handle, rest, sockVars, kernelVars, sends>>

----------------------------------------------------------------------------
(* PostSend.                                                                *)

\* Back to the loop of BroadcastShared, or to the caller of Send.
Returns(t) ==
    /\ at' = [at EXCEPT ![t] = IF buf[t] = 0 THEN "idle" ELSE "casting"]
    /\ holds' = [holds EXCEPT ![t] = 0]
    /\ handle' = [handle EXCEPT ![t] = 0]

\* SerializeToArray refuses the message SendInternal has a context for (the library may,
\* for all its caller knows): Deallocate, and PostSend is not called.
SerializeFails(t) ==
    /\ at[t] = "posting" /\ buf[t] = 0 /\ own[holds[t]] \notin Raws
    /\ Deallocate(holds[t])
    /\ Returns(t)
    /\ UNCHANGED <<shared, rest, buf, sockVars, kernelVars, sends>>

PostSendGivesUp(t) ==
    /\ at[t] = "posting" /\ ctxFor[holds[t]] \in disconnected
    /\ Deallocate(holds[t])
    /\ Returns(t)
    /\ UNCHANGED <<shared, rest, buf, sockVars, kernelVars, sends>>

PostSendReads(t) ==
    /\ at[t] = "posting" /\ ctxFor[holds[t]] \notin disconnected
    /\ handle' = [handle EXCEPT ![t] = sock[ctxFor[holds[t]]]]
    /\ at' = [at EXCEPT ![t] = "calling"]
    /\ UNCHANGED <<ctxVars, shared, holds, rest, buf, sockVars, kernelVars, sends>>

\* The buffer a context points to, as long as somebody keeps it.
Content(c) ==
    IF points[c] = 0 THEN own[c]
    ELSE IF (\E d \in Contexts : keeps[d] = points[c]) \/ (\E t \in Senders : buf[t] = points[c])
         THEN shared[points[c]]
         ELSE Garbage

Letter(c) == [to |-> ctxFor[c], packet |-> Content(c)]

\* Mutant of WSASendAccepts and WSASendFails: WSA_IO_PENDING is taken for the end of
\* the send, and the context goes back to the pool at once.
FreedWhilePending(t) ==
    /\ at[t] = "calling"
    /\ \E s \in Sessions :
         /\ sock[s] = handle[t] /\ sock[s] # 0 /\ s \notin broken
         /\ pending' = [pending EXCEPT ![s] = Append(@, holds[t])]
         /\ posted' = [posted EXCEPT ![s] = Append(@, Letter(holds[t]))]
    /\ Deallocate(holds[t])
    /\ Returns(t)
    /\ UNCHANGED <<shared, rest, buf, sockVars, broken, done, aborted, got, sends>>

\* The kernel takes the send: WSASend returns 0 or WSA_IO_PENDING.
WSASendAccepts(t) ==
    /\ at[t] = "calling"
    /\ \E s \in Sessions :
         /\ sock[s] = handle[t] /\ sock[s] # 0 /\ s \notin broken
         /\ pending' = [pending EXCEPT ![s] = Append(@, holds[t])]
         /\ posted' = [posted EXCEPT ![s] = Append(@, Letter(holds[t]))]
    /\ Returns(t)
    /\ UNCHANGED <<ctxVars, shared, rest, buf, sockVars, broken, done, aborted, got, sends>>

\* It fails at once: Deallocate, and Disconnect() of the session.
WSASendFails(t) ==
    /\ at[t] = "calling"
    /\ Deallocate(holds[t])
    /\ Disconnect(ctxFor[holds[t]])
    /\ Returns(t)
    /\ UNCHANGED <<shared, rest, buf, opened, broken, posted, got, sends>>

----------------------------------------------------------------------------
(* The kernel and WorkerThread.                                             *)

\* The oldest send of a connection goes out, as its buffer is now.
Transmit(s) ==
    /\ pending[s] # << >>
    /\ got' = [got EXCEPT ![s] = Append(@, Letter(Head(pending[s])))]
    /\ done' = done \cup {Head(pending[s])}
    /\ pending' = [pending EXCEPT ![s] = Tail(@)]
    /\ UNCHANGED <<ctxVars, shared, threadVars, sockVars, broken, aborted, posted, sends>>

\* The connection breaks: what is pending on it fails.
Break(s) ==
    /\ pending[s] # << >>
    /\ broken' = broken \cup {s}
    /\ pending' = [pending EXCEPT ![s] = << >>]
    /\ done' = done \cup Range(pending[s])
    /\ aborted' = aborted \cup Range(pending[s])
    /\ UNCHANGED <<ctxVars, shared, threadVars, sockVars, posted, got, sends>>

\* A worker takes a completion; HandleDisconnect if it has failed.
SendCompletes(c) ==
    /\ c \in done \ aborted
    /\ Deallocate(c)
    /\ done' = done \ {c}
    /\ UNCHANGED <<shared, threadVars, sockVars, broken, pending, aborted, posted, got, sends>>

SendAborted(c) ==
    /\ c \in aborted
    /\ Deallocate(c)
    /\ LET s == ctxFor[c]
           new == IF s \in disconnected THEN {} ELSE Range(pending[s])
       IN  /\ disconnected' = disconnected \cup {s}
           /\ sock' = [sock EXCEPT ![s] = 0]
           /\ pending' = IF s \in disconnected THEN pending ELSE [pending EXCEPT ![s] = << >>]
           /\ done' = (done \ {c}) \cup new
           /\ aborted' = (aborted \ {c}) \cup new
    /\ UNCHANGED <<shared, threadVars, opened, broken, posted, got, sends>>

----------------------------------------------------------------------------
PostSend(t) == PostSendGivesUp(t) \/ PostSendReads(t) \/ WSASendAccepts(t) \/ WSASendFails(t)

Broadcasts(t) == EndBroadcast(t) \/ \E s \in Sessions : SendShared(t, s) \/ SkipMember(t, s)

Completes(c) == SendCompletes(c) \/ SendAborted(c)

Next ==
    \/ \E s \in Sessions : Open(s) \/ Lose(s) \/ Transmit(s) \/ Break(s)
    \/ \E t \in Senders :
         \/ \E s \in Sessions, m \in Outgoing : SendInternal(t, s, m)
         \/ \E s \in Sessions, p \in Raws : SendRaw(t, s, p)
         \/ \E m \in Casts : BroadcastShared(t, m)
         \/ Broadcasts(t) \/ SerializeFails(t) \/ PostSend(t)
    \/ \E c \in Contexts : Completes(c)

Spec == Init /\ [][Next]_vars

----------------------------------------------------------------------------
Packets == {Garbage} \cup Raws \cup {MessagePacket(m) : m \in Outgoing \cup Casts}

Letters == [to : Sessions, packet : Packets]

\* Every variable has its type: the pool holds contexts that exist and no null
\* pointer, a context points to its own buffer or to one it keeps alive, and a
\* failed send is a completed one.
TypeOK ==
    /\ made \in 0 .. MaxContexts /\ sends \in 0 .. MaxSends
    /\ pool \in Seq(1 .. made) /\ pending \in [Sessions -> Seq(1 .. made)]
    /\ done \subseteq 1 .. made /\ aborted \subseteq done
    /\ ctxFor \in [Contexts -> Sessions] /\ own \in [Contexts -> Packets]
    /\ points \in [Contexts -> 0 .. sends] /\ keeps = points
    /\ shared \in [Buffers -> Packets]
    /\ at \in [Senders -> {"idle", "casting", "posting", "calling"}]
    /\ holds \in [Senders -> 0 .. made] /\ handle \in [Senders -> 0 .. MaxHandles]
    /\ rest \in [Senders -> SUBSET Sessions] /\ buf \in [Senders -> 0 .. sends]
    /\ broken \subseteq Sessions /\ opened \subseteq Sessions /\ disconnected \subseteq opened
    /\ sock \in [Sessions -> 0 .. MaxHandles]
    /\ posted \in [Sessions -> Seq(Letters)] /\ got \in [Sessions -> Seq(Letters)]

\* The places where a context can be: in the pool, with a thread that is about
\* to post it, in the send queue of a connection, in the completion port.
InPool(c)   == {<<"pool", i>> : i \in {i \in DOMAIN pool : pool[i] = c}}
InThread(c) == {<<"thread", t>> : t \in {t \in Senders : holds[t] = c}}
InQueue(c)  == UNION {{<<s, i>> : i \in {i \in DOMAIN pending[s] : pending[s][i] = c}} : s \in Sessions}
InPort(c)   == IF c \in done THEN {<<"done", 0>>} ELSE {}

Places(c) == InPool(c) \cup InThread(c) \cup InQueue(c) \cup InPort(c)

\* Every IOContext that was ever created is in exactly one place: PostSend, the
\* kernel and WorkerThread neither lose one nor return one twice to
\* g_ioContextPool, whether the send is refused, fails, is aborted or succeeds.
OnePlace == \A c \in 1 .. made : Cardinality(Places(c)) = 1

\* What goes out on a connection is what was handed to WSASend on it, in that
\* order: no buffer is reused or freed while its send is pending, the shared one
\* of BroadcastShared included, which may outlive the broadcast.
Intact ==
    \A s \in Sessions :
        IsPrefix(got[s] \o [i \in DOMAIN pending[s] |-> Letter(pending[s][i])], posted[s])

Stream(s) == INSTANCE PacketStream WITH
    Items <- Letters, sent <- posted[s], arrived <- got[s]

\* Every step of every thread and of the kernel is, for each connection, a step that
\* PacketStream allows (a packet handed to WSASend, the next one going out) or none:
\* nothing is sent twice, skipped, overtaken or changed on the way.
StreamStep(s) == Stream(s)!Next \/ UNCHANGED <<posted[s], got[s]>>

StreamKept ==
    /\ \A s \in Sessions : Stream(s)!Init
    /\ [][\A s \in Sessions : StreamStep(s)]_vars

\* A packet may go out on the connection of another session, one that got the
\* socket handle between PostSend's check and WSASend; but only one that was for
\* a session that has disconnected.
StrayOnlyAfterClose ==
    \A s \in Sessions : \A i \in DOMAIN posted[s] :
        posted[s][i].to \in {s} \cup disconnected

\* A client reads from every packet that has gone out the message that was sent:
\* the header's size is the size of what follows it, ParseFromArray succeeds, and
\* its result is the message Send, or BroadcastShared, was called with.
DecodesAsSent ==
    \A s \in Sessions : \A i \in DOMAIN got[s] :
        LET p == got[s][i].packet IN
        \/ p \in Raws
        \/ /\ p.packetSize = WireSize(p.payload)
           /\ \E m \in Outgoing \cup Casts :
                PacketID[m.of] = p.packetId /\ Parse(m.of, p.payload) = [ok |-> TRUE, m |-> m]

\* The codec reads back each message that is sent, and announces its size right.
CodecRight ==
    \A m \in Outgoing \cup Casts :
        /\ ByteSizeLong(m) \in Nat /\ ByteSizeLong(m) = WireSize(Serialize(m))
        /\ Parse(m.of, Serialize(m)) = [ok |-> TRUE, m |-> m]

\* BroadcastShared does not check the size: what it is given fits in the header.
CastsFit == \A m \in Casts : ByteSizeLong(m) < 65536
=============================================================================
