------------------------------ MODULE GameRoom ------------------------------
(***************************************************************************)
(* The room object of Game/GameRoom.h as a value: the data members of the  *)
(* class, and one operator for each member function that the jobs of the   *)
(* room's queue and Tick() run on it.  Who runs them, and when, is         *)
(* RoomServer's business.                                                  *)
(*                                                                         *)
(* A time stamp is kept as the answer to the only question the code asks   *)
(* of it: "unset" (0, or no entry), "recent" (its timeout has not passed)  *)
(* or "elapsed" (it has).  RoomServer's aging actions turn "recent" into   *)
(* "elapsed".                                                              *)
(***************************************************************************)
EXTENDS Integers, FiniteSets

CONSTANTS
    Sessions,    \* connected clients (std::shared_ptr<ServerSession>)
    Accounts,    \* account ids that session-server can confirm
    NoAccount,   \* the empty m_accountId of a session that has not logged in
    MaxPlayers   \* max_room_players of server.cfg

ASSUME SessionsFinite == IsFiniteSet(Sessions)
ASSUME NoAccountFresh == NoAccount \notin Accounts
ASSUME MaxPlayersPositive == MaxPlayers \in Nat \ {0}

AccountIds == Accounts \cup {NoAccount}
RoomState  == {"WAITING", "IN_GAME", "FINISHED"}
Stamp      == {"unset", "recent", "elapsed"}

Room == [state      : RoomState,                \* m_state
         members    : SUBSET Sessions,          \* m_members
         ready      : SUBSET AccountIds,        \* m_readyPlayers
         moves      : SUBSET AccountIds,        \* keys of m_pendingMoves
         slots      : [AccountIds -> Stamp],    \* m_pendingReconnects
         emptySince : Stamp,                    \* m_emptySinceMs
         finishedAt : Stamp]                    \* m_finishedAt

\* A room as its constructor leaves it.
NewRoom == [state |-> "WAITING", members |-> {}, ready |-> {}, moves |-> {},
            slots |-> [a \in AccountIds |-> "unset"],
            emptySince |-> "unset", finishedAt |-> "unset"]

----------------------------------------------------------------------------
(* The handlers.  Each returns the room after the call.                     *)

\* The two early returns of HandleEnter answer with a refusal.
Admits(rm) == /\ rm.state # "IN_GAME"
              /\ Cardinality(rm.members) < MaxPlayers

\* Mutant of Insert: the empty-since stamp is not cleared.
InsertKeepsMark(rm, s) == [rm EXCEPT !.members = @ \cup {s}]

\* m_members.insert and m_emptySinceMs.store(0), common to Enter and Rejoin.
Insert(rm, s) == [rm EXCEPT !.members = @ \cup {s}, !.emptySince = "unset"]

\* Mutant of HandleEnter: the room is not checked for being full.
EnterOverfull(rm, s) == IF rm.state # "IN_GAME" THEN Insert(rm, s) ELSE rm

HandleEnter(rm, s) == IF Admits(rm) THEN Insert(rm, s) ELSE rm

\* Mutant of HandleRejoin: the player is put back into a running game.
RejoinResumesGame(rm, s, a) ==
    [Insert(rm, s) EXCEPT !.slots[a] = "unset", !.state = "IN_GAME"]

\* No state check and no capacity check: the slot is the ticket.  s is the
\* session, a its account id at the time the job runs.
HandleRejoin(rm, s, a) == [Insert(rm, s) EXCEPT !.slots[a] = "unset"]

HandleGameEnd(rm) == [rm EXCEPT !.state = "FINISHED", !.finishedAt = "recent"]

\* HandleLeave up to the broadcast of S_ROOM_USER_LEFT.
Erase(rm, s, a) == [rm EXCEPT !.members = @ \ {s}, !.moves = @ \ {a}, !.ready = @ \ {a}]

SaveSlot(rm, a) == [rm EXCEPT !.slots[a] = "recent"]

\* Mutant of MarkIfEmpty: the room that becomes empty is not stamped.
NeverMarks(rm) == rm

\* m_emptySinceMs.store(NowMs()) if nobody is left.
MarkIfEmpty(rm) == IF rm.members = {} THEN [rm EXCEPT !.emptySince = "recent"] ELSE rm

\* Mutant of LeaveMember: leaving a running game does not end it.
LeaveKeepsPlaying(rm, s, a) ==
    LET gone == Erase(rm, s, a)
    IN  IF rm.state # "IN_GAME" THEN MarkIfEmpty(gone)
        ELSE MarkIfEmpty(SaveSlot(gone, a))

\* IN_GAME: the leaver gets a reconnect slot and, if somebody is left, the
\* game ends and the function returns before the empty check.
LeaveMember(rm, s, a) ==
    LET gone == Erase(rm, s, a)
    IN  IF rm.state # "IN_GAME"    THEN MarkIfEmpty(gone)
        ELSE IF gone.members # {}  THEN HandleGameEnd(SaveSlot(gone, a))
        ELSE MarkIfEmpty(SaveSlot(gone, a))

\* erase() returning 0 is the early return.
HandleLeave(rm, s, a) == IF s \in rm.members THEN LeaveMember(rm, s, a) ELSE rm

HandleMove(rm, a) ==
    IF rm.state = "IN_GAME" THEN [rm EXCEPT !.moves = @ \cup {a}] ELSE rm

Toggle(rm, a) ==
    [rm EXCEPT !.ready = IF a \in @ THEN @ \ {a} ELSE @ \cup {a}]

\* The two early returns of TryStartGame: sizes are compared, not contents.
CanStart(rm) == /\ Cardinality(rm.members) >= 2
                /\ Cardinality(rm.ready) >= Cardinality(rm.members)

\* Mutant of StartGame: m_readyPlayers.clear() is missing.
StartKeepsReady(rm) == [rm EXCEPT !.state = "IN_GAME"]

StartGame(rm) == [rm EXCEPT !.state = "IN_GAME", !.ready = {}]

TryStartGame(rm) == IF CanStart(rm) THEN StartGame(rm) ELSE rm

HandleReady(rm, a) ==
    IF rm.state = "WAITING" THEN TryStartGame(Toggle(rm, a)) ELSE rm

----------------------------------------------------------------------------
(* Tick() after Flush().                                                    *)

ExpireSlots(rm) ==
    [rm EXCEPT !.slots = [a \in AccountIds |->
                             IF rm.slots[a] = "elapsed" THEN "unset" ELSE rm.slots[a]]]

\* Mutant of TickRest: nothing leads out of FINISHED.
NeverResets(rm) ==
    LET kept == ExpireSlots(rm)
    IN  IF kept.state # "FINISHED" THEN [kept EXCEPT !.moves = {}] ELSE kept

\* Mutant of TickRest: every tick stamps an empty room anew.
TickStampsAgain(rm) == MarkIfEmpty(ExpireSlots(rm))

\* FINISHED returns before BroadcastPendingMoves, so moves wait for the reset.
TickRest(rm) ==
    LET kept == ExpireSlots(rm)
    IN  IF kept.state # "FINISHED"          THEN [kept EXCEPT !.moves = {}]
        ELSE IF kept.finishedAt = "elapsed" THEN [kept EXCEPT !.state = "WAITING"]
        ELSE kept

----------------------------------------------------------------------------
(* Who is sent something by each call (a failed send disconnects, see       *)
(* RoomServer).                                                             *)

EnterRecipients(rm, s)  == IF Admits(rm) THEN rm.members \cup {s} ELSE {s}
LeaveRecipients(rm, s)  == IF s \in rm.members THEN rm.members \ {s} ELSE {}
RejoinRecipients(rm, s) == rm.members \cup {s}
ReadyRecipients(rm)     == IF rm.state = "WAITING" THEN rm.members ELSE {}
TickRecipients(rm) ==
    IF \/ rm.state = "FINISHED" /\ rm.finishedAt = "elapsed"
       \/ rm.state # "FINISHED" /\ rm.moves # {}
    THEN rm.members ELSE {}
=============================================================================
