--------------------------- MODULE GameRoomProofs ---------------------------
(***************************************************************************)
(* What each member function of GameRoom does to a room, for every room    *)
(* value: it keeps the type, keeps the room's own invariant, and changes   *)
(* the membership of no session but the one it is about.                   *)
(***************************************************************************)
EXTENDS GameRoom, FiniteSetTheorems, TLAPS

\* The invariant of one room object.
RoomGood(rm) ==
    /\ rm.state = "IN_GAME" => Cardinality(rm.members) >= 2
    /\ rm.state # "WAITING" => rm.ready = {}
    /\ rm.emptySince # "unset" => rm.members = {}

\* The members other than s are the same in both rooms.
SameOthers(rm, rm2, s) == \A t \in Sessions \ {s} : t \in rm2.members <=> t \in rm.members

\* Member sets are finite: every one is a set of sessions.
LEMMA MembersFinite ==
    ASSUME NEW rm \in Room
    PROVE  IsFiniteSet(rm.members) /\ Cardinality(rm.members) \in Nat
  <1>1. rm.members \subseteq Sessions
    BY DEF Room
  <1>2. IsFiniteSet(rm.members)
    BY <1>1, SessionsFinite, FS_Subset
  <1> QED
    BY <1>2, FS_CardinalityType

\* Inserting a member never makes the set smaller.
LEMMA InsertCardinality ==
    ASSUME NEW rm \in Room, NEW s \in Sessions
    PROVE  Cardinality(rm.members \cup {s}) >= Cardinality(rm.members)
  <1>1. IsFiniteSet(rm.members) /\ Cardinality(rm.members) \in Nat
    BY MembersFinite
  <1>2. CASE s \in rm.members
    <2>1. rm.members \cup {s} = rm.members
      BY <1>2
    <2> QED
      BY <1>1, <2>1
  <1>3. CASE s \notin rm.members
    <2>1. Cardinality(rm.members \cup {s}) = Cardinality(rm.members) + 1
      BY <1>1, <1>3, FS_AddElement
    <2> QED
      BY <1>1, <2>1
  <1> QED
    BY <1>2, <1>3

\* Of two or more members, at least one is left when one goes.
LEMMA SomebodyIsLeft ==
    ASSUME NEW rm \in Room, NEW s \in Sessions, Cardinality(rm.members) >= 2
    PROVE  rm.members \ {s} # {}
  <1> SUFFICES ASSUME rm.members \ {s} = {} PROVE FALSE
    OBVIOUS
  <1>1. rm.members = {} \/ rm.members = {s}
    OBVIOUS
  <1>2. Cardinality({}) = 0 /\ Cardinality({s}) = 1
    BY FS_EmptySet, FS_Singleton
  <1> QED
    BY <1>1, <1>2

\* A new room is well formed.
LEMMA NewRoomGood == NewRoom \in Room /\ RoomGood(NewRoom)
  BY DEF NewRoom, Room, RoomState, Stamp, RoomGood

\* HandleEnter: refused entries change nothing; admitted ones add the session.
LEMMA EnterGood ==
    ASSUME NEW rm \in Room, NEW s \in Sessions, RoomGood(rm)
    PROVE  LET rm2 == HandleEnter(rm, s)
           IN  /\ rm2 \in Room /\ RoomGood(rm2)
               /\ SameOthers(rm, rm2, s)
               /\ rm.members \subseteq rm2.members
               /\ Admits(rm) => s \in rm2.members
  BY InsertCardinality DEF HandleEnter, Insert, Admits, Room, Stamp, RoomGood, SameOthers

\* HandleRejoin adds the session whatever the state of the room.
LEMMA RejoinGood ==
    ASSUME NEW rm \in Room, NEW s \in Sessions, NEW a \in AccountIds, RoomGood(rm)
    PROVE  LET rm2 == HandleRejoin(rm, s, a)
           IN  /\ rm2 \in Room /\ RoomGood(rm2)
               /\ SameOthers(rm, rm2, s)
               /\ rm2.members = rm.members \cup {s}
               /\ rm2.state = rm.state
  <1>1. Cardinality(rm.members \cup {s}) >= Cardinality(rm.members)
    BY InsertCardinality
  <1>2. Cardinality(rm.members) \in Nat
    BY MembersFinite
  <1>3. HandleRejoin(rm, s, a) \in Room
    BY DEF HandleRejoin, Insert, Room, Stamp
  <1>4. LET rm2 == HandleRejoin(rm, s, a)
        IN  /\ rm2.members = rm.members \cup {s} /\ rm2.emptySince = "unset"
            /\ rm2.state = rm.state /\ rm2.ready = rm.ready
    BY DEF HandleRejoin, Insert, Room
  <1>5. Cardinality(rm.members \cup {s}) \in Nat
    BY <1>3, <1>4, MembersFinite
  <1>6. RoomGood(HandleRejoin(rm, s, a))
    BY <1>1, <1>2, <1>4, <1>5 DEF RoomGood
  <1> QED
    BY <1>3, <1>4, <1>6 DEF SameOthers

\* HandleLeave removes the session, ends a running game while somebody is
\* left, and stamps a room that became empty.
LEMMA LeaveGood ==
    ASSUME NEW rm \in Room, NEW s \in Sessions, NEW a \in AccountIds, RoomGood(rm)
    PROVE  LET rm2 == HandleLeave(rm, s, a)
           IN  /\ rm2 \in Room /\ RoomGood(rm2)
               /\ SameOthers(rm, rm2, s)
               /\ rm2.members = rm.members \ {s}
               /\ s \in rm.members /\ rm.state = "IN_GAME"
                    => rm2.state = "FINISHED" /\ rm2.members # {}
               /\ s \notin rm.members \/ rm.state # "IN_GAME" => rm2.state = rm.state
  <1>1. CASE s \notin rm.members
    BY <1>1 DEF HandleLeave, SameOthers, Room
  <1>2. CASE s \in rm.members /\ rm.state # "IN_GAME"
    <2>1. HandleLeave(rm, s, a) = MarkIfEmpty(Erase(rm, s, a))
      BY <1>2 DEF HandleLeave, LeaveMember
    <2>2. Erase(rm, s, a) \in Room
      BY DEF Erase, Room
    <2>3. HandleLeave(rm, s, a) \in Room
      BY <2>1, <2>2 DEF MarkIfEmpty, Room, Stamp
    <2>4. LET rm2 == HandleLeave(rm, s, a)
          IN  /\ rm2.members = rm.members \ {s}
              /\ rm2.state = rm.state
              /\ rm2.ready = rm.ready \ {a}
              /\ rm2.emptySince # "unset" => rm2.members = {}
      <3>1. Erase(rm, s, a).emptySince = "unset"
        BY <1>2 DEF Erase, Room, RoomGood
      <3> QED
        BY <2>1, <3>1 DEF MarkIfEmpty, Erase, Room
    <2> QED
      BY <1>2, <2>3, <2>4 DEF RoomGood, SameOthers
  <1>3. CASE s \in rm.members /\ rm.state = "IN_GAME"
    <2>1. rm.members \ {s} # {}
      BY <1>3, SomebodyIsLeft DEF RoomGood
    <2>2. HandleLeave(rm, s, a) = HandleGameEnd(SaveSlot(Erase(rm, s, a), a))
      BY <1>3, <2>1 DEF HandleLeave, LeaveMember, Erase, Room
    <2>3. rm.ready = {} /\ rm.emptySince = "unset"
      BY <1>3 DEF RoomGood, Room
    <2>4. HandleLeave(rm, s, a) \in Room
      <3>1. Erase(rm, s, a) \in Room
        BY DEF Erase, Room
      <3>2. SaveSlot(Erase(rm, s, a), a) \in Room
        BY <3>1 DEF SaveSlot, Room, Stamp
      <3> QED
        BY <2>2, <3>2 DEF HandleGameEnd, Room, RoomState, Stamp
    <2>5. LET rm2 == HandleLeave(rm, s, a)
          IN  /\ rm2.members = rm.members \ {s}
              /\ rm2.state = "FINISHED"
              /\ rm2.ready = {}
              /\ rm2.emptySince = "unset"
      BY <2>2, <2>3 DEF HandleGameEnd, SaveSlot, Erase, Room
    <2> QED
      BY <1>3, <2>1, <2>4, <2>5 DEF RoomGood, SameOthers
  <1> QED
    BY <1>1, <1>2, <1>3

\* HandleMove touches nothing but the pending moves.
LEMMA MoveGood ==
    ASSUME NEW rm \in Room, NEW a \in AccountIds, RoomGood(rm)
    PROVE  LET rm2 == HandleMove(rm, a)
           IN  /\ rm2 \in Room /\ RoomGood(rm2)
               /\ rm2.members = rm.members /\ rm2.state = rm.state
  BY DEF HandleMove, Room, RoomGood

\* HandleReady starts a game only from WAITING and only with two players.
LEMMA ReadyGood ==
    ASSUME NEW rm \in Room, NEW a \in AccountIds, RoomGood(rm)
    PROVE  LET rm2 == HandleReady(rm, a)
           IN  /\ rm2 \in Room /\ RoomGood(rm2)
               /\ rm2.members = rm.members
               /\ \/ rm2.state = rm.state
                  \/ /\ rm.state = "WAITING" /\ rm2.state = "IN_GAME"
                     /\ Cardinality(rm.members) >= 2
  <1>1. CASE rm.state # "WAITING"
    BY <1>1 DEF HandleReady
  <1>2. CASE rm.state = "WAITING"
    <2> DEFINE tg == Toggle(rm, a)
    <2>1. /\ tg \in Room
          /\ tg.state = "WAITING" /\ tg.members = rm.members /\ tg.emptySince = rm.emptySince
      BY <1>2 DEF Toggle, Room
    <2>2. HandleReady(rm, a) = TryStartGame(tg)
      BY <1>2 DEF HandleReady
    <2> HIDE DEF tg
    <2>3. CASE ~CanStart(tg)
      BY <1>2, <2>1, <2>2, <2>3 DEF TryStartGame, RoomGood
    <2>4. CASE CanStart(tg)
      <3>1. HandleReady(rm, a) = [tg EXCEPT !.state = "IN_GAME", !.ready = {}]
        BY <2>2, <2>4 DEF TryStartGame, StartGame
      <3>2. Cardinality(rm.members) >= 2
        BY <2>1, <2>4 DEF CanStart
      <3> QED
        BY <1>2, <2>1, <3>1, <3>2 DEF Room, RoomState, RoomGood
    <2> QED
      BY <2>3, <2>4
  <1> QED
    BY <1>1, <1>2

\* The rest of Tick() changes no membership, and the state only by the reset.
LEMMA TickGood ==
    ASSUME NEW rm \in Room, RoomGood(rm)
    PROVE  LET rm2 == TickRest(rm)
           IN  /\ rm2 \in Room /\ RoomGood(rm2)
               /\ rm2.members = rm.members
               /\ \/ rm2.state = rm.state
                  \/ rm.state = "FINISHED" /\ rm2.state = "WAITING"
  <1> DEFINE kept == ExpireSlots(rm)
  <1>1. /\ kept \in Room
        /\ kept.state = rm.state /\ kept.members = rm.members
        /\ kept.ready = rm.ready /\ kept.emptySince = rm.emptySince
        /\ kept.finishedAt = rm.finishedAt
    BY DEF ExpireSlots, Room, Stamp
  <1>2. TickRest(rm) = IF kept.state # "FINISHED" THEN [kept EXCEPT !.moves = {}]
                       ELSE IF kept.finishedAt = "elapsed" THEN [kept EXCEPT !.state = "WAITING"]
                       ELSE kept
    BY DEF TickRest
  <1> HIDE DEF kept
  <1> QED
    BY <1>1, <1>2 DEF Room, RoomState, RoomGood
=============================================================================
