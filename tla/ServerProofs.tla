---------------------------- MODULE ServerProofs ----------------------------
(***************************************************************************)
(* What holds of Server for every number of clients, users, rooms and      *)
(* slots, and that every one of its rooms is a GameRoom.                   *)
(***************************************************************************)
EXTENDS Server, RoomLemmas

-----------------------------------------------------------------------------
\* Only a session that is logged in has a user.
ClientsOK ==
  /\ clients \in [Clients -> [user : Users \cup {NoUser}, state : ClientStates]]
  /\ \A c \in Clients :
       clients[c].user = NoUser <=> clients[c].state \in {"CLOSED", "LOGGED_OUT"}

UsedSlots == {s \in Slots : slots[s] # EmptySlot}

RoomsOK ==
  /\ rooms \in [RoomIds -> RoomType]
  /\ \A k \in RoomIds : Good(rooms[k]) /\ Sound(rooms[k])

TableOK ==
  /\ slots \in [Slots -> RoomIds \cup {EmptySlot}]
  /\ SlotsHoldLiveRooms
  /\ RoomCountExact

(***************************************************************************)
(* The inductive invariant.  The handlers trust each other: CREATE_ROOM    *)
(* gives away a slot because the leave code has cleared it, the leave code *)
(* finds the room of a user because a session in a room has a user, and    *)
(* each keeps the rooms themselves in order.                               *)
(***************************************************************************)
IInv == ClientsOK /\ RoomsOK /\ TableOK

-----------------------------------------------------------------------------
\* The id 0 is no room: a slot with it is empty.
LEMMA EmptyIsNoRoom == EmptySlot \notin RoomIds /\ RoomIds \subseteq Nat /\ Slots \subseteq Nat
  BY ServerAssumption DEF EmptySlot, RoomIds, Slots

\* There are finitely many slots, so the slots in use can be counted.
LEMMA UsedSlotsFinite ==
  IsFiniteSet(UsedSlots) /\ Cardinality(UsedSlots) \in 0..MaxRooms
<1>1. IsFiniteSet(Slots) /\ Cardinality(Slots) = MaxRooms
  BY ServerAssumption, FS_Interval DEF Slots
<1>2. UsedSlots \subseteq Slots
  BY DEF UsedSlots
<1>3. /\ IsFiniteSet(UsedSlots) /\ Cardinality(UsedSlots) <= Cardinality(Slots)
      /\ Cardinality(UsedSlots) \in Nat
  BY <1>1, <1>2, FS_Subset, FS_CardinalityType
<1> QED BY <1>1, <1>3, ServerAssumption

\* A user who is seated in some room is seated in the room the search finds.
LEMMA RoomOfUserFound ==
  ASSUME TableOK, RoomsOK, NEW u, SlotsSeating(u) # {}
  PROVE  /\ RoomOfUser(u) \in RoomIds /\ Found(RoomOfUser(u))
         /\ Live(rooms[RoomOfUser(u)]) /\ HasPlayer(rooms[RoomOfUser(u)], u)
<1>1. SlotsSeating(u) \subseteq Nat
  BY EmptyIsNoRoom DEF SlotsSeating
<1>2. Min(SlotsSeating(u)) \in SlotsSeating(u)
  BY <1>1, NatMin
<1>3. PICK s \in Slots : /\ s = Min(SlotsSeating(u)) /\ slots[s] # EmptySlot
                         /\ HasPlayer(rooms[slots[s]], u)
  BY <1>2 DEF SlotsSeating
<1>4. RoomOfUser(u) = slots[s] /\ slots[s] \in RoomIds /\ Found(slots[s])
  BY <1>3 DEF RoomOfUser, TableOK, Found
<1> QED BY <1>3, <1>4 DEF TableOK, SlotsHoldLiveRooms

-----------------------------------------------------------------------------
\* Rooms that change without appearing or disappearing leave the table as it is.
LEMMA RoomsMove ==
  ASSUME TableOK,
         \A k \in RoomIds : Live(rooms'[k]) <=> Live(rooms[k]),
         slots' = slots, room_count' = room_count
  PROVE  TableOK'
  BY DEF TableOK, SlotsHoldLiveRooms, RoomCountExact, Found

\* One room changes, by an operation of Game that keeps it alive.
LEMMA RoomChanges ==
  ASSUME TableOK, RoomsOK, NEW k \in RoomIds, Live(rooms[k]),
         NEW r, Good(r), Sound(r), Live(r),
         rooms' = [rooms EXCEPT ![k] = r], slots' = slots, room_count' = room_count
  PROVE  TableOK' /\ RoomsOK'
<1>1. r \in RoomType
  BY DEF Good, Base, SeatsTyped
<1>2. \A j \in RoomIds : rooms'[j] = IF j = k THEN r ELSE rooms[j]
  BY DEF RoomsOK
<1>3. RoomsOK'
  BY <1>1, <1>2 DEF RoomsOK
<1> QED BY <1>2, <1>3, RoomsMove

(***************************************************************************)
(* The leave code: a room that is destroyed gives its slot back and is     *)
(* counted out, one that goes on keeps both.                               *)
(***************************************************************************)
LEMMA VacateKeeps ==
  ASSUME TableOK, RoomsOK, NEW k \in RoomIds, Live(rooms[k]),
         NEW u \in Users, HasPlayer(rooms[k], u), Vacate(k, u)
  PROVE  TableOK' /\ RoomsOK'
<1> DEFINE r == LeaveRoom(rooms[k], u)
<1>1. Good(r) /\ Sound(r) /\ r \in RoomType
  BY LeaveRoomGood, LeaveRoomSound DEF RoomsOK, Good, Base, SeatsTyped
<1>2. /\ rooms' = [rooms EXCEPT ![k] = r]
      /\ slots' = [s \in Slots |->
                     IF slots[s] = k /\ ~Live(r) THEN EmptySlot ELSE slots[s]]
      /\ room_count' = IF Live(r) THEN room_count ELSE room_count - 1
  BY DEF Vacate
<1> HIDE DEF r
<1>3. CASE Live(r)
  <2>1. slots' = slots /\ room_count' = room_count
    BY <1>2, <1>3 DEF TableOK
  <2> QED BY <1>1, <1>2, <1>3, <2>1, RoomChanges
<1>4. CASE ~Live(r)
  <2>1. \A j \in RoomIds : rooms'[j] = IF j = k THEN r ELSE rooms[j]
    BY <1>2 DEF RoomsOK
  <2>2. RoomsOK'
    BY <1>1, <1>2, <2>1 DEF RoomsOK
  <2>3. PICK t \in Slots : slots[t] = k
    BY DEF TableOK, SlotsHoldLiveRooms, Found
  <2>4. \A s \in Slots : slots[s] = k => s = t
    BY <2>3, EmptyIsNoRoom DEF TableOK, SlotsHoldLiveRooms
  <2>5. \A s \in Slots : slots'[s] = IF s = t THEN EmptySlot ELSE slots[s]
    BY <1>2, <1>4, <2>3, <2>4
  <2>6. slots' \in [Slots -> RoomIds \cup {EmptySlot}]
    BY <1>2 DEF TableOK
  <2>7. SlotsHoldLiveRooms'
    <3>1. ASSUME NEW j \in RoomIds  PROVE Live(rooms'[j]) <=> \E s \in Slots : slots'[s] = j
      <4>1. CASE j = k
        BY <1>4, <2>1, <2>4, <2>5, <4>1, EmptyIsNoRoom
      <4>2. CASE j # k
        <5>1. Live(rooms[j]) <=> \E s \in Slots : slots[s] = j
          BY DEF TableOK, SlotsHoldLiveRooms, Found
        <5>2. \A s \in Slots : slots'[s] = j <=> slots[s] = j
          BY <2>3, <2>5, <4>2, EmptyIsNoRoom
        <5> QED BY <2>1, <4>2, <5>1, <5>2
      <4> QED BY <4>1, <4>2
    <3>2. ASSUME NEW s \in Slots, NEW q \in Slots, slots'[s] = slots'[q],
                 slots'[s] # EmptySlot
          PROVE  s = q
      BY <2>5, <3>2 DEF TableOK, SlotsHoldLiveRooms
    <3> QED BY <3>1, <3>2 DEF SlotsHoldLiveRooms, Found
  <2>8. RoomCountExact'
    <3>1. UsedSlots' = UsedSlots \ {t} /\ t \in UsedSlots
      BY <2>3, <2>5, EmptyIsNoRoom DEF UsedSlots
    <3>2. Cardinality(UsedSlots \ {t}) = Cardinality(UsedSlots) - 1
      BY <3>1, UsedSlotsFinite, FS_RemoveElement
    <3>3. room_count = Cardinality(UsedSlots)
      BY DEF TableOK, RoomCountExact, UsedSlots
    <3>4. room_count' = Cardinality(UsedSlots')
      BY <1>2, <1>4, <3>1, <3>2, <3>3
    <3> QED BY <3>4 DEF RoomCountExact, UsedSlots
  <2> QED BY <2>2, <2>6, <2>7, <2>8 DEF TableOK
<1> QED BY <1>3, <1>4

\* LOGOUT and a disconnect take the user of a client out of its room, if any.
LEMMA VacateRoomKeeps ==
  ASSUME ClientsOK, TableOK, RoomsOK, NEW c \in Clients, VacateRoomOfUser(c)
  PROVE  TableOK' /\ RoomsOK'
<1>1. CASE InSomeRoom(c) /\ SlotsSeating(clients[c].user) # {}
  <2>1. clients[c].user \in Users
    BY <1>1 DEF ClientsOK, InSomeRoom
  <2> QED BY <1>1, <2>1, RoomOfUserFound, VacateKeeps DEF VacateRoomOfUser
<1>2. CASE ~(InSomeRoom(c) /\ SlotsSeating(clients[c].user) # {})
  <2>1. UNCHANGED <<rooms, slots, room_count>>
    BY <1>2 DEF VacateRoomOfUser
  <2> QED BY <2>1 DEF TableOK, RoomsOK, SlotsHoldLiveRooms, RoomCountExact, Found
<1> QED BY <1>1, <1>2


\* CREATE_ROOM takes an id that was never used and a slot that is free.
LEMMA CreateKeeps ==
  ASSUME ClientsOK, TableOK, RoomsOK, NEW c \in Clients, NEW m, NEW n,
         CreateRoom(c, m, n)
  PROVE  TableOK' /\ RoomsOK'
<1> DEFINE free   == {s \in Slots : slots[s] = EmptySlot}
           unused == {k \in RoomIds : rooms[k].state = "NONE"}
           t == Min(free)
           k == Min(unused)
           r == RoomCreate(clients[c].user, m, n)
<1>1. t \in Slots /\ slots[t] = EmptySlot
  <2>1. free \subseteq Nat /\ free # {}
    BY EmptyIsNoRoom DEF CreateRoom
  <2>2. Min(free) \in free
    <3> HIDE DEF free
    <3> QED BY <2>1, NatMin
  <2> QED BY <2>2
<1>2. k \in RoomIds /\ rooms[k].state = "NONE"
  <2>1. unused \subseteq Nat /\ unused # {}
    BY EmptyIsNoRoom DEF CreateRoom
  <2>2. Min(unused) \in unused
    <3> HIDE DEF unused
    <3> QED BY <2>1, NatMin
  <2> QED BY <2>2
<1>3. Good(r) /\ Sound(r) /\ Live(r) /\ r \in RoomType
  <2>1. clients[c].user \in Users /\ m \in 2..MaxPlayersPerRoom /\ n \in 1..10
    BY DEF CreateRoom, ClientsOK
  <2>2. r.state = "WAITING" /\ r.game = NoGame /\ r.total_rounds >= 1
    BY <2>1 DEF RoomCreate
  <2>3. Good(r)
    BY <2>1, RoomCreateGood
  <2> QED BY <2>2, <2>3, IdleSound DEF Live, Good, Base, SeatsTyped
<1>4. /\ rooms' = [rooms EXCEPT ![k] = r] /\ slots' = [slots EXCEPT ![t] = k]
      /\ room_count' = room_count + 1
  BY DEF CreateRoom
<1> HIDE DEF free, unused, t, k, r
<1>5. /\ \A j \in RoomIds : rooms'[j] = IF j = k THEN r ELSE rooms[j]
      /\ \A s \in Slots : slots'[s] = IF s = t THEN k ELSE slots[s]
  BY <1>4 DEF RoomsOK, TableOK
<1>6. RoomsOK'
  BY <1>2, <1>3, <1>4, <1>5 DEF RoomsOK
<1>7. \A s \in Slots : slots[s] # k
  BY <1>2 DEF TableOK, SlotsHoldLiveRooms, Found, Live
<1>8. SlotsHoldLiveRooms'
  <2>1. ASSUME NEW j \in RoomIds  PROVE Live(rooms'[j]) <=> \E s \in Slots : slots'[s] = j
    <3>1. CASE j = k
      BY <1>1, <1>3, <1>5, <3>1
    <3>2. CASE j # k
      <4>1. Live(rooms[j]) <=> \E s \in Slots : slots[s] = j
        BY DEF TableOK, SlotsHoldLiveRooms, Found
      <4>2. \A s \in Slots : slots'[s] = j <=> slots[s] = j
        BY <1>1, <1>5, <3>2, EmptyIsNoRoom
      <4> QED BY <1>5, <3>2, <4>1, <4>2
    <3> QED BY <3>1, <3>2
  <2>2. ASSUME NEW s \in Slots, NEW q \in Slots, slots'[s] = slots'[q],
               slots'[s] # EmptySlot
        PROVE  s = q
    BY <1>5, <1>7, <2>2 DEF TableOK, SlotsHoldLiveRooms
  <2> QED BY <2>1, <2>2 DEF SlotsHoldLiveRooms, Found
<1>9. RoomCountExact'
  <2>1. UsedSlots' = UsedSlots \cup {t} /\ t \notin UsedSlots
    BY <1>1, <1>2, <1>5, EmptyIsNoRoom DEF UsedSlots
  <2>2. Cardinality(UsedSlots \cup {t}) = Cardinality(UsedSlots) + 1
    BY <2>1, UsedSlotsFinite, FS_AddElement
  <2>3. room_count = Cardinality(UsedSlots)
    BY DEF TableOK, RoomCountExact, UsedSlots
  <2>4. room_count' = Cardinality(UsedSlots')
    BY <1>4, <2>1, <2>2, <2>3
  <2> QED BY <2>4 DEF RoomCountExact, UsedSlots
<1>10. slots' \in [Slots -> RoomIds \cup {EmptySlot}]
  BY <1>2, <1>4 DEF TableOK
<1> QED BY <1>6, <1>8, <1>9, <1>10 DEF TableOK

\* JOIN_ROOM changes the one room that it names.
LEMMA JoinKeeps ==
  ASSUME ClientsOK, TableOK, RoomsOK, NEW c \in Clients, NEW k \in RoomIds,
         JoinRoom(c, k)
  PROVE  TableOK' /\ RoomsOK'
<1>1. clients[c].user \in Users
  BY DEF JoinRoom, ClientsOK
<1>2. Live(rooms[k]) /\ Good(rooms[k]) /\ Sound(rooms[k])
  BY DEF JoinRoom, TableOK, RoomsOK, SlotsHoldLiveRooms
<1>3. /\ Good(EnterRoom(rooms[k], clients[c].user))
      /\ Sound(EnterRoom(rooms[k], clients[c].user))
      /\ Live(EnterRoom(rooms[k], clients[c].user))
  BY <1>1, <1>2, EnterRoomGood, EnterRoomSound, EnterRoomLive DEF JoinRoom, Good, Base
<1> QED BY <1>2, <1>3, RoomChanges DEF JoinRoom

\* START_GAME changes the room of the client's user.
LEMMA StartKeeps ==
  ASSUME ClientsOK, TableOK, RoomsOK, NEW c \in Clients, StartGame(c)
  PROVE  TableOK' /\ RoomsOK'
<1> DEFINE k == RoomOfUser(clients[c].user)
           r == FirstRound(RoomStartGame(rooms[k]))
<1>1. /\ k \in RoomIds /\ Live(rooms[k]) /\ CanStart(rooms[k])
      /\ Good(rooms[k]) /\ Sound(rooms[k])
  BY RoomOfUserFound DEF StartGame, RoomsOK
<1>2. Good(r) /\ Sound(r) /\ Live(r)
  BY <1>1, FirstRoundGood, FirstRoundFields DEF Good, Live
<1>3. rooms' = [rooms EXCEPT ![k] = r] /\ slots' = slots /\ room_count' = room_count
  BY DEF StartGame
<1> HIDE DEF k, r
<1> QED BY <1>1, <1>2, <1>3, RoomChanges

\* A guess, typed where it may be, changes the room of the user.
LEMMA SayKeeps ==
  ASSUME TableOK, RoomsOK, NEW u \in Users, SayWord(u)
  PROVE  TableOK' /\ RoomsOK'
<1> DEFINE k == RoomOfUser(u)
           r == ProcessGuess(rooms[k], u)
<1>1. /\ k \in RoomIds /\ Live(rooms[k]) /\ HasPlayer(rooms[k], u)
      /\ Good(rooms[k]) /\ Sound(rooms[k]) /\ rooms[k].state = "PLAYING"
      /\ rooms[k].game.open /\ rooms[k].game.drawer # u
  BY RoomOfUserFound DEF SayWord, RoomsOK
<1>2. Good(r) /\ Sound(r) /\ Live(r)
  BY <1>1, ProcessGuessGood, ProcessGuessSound, ProcessGuessLive
<1>3. rooms' = [rooms EXCEPT ![k] = r] /\ slots' = slots /\ room_count' = room_count
  BY DEF SayWord
<1> HIDE DEF k, r
<1> QED BY <1>1, <1>2, <1>3, RoomChanges

\* One pass of the tick changes the rooms whose time is up.
LEMMA TickKeeps ==
  ASSUME TableOK, RoomsOK, NEW expired, Tick(expired)
  PROVE  TableOK' /\ RoomsOK'
<1>1. \A k \in RoomIds : rooms'[k] = IF k \in expired THEN NextRound(rooms[k]) ELSE rooms[k]
  BY DEF Tick
<1>2. ASSUME NEW k \in RoomIds
      PROVE  /\ Good(rooms'[k]) /\ Sound(rooms'[k]) /\ rooms'[k] \in RoomType
             /\ Live(rooms'[k]) <=> Live(rooms[k])
  <2>1. CASE k \in expired
    <3>1. Good(rooms[k]) /\ Sound(rooms[k]) /\ rooms[k].state = "PLAYING"
      BY <2>1 DEF Tick, OpenRooms, RoomsOK
    <3>2. Good(NextRound(rooms[k])) /\ Sound(NextRound(rooms[k])) /\ Live(NextRound(rooms[k]))
      BY <3>1, NextRoundGood, NextRoundSound, NextRoundLive
         DEF Good, Base, SeatsTyped, Sound
    <3> QED BY <1>1, <2>1, <3>1, <3>2 DEF Live, Good, Base, SeatsTyped
  <2>2. CASE k \notin expired
    BY <1>1, <2>2 DEF RoomsOK
  <2> QED BY <2>1, <2>2
<1>3. RoomsOK'
  <2>1. rooms' \in [RoomIds -> RoomType]
    BY <1>2 DEF Tick
  <2> QED BY <1>2, <2>1 DEF RoomsOK
<1> QED BY <1>2, <1>3, RoomsMove DEF Tick


-----------------------------------------------------------------------------
\* A handler that gives one client a session that fits its user.
LEMMA OneSession ==
  ASSUME ClientsOK, NEW c, NEW u \in Users \cup {NoUser}, NEW st \in ClientStates,
         u = NoUser <=> st \in {"CLOSED", "LOGGED_OUT"},
         clients' = [clients EXCEPT ![c] = [user |-> u, state |-> st]]
  PROVE  ClientsOK'
  BY DEF ClientsOK

\* A handler that marks sessions whose users are in a room.
LEMMA MarkedSessions ==
  ASSUME ClientsOK, clients' = [d \in Clients |-> clients'[d]],
         \A d \in Clients :
           \/ clients'[d] = clients[d]
           \/ /\ clients[d].user # NoUser
              /\ clients'[d] = [clients[d] EXCEPT !.state = "IN_GAME"]
  PROVE  ClientsOK'
<1>1. ASSUME NEW d \in Clients
      PROVE  /\ clients'[d] \in [user : Users \cup {NoUser}, state : ClientStates]
             /\ clients'[d].user = NoUser <=> clients'[d].state \in {"CLOSED", "LOGGED_OUT"}
  BY DEF ClientsOK, ClientStates
<1> QED BY <1>1 DEF ClientsOK

\* The seats of a room are taken by users.
LEMMA SeatsHaveUsers ==
  ASSUME NEW r, SeatsTyped(r), NEW u, HasPlayer(r, u)
  PROVE  u \in Users
  BY SeatFacts DEF HasPlayer

\* A new connection takes a slot that is not in use.
LEMMA ConnectSession ==
  ASSUME Connect
  PROVE  \E c \in Clients : /\ clients[c].state = "CLOSED"
                            /\ clients' = [clients EXCEPT ![c].state = "LOGGED_OUT"]
<1> DEFINE free == {c \in Clients : ~Connected(c)}
<1>1. free # {} /\ free \subseteq Nat
  BY DEF Connect, Clients
<1>2. Min(free) \in free
  <2> HIDE DEF free
  <2> QED BY <1>1, NatMin
<1>3. clients' = [clients EXCEPT ![Min(free)].state = "LOGGED_OUT"]
  BY DEF Connect
<1> HIDE DEF free
<1>4. Min(free) \in Clients /\ clients[Min(free)].state = "CLOSED"
  BY <1>2 DEF free, Connected
<1> QED BY <1>3, <1>4

\* LOGIN_REQUEST gives one client its user and may disconnect one rival.
LEMMA LoginSession ==
  ASSUME NEW c \in Clients, NEW u \in Users, Login(c, u), NEW d \in Clients, d # c
  PROVE  \/ clients'[d] = clients[d]
         \/ clients'[d] = Closed /\ clients[d].state = "LOGGED_IN" /\ clients[d].user = u
<1> DEFINE V == Rivals(c, u)
<1>1. clients'[d] = IF V # {} /\ d = Min(V) THEN Closed ELSE clients[d]
  BY DEF Login
<1>2. V # {} => Min(V) \in V
  <2>1. V \subseteq Nat
    BY DEF Rivals, Clients
  <2> HIDE DEF V
  <2> QED BY <2>1, NatMin
<1>3. d \in V => clients[d].state = "LOGGED_IN" /\ clients[d].user = u
  BY DEF Rivals
<1> HIDE DEF V
<1> QED BY <1>1, <1>2, <1>3

\* Every handler keeps sessions and users together.
LEMMA SessionsKeep == ClientsOK /\ RoomsOK /\ TableOK /\ Next => ClientsOK'
<1> SUFFICES ASSUME ClientsOK, RoomsOK, TableOK, Next  PROVE ClientsOK'
  OBVIOUS
<1>1. CASE Connect
  BY <1>1, ConnectSession DEF ClientsOK, ClientStates
<1>2. ASSUME NEW c \in Clients, NEW u \in Users, Login(c, u)  PROVE ClientsOK'
  <2>1. clients'[c] = [user |-> u, state |-> "LOGGED_IN"]
    BY <1>2 DEF Login
  <2>2. ASSUME NEW d \in Clients
        PROVE  /\ clients'[d] \in [user : Users \cup {NoUser}, state : ClientStates]
               /\ clients'[d].user = NoUser <=> clients'[d].state \in {"CLOSED", "LOGGED_OUT"}
    BY <1>2, <2>1, LoginSession, RoomAssumption DEF ClientsOK, ClientStates, Closed
  <2>3. clients' = [d \in Clients |-> clients'[d]]
    BY <1>2 DEF Login
  <2> QED BY <2>2, <2>3 DEF ClientsOK
<1>3. ASSUME NEW c \in Clients, Logout(c)  PROVE ClientsOK'
  BY <1>3, OneSession DEF Logout, ClientStates
<1>4. ASSUME NEW c \in Clients, Disconnect(c)  PROVE ClientsOK'
  BY <1>4, OneSession DEF Disconnect, Closed, ClientStates
<1>5. ASSUME NEW c \in Clients, NEW m, NEW n, CreateRoom(c, m, n)  PROVE ClientsOK'
  BY <1>5 DEF CreateRoom, ClientsOK, ClientStates
<1>6. ASSUME NEW c \in Clients, NEW k \in RoomIds, JoinRoom(c, k)  PROVE ClientsOK'
  <2> DEFINE r == EnterRoom(rooms[k], clients[c].user)
  <2>1. clients' = MarkAll(r) \/ clients' = [clients EXCEPT ![c].state = "IN_ROOM"]
    BY <1>6 DEF JoinRoom
  <2>2. CASE clients' = MarkAll(r)
    <3>1. SeatsTyped(r)
      BY <1>6, EnterRoomGood DEF JoinRoom, ClientsOK, TableOK, SlotsHoldLiveRooms, RoomsOK,
         Good, Base
    <3> HIDE DEF r
    <3>2. \A d \in Clients : HasPlayer(r, clients[d].user) => clients[d].user # NoUser
      BY <3>1, SeatsHaveUsers, RoomAssumption
    <3>3. clients' = [d \in Clients |-> clients'[d]]
      BY <2>2 DEF MarkAll
    <3> QED BY <2>2, <3>2, <3>3, MarkedSessions DEF MarkAll
  <2>3. CASE clients' = [clients EXCEPT ![c].state = "IN_ROOM"]
    BY <1>6, <2>3 DEF JoinRoom, ClientsOK, ClientStates
  <2> QED BY <2>1, <2>2, <2>3
<1>7. ASSUME NEW c \in Clients, NEW k \in RoomIds, LeaveRoomRequest(c, k)  PROVE ClientsOK'
  BY <1>7 DEF LeaveRoomRequest, InSomeRoom, ClientsOK, ClientStates
<1>8. ASSUME NEW c \in Clients, StartGame(c)  PROVE ClientsOK'
  <2> DEFINE r == rooms[RoomOfUser(clients[c].user)]
  <2>1. clients' = MarkFirst(r) /\ SeatsTyped(r)
    BY <1>8, RoomOfUserFound DEF StartGame, RoomsOK, Good, Base
  <2> HIDE DEF r
  <2>2. \A d \in Clients, i \in Seats(r) : IsFirstClientOf(d, r.players[i])
                                             => clients[d].user # NoUser
    BY <2>1, SeatFacts, RoomAssumption DEF IsFirstClientOf
  <2>3. clients' = [d \in Clients |-> clients'[d]]
    BY <2>1 DEF MarkFirst
  <2> QED BY <2>1, <2>2, <2>3, MarkedSessions DEF MarkFirst
<1>9. ASSUME NEW u, SayWord(u)  PROVE ClientsOK'
  BY <1>9 DEF SayWord, ClientsOK
<1>10. ASSUME NEW expired, Tick(expired)  PROVE ClientsOK'
  BY <1>10 DEF Tick, ClientsOK
<1> QED BY <1>1, <1>2, <1>3, <1>4, <1>5, <1>6, <1>7, <1>8, <1>9, <1>10
        DEF Next, GuessWord, Chat

\* Every handler keeps the rooms and the table that points to them in order.
LEMMA RoomsKeep == ClientsOK /\ RoomsOK /\ TableOK /\ Next => RoomsOK' /\ TableOK'
<1> SUFFICES ASSUME ClientsOK, RoomsOK, TableOK, Next  PROVE RoomsOK' /\ TableOK'
  OBVIOUS
<1>1. ASSUME rooms' = rooms, slots' = slots, room_count' = room_count
      PROVE  RoomsOK' /\ TableOK'
  BY <1>1 DEF RoomsOK, TableOK, SlotsHoldLiveRooms, RoomCountExact, Found
<1>2. CASE Connect
  BY <1>1, <1>2 DEF Connect
<1>3. ASSUME NEW c \in Clients, NEW u, Login(c, u)  PROVE RoomsOK' /\ TableOK'
  BY <1>1, <1>3 DEF Login
<1>4. ASSUME NEW c \in Clients, Logout(c) \/ Disconnect(c)  PROVE RoomsOK' /\ TableOK'
  BY <1>4, VacateRoomKeeps DEF Logout, Disconnect
<1>5. ASSUME NEW c \in Clients, NEW m, NEW n, CreateRoom(c, m, n)
      PROVE  RoomsOK' /\ TableOK'
  BY <1>5, CreateKeeps
<1>6. ASSUME NEW c \in Clients, NEW k \in RoomIds, JoinRoom(c, k)
      PROVE  RoomsOK' /\ TableOK'
  BY <1>6, JoinKeeps
<1>7. ASSUME NEW c \in Clients, NEW k \in RoomIds, LeaveRoomRequest(c, k)
      PROVE  RoomsOK' /\ TableOK'
  <2>1. Live(rooms[k]) /\ clients[c].user \in Users
    BY <1>7 DEF LeaveRoomRequest, InSomeRoom, ClientsOK, TableOK, SlotsHoldLiveRooms
  <2> QED BY <1>7, <2>1, VacateKeeps DEF LeaveRoomRequest
<1>8. ASSUME NEW c \in Clients, StartGame(c)  PROVE RoomsOK' /\ TableOK'
  BY <1>8, StartKeeps
<1>9. ASSUME NEW c \in Clients, GuessWord(c) \/ Chat(c)  PROVE RoomsOK' /\ TableOK'
  <2>1. clients[c].user \in Users /\ SayWord(clients[c].user)
    BY <1>9 DEF GuessWord, Chat, ClientsOK
  <2> QED BY <2>1, SayKeeps
<1>10. ASSUME NEW expired, Tick(expired)  PROVE RoomsOK' /\ TableOK'
  BY <1>10, TickKeeps
<1> QED BY <1>2, <1>3, <1>4, <1>5, <1>6, <1>7, <1>8, <1>9, <1>10 DEF Next

\* No client, no room and no slot is in use when the server starts.
LEMMA InitOK == Init => IInv
<1> SUFFICES ASSUME Init  PROVE IInv
  OBVIOUS
<1>1. ClientsOK
  BY DEF Init, ClientsOK, Closed, ClientStates
<1>2. Good(NoRoom) /\ Sound(NoRoom) /\ ~Live(NoRoom)
  BY NoRoomGood, IdleSound DEF NoRoom, Live
<1>3. RoomsOK
  BY <1>2 DEF Init, RoomsOK, Good, Base, SeatsTyped
<1>4. UsedSlots = {}
  BY DEF Init, UsedSlots
<1>5. RoomCountExact
  BY <1>4, FS_EmptySet DEF Init, RoomCountExact, UsedSlots
<1>6. SlotsHoldLiveRooms
  BY <1>2, EmptyIsNoRoom DEF Init, SlotsHoldLiveRooms, Found
<1> QED BY <1>1, <1>3, <1>5, <1>6 DEF Init, IInv, TableOK

\* The inductive invariant holds in every state of the server.
THEOREM ServerInvariance == SafeSpec => []IInv
<1>1. IInv /\ [Next]_vars => IInv'
  <2>1. CASE UNCHANGED vars
    BY <2>1 DEF vars, IInv, ClientsOK, RoomsOK, TableOK, SlotsHoldLiveRooms, RoomCountExact,
       Found
  <2>2. CASE Next
    BY <2>2, SessionsKeep, RoomsKeep DEF IInv
  <2> QED BY <2>1, <2>2
<1> QED BY <1>1, InitOK, PTL DEF SafeSpec


-----------------------------------------------------------------------------
(***************************************************************************)
(* The tables of the server keep their types, and a session has a user     *)
(* exactly when it is logged in.                                           *)
(***************************************************************************)
THEOREM ServerTypes == SafeSpec => []TypeOK
<1>1. IInv => TypeOK
  <2> SUFFICES ASSUME IInv  PROVE TypeOK
    OBVIOUS
  <2>1. room_count = Cardinality(UsedSlots)
    BY DEF IInv, TableOK, RoomCountExact, UsedSlots
  <2> QED BY <2>1, UsedSlotsFinite DEF IInv, ClientsOK, RoomsOK, TableOK, Good, Base,
         SeatsTyped, TypeOK
<1> QED BY <1>1, ServerInvariance, PTL

(***************************************************************************)
(* A room exists exactly as long as one slot of rooms[], and only one,     *)
(* points to it, whichever of the leave handlers its players use.          *)
(***************************************************************************)
THEOREM SlotsStayExact == SafeSpec => []SlotsHoldLiveRooms
<1>1. IInv => SlotsHoldLiveRooms
  BY DEF IInv, TableOK
<1> QED BY <1>1, ServerInvariance, PTL

(***************************************************************************)
(* The counter room_count is the number of slots in use, so CREATE_ROOM    *)
(* neither refuses a room for which there is a slot nor finds none.        *)
(***************************************************************************)
THEOREM CountStaysExact == SafeSpec => []RoomCountExact
<1>1. IInv => RoomCountExact
  BY DEF IInv, TableOK
<1> QED BY <1>1, ServerInvariance, PTL

-----------------------------------------------------------------------------
\* What takes client c out of its room.
GoesItself(c) ==
  \/ Logout(c)
  \/ Disconnect(c)
  \/ \E u \in Users : Login(c, u)
  \/ \E k \in RoomIds : LeaveRoomRequest(c, k)

\* Whatever another client sends, a client in a room stays in it.
LEMMA OthersKickNobody ==
  ASSUME IInv, Next, NEW c \in Clients, InSomeRoom(c), ~GoesItself(c)
  PROVE  clients'[c].state \in {"IN_ROOM", "IN_GAME"}
<1> DEFINE Stays == clients'[c].state \in {"IN_ROOM", "IN_GAME"}
<1>0. /\ clients[c].state \in {"IN_ROOM", "IN_GAME"} /\ c \in DOMAIN clients
      /\ clients[c] \in [user : Users \cup {NoUser}, state : ClientStates]
  BY DEF InSomeRoom, IInv, ClientsOK
<1>1. CASE Connect
  BY <1>0, <1>1, ConnectSession
<1>2. ASSUME NEW d \in Clients, NEW u \in Users, Login(d, u)  PROVE Stays
  <2>1. d # c
    BY <1>2 DEF GoesItself
  <2> QED BY <1>0, <1>2, <2>1, LoginSession
<1>3. ASSUME NEW d \in Clients, Logout(d) \/ Disconnect(d)  PROVE Stays
  <2>1. d # c
    BY <1>3 DEF GoesItself
  <2> QED BY <1>0, <1>3, <2>1 DEF Logout, Disconnect
<1>4. ASSUME NEW d \in Clients, NEW m, NEW n, CreateRoom(d, m, n)  PROVE Stays
  BY <1>0, <1>4 DEF CreateRoom
<1>5. ASSUME NEW d \in Clients, NEW k \in RoomIds, JoinRoom(d, k)  PROVE Stays
  <2>1. CASE clients' = [clients EXCEPT ![d].state = "IN_ROOM"]
    BY <1>0, <2>1
  <2>2. CASE clients' = MarkAll(EnterRoom(rooms[k], clients[d].user))
    BY <1>0, <2>2 DEF MarkAll
  <2> QED BY <1>5, <2>1, <2>2 DEF JoinRoom
<1>6. ASSUME NEW d \in Clients, NEW k \in RoomIds, LeaveRoomRequest(d, k)  PROVE Stays
  <2>1. d # c
    BY <1>6 DEF GoesItself
  <2> QED BY <1>0, <1>6, <2>1 DEF LeaveRoomRequest
<1>7. ASSUME NEW d \in Clients, StartGame(d)  PROVE Stays
  BY <1>0, <1>7 DEF StartGame, MarkFirst
<1>8. ASSUME NEW u, SayWord(u)  PROVE Stays
  BY <1>0, <1>8 DEF SayWord
<1>9. ASSUME NEW expired, Tick(expired)  PROVE Stays
  BY <1>0, <1>9 DEF Tick
<1> QED BY <1>1, <1>2, <1>3, <1>4, <1>5, <1>6, <1>7, <1>8, <1>9 DEF Next, GuessWord, Chat

(***************************************************************************)
(* No client is taken out of its room by another: not by a login to the    *)
(* same account, a game that starts or ends, or anybody who leaves.        *)
(***************************************************************************)
THEOREM NobodyIsKicked == SafeSpec => PlayersAreNotKicked
<1>1. IInv /\ [Next]_vars =>
        [\A c \in Clients : InSomeRoom(c) /\ ~InSomeRoom(c)' =>
           \/ Logout(c)
           \/ Disconnect(c)
           \/ \E u \in Users : Login(c, u)
           \/ \E k \in RoomIds : LeaveRoomRequest(c, k)]_vars
  <2> SUFFICES ASSUME IInv, Next, NEW c \in Clients, InSomeRoom(c), ~InSomeRoom(c)'
               PROVE  GoesItself(c)
    BY DEF GoesItself
  <2> QED BY OthersKickNobody DEF InSomeRoom
<1> QED BY <1>1, ServerInvariance, PTL DEF SafeSpec, PlayersAreNotKicked


-----------------------------------------------------------------------------
\* The leave code starts no game.
LEMMA VacateStartsNothing ==
  ASSUME RoomsOK, NEW j \in RoomIds, Live(rooms[j]), NEW u \in Users,
         HasPlayer(rooms[j], u), Vacate(j, u),
         NEW k \in RoomIds, rooms[k].state = "WAITING"
  PROVE  rooms'[k].state # "PLAYING"
<1>1. rooms'[k] = IF k = j THEN LeaveRoom(rooms[j], u) ELSE rooms[k]
  BY DEF Vacate, RoomsOK
<1> QED BY <1>1, LeaveStartsNothing DEF RoomsOK

\* Only a room that fills up, or START_GAME, turns a waiting room into a game.
LEMMA StartsBy ==
  ASSUME IInv, Next, NEW k \in RoomIds,
         rooms[k].state = "WAITING", rooms'[k].state = "PLAYING"
  PROVE  \/ clients' = MarkAll(rooms'[k])
         \/ /\ clients' = MarkFirst(rooms[k])
            /\ rooms'[k].players = rooms[k].players
            /\ rooms'[k].game.open
<1> DEFINE P == \/ clients' = MarkAll(rooms'[k])
                \/ /\ clients' = MarkFirst(rooms[k])
                   /\ rooms'[k].players = rooms[k].players
                   /\ rooms'[k].game.open
<1>0. ClientsOK /\ RoomsOK /\ TableOK
  BY DEF IInv
<1>1. ASSUME rooms' = rooms  PROVE P
  BY <1>1
<1>2. ASSUME NEW c \in Clients, VacateRoomOfUser(c)  PROVE P
  <2> DEFINE j == RoomOfUser(clients[c].user)
  <2>1. CASE InSomeRoom(c) /\ SlotsSeating(clients[c].user) # {}
    <3>1. clients[c].user \in Users
      BY <1>0, <2>1 DEF ClientsOK, InSomeRoom
    <3>2. j \in RoomIds /\ Live(rooms[j]) /\ HasPlayer(rooms[j], clients[c].user)
      BY <1>0, <2>1, RoomOfUserFound
    <3>3. Vacate(j, clients[c].user)
      BY <1>2, <2>1 DEF VacateRoomOfUser
    <3> QED BY <1>0, <3>1, <3>2, <3>3, VacateStartsNothing
  <2>2. CASE ~(InSomeRoom(c) /\ SlotsSeating(clients[c].user) # {})
    BY <1>1, <1>2, <2>2 DEF VacateRoomOfUser
  <2> QED BY <2>1, <2>2
<1>3. ASSUME NEW c \in Clients, NEW m, NEW n, CreateRoom(c, m, n)  PROVE P
  BY <1>0, <1>3 DEF CreateRoom, RoomsOK, RoomCreate
<1>4. ASSUME NEW c \in Clients, NEW j \in RoomIds, JoinRoom(c, j)  PROVE P
  <2>1. rooms'[k] = IF k = j THEN EnterRoom(rooms[j], clients[c].user) ELSE rooms[k]
    BY <1>0, <1>4 DEF JoinRoom, RoomsOK
  <2>2. k = j
    BY <2>1
  <2> QED BY <1>4, <2>1, <2>2 DEF JoinRoom
<1>5. ASSUME NEW c \in Clients, NEW j \in RoomIds, LeaveRoomRequest(c, j)  PROVE P
  <2>1. Live(rooms[j]) /\ clients[c].user \in Users
    BY <1>0, <1>5 DEF LeaveRoomRequest, InSomeRoom, ClientsOK, TableOK, SlotsHoldLiveRooms
  <2> QED BY <1>0, <1>5, <2>1, VacateStartsNothing DEF LeaveRoomRequest
<1>6. ASSUME NEW c \in Clients, StartGame(c)  PROVE P
  <2> DEFINE j == RoomOfUser(clients[c].user)
             r == FirstRound(RoomStartGame(rooms[j]))
  <2>1. j \in RoomIds /\ Good(rooms[j]) /\ CanStart(rooms[j])
    BY <1>0, <1>6, RoomOfUserFound DEF StartGame, RoomsOK
  <2>2. r.players = rooms[j].players /\ r.game.open
    BY <2>1, FirstRoundFields DEF Good
  <2>3. clients' = MarkFirst(rooms[j]) /\ rooms' = [rooms EXCEPT ![j] = r]
    BY <1>6 DEF StartGame
  <2> HIDE DEF j, r
  <2>4. rooms'[k] = IF k = j THEN r ELSE rooms[k]
    BY <1>0, <2>3 DEF RoomsOK
  <2>5. k = j
    BY <2>4
  <2> QED BY <2>2, <2>3, <2>4, <2>5
<1>7. ASSUME NEW u, SayWord(u)  PROVE P
  <2> DEFINE j == RoomOfUser(u)
  <2>1. rooms[j].state = "PLAYING" /\ rooms' = [rooms EXCEPT ![j] = ProcessGuess(rooms[j], u)]
    BY <1>7 DEF SayWord
  <2> HIDE DEF j
  <2>2. k # j
    BY <2>1
  <2> QED BY <1>0, <2>1, <2>2 DEF RoomsOK
<1>8. ASSUME NEW expired, Tick(expired)  PROVE P
  <2>1. k \notin expired
    BY <1>8 DEF Tick, OpenRooms
  <2> QED BY <1>8, <2>1 DEF Tick
<1> HIDE DEF P
<1>9. P
  BY <1>1, <1>2, <1>3, <1>4, <1>5, <1>6, <1>7, <1>8
     DEF Next, Connect, Login, Logout, Disconnect, GuessWord, Chat
<1> QED BY <1>9 DEF P

\* A game that starts reaches every session of its players, except for those
\* that START_GAME finds behind an earlier session of the same user.
LEMMA StartReaches ==
  ASSUME IInv, Next, NEW k \in RoomIds, GameStarts(k),
         NEW c \in Clients, HasPlayer(rooms'[k], clients'[c].user)
  PROVE  \/ clients'[c].state = "IN_GAME"
         \/ /\ rooms'[k].game.open
            /\ \E d \in 1..(c - 1) : /\ clients'[d].user = clients'[c].user
                                     /\ clients'[d].state = "IN_GAME"
<1> DEFINE u == clients'[c].user
<1>0. \A d \in Clients : clients[d] \in [user : Users \cup {NoUser}, state : ClientStates]
  BY DEF IInv, ClientsOK
<1>1. CASE clients' = MarkAll(rooms'[k])
  <2>1. clients[c].user = u
    BY <1>0, <1>1 DEF MarkAll
  <2> QED BY <1>0, <1>1, <2>1 DEF MarkAll
<1>2. CASE /\ clients' = MarkFirst(rooms[k])
           /\ rooms'[k].players = rooms[k].players
           /\ rooms'[k].game.open
  <2> DEFINE mine == {d \in Clients : clients[d].user = u}
             first == Min(mine)
  <2>1. \A d \in Clients : clients'[d].user = clients[d].user
    BY <1>0, <1>2 DEF MarkFirst
  <2>2. first \in mine /\ \A d \in mine : first <= d
    <3>1. mine \subseteq Nat /\ c \in mine
      BY <2>1 DEF Clients
    <3> HIDE DEF mine
    <3> QED BY <3>1, NatMin
  <2>3. first \in Clients /\ clients[first].user = u
    BY <2>2
  <2>4. first <= c
    BY <2>1, <2>2
  <2>5. IsFirstClientOf(first, u)
    <3>1. ASSUME NEW d \in 1..(first - 1), clients[d].user = u  PROVE FALSE
      <4>1. d \in Clients /\ ~(first <= d)
        BY <2>3, ServerAssumption DEF Clients
      <4>2. d \in mine
        BY <3>1, <4>1
      <4> HIDE DEF mine, first
      <4> QED BY <2>2, <4>1, <4>2
    <3> HIDE DEF mine, first
    <3> QED BY <2>3, <3>1 DEF IsFirstClientOf
  <2> HIDE DEF mine, first
  <2>6. PICK i \in Seats(rooms[k]) : rooms[k].players[i] = u
    BY <1>2 DEF HasPlayer, Seats
  <2>7. clients'[first] = [clients[first] EXCEPT !.state = "IN_GAME"]
    BY <1>2, <2>3, <2>5, <2>6 DEF MarkFirst
  <2>8. clients'[first].state = "IN_GAME" /\ clients'[first].user = u
    BY <1>0, <2>1, <2>3, <2>7
  <2>9. CASE first = c
    BY <2>8, <2>9
  <2>10. CASE first # c
    <3>1. first \in 1..(c - 1)
      BY <2>3, <2>4, <2>10, ServerAssumption DEF Clients
    <3> QED BY <1>2, <2>8, <3>1
  <2> QED BY <2>9, <2>10
<1> QED BY <1>1, <1>2, StartsBy DEF GameStarts

(***************************************************************************)
(* When a game starts, every session of its players is in the IN_GAME      *)
(* state, except for those that START_GAME misses, which only marks the    *)
(* first session of each user; a room that fills up misses none, those of  *)
(* its users that are elsewhere included.                                  *)
(***************************************************************************)
THEOREM StartIsNoticed == SafeSpec => StartReachesPlayers
<1>1. IInv /\ [Next]_vars =>
        [\A k \in RoomIds : GameStarts(k) =>
           \A c \in Clients : HasPlayer(rooms'[k], clients'[c].user) =>
             \/ clients'[c].state = "IN_GAME"
             \/ /\ rooms'[k].game.open
                /\ \E d \in 1..(c - 1) : /\ clients'[d].user = clients'[c].user
                                         /\ clients'[d].state = "IN_GAME"]_vars
  <2> SUFFICES ASSUME IInv, Next, NEW k \in RoomIds, GameStarts(k),
                      NEW c \in Clients, HasPlayer(rooms'[k], clients'[c].user)
      PROVE  \/ clients'[c].state = "IN_GAME"
             \/ /\ rooms'[k].game.open
                /\ \E d \in 1..(c - 1) : /\ clients'[d].user = clients'[c].user
                                         /\ clients'[d].state = "IN_GAME"
    OBVIOUS
  <2> QED BY StartReaches
<1> QED BY <1>1, ServerInvariance, PTL DEF SafeSpec, StartReachesPlayers


-----------------------------------------------------------------------------
(***************************************************************************)
(* The refinement.  GameRoom brings its own copy of Room and Game; the     *)
(* next lemmas say that its operators are Server's.                        *)
(***************************************************************************)
\* The tables of seats of the two specifications are the same.
LEMMA SameSeats ==
  ASSUME NEW r
  PROVE  /\ R!Seats(r) = Seats(r) /\ R!ActiveSeats(r) = ActiveSeats(r)
         /\ R!ActiveCount(r) = ActiveCount(r)
         /\ R!Live(r) <=> Live(r)
         /\ R!IsFull(r) <=> IsFull(r)
         /\ R!CanStart(r) <=> CanStart(r)
         /\ R!TooFewToPlay(r) <=> TooFewToPlay(r)
         /\ \A u : R!HasPlayer(r, u) <=> HasPlayer(r, u)
         /\ \A u : R!IsActive(r, u) <=> IsActive(r, u)
         /\ \A u : R!SeatOf(r, u) = SeatOf(r, u)
         /\ R!FirstActive(r) = FirstActive(r)
<1>1. R!Seats(r) = Seats(r) /\ R!ActiveSeats(r) = ActiveSeats(r)
  BY DEF R!Seats, Seats, R!ActiveSeats, ActiveSeats
<1>2. \A S : R!Min(S) = Min(S)
  BY DEF R!Min, Min
<1>3. \A S : R!Cardinality(S) = Cardinality(S)
  BY DEF R!Cardinality, Cardinality
<1> QED
  BY <1>1, <1>2, <1>3
     DEF R!ActiveCount, ActiveCount, R!Live, Live, R!IsFull, IsFull, R!CanStart, CanStart,
         R!TooFewToPlay, TooFewToPlay, R!HasPlayer, HasPlayer, R!IsActive, IsActive,
         R!SeatOf, SeatOf, R!FirstActive, FirstActive

\* A room without a game, and one whose game has ended, are the same.
LEMMA SameIdleRooms ==
  /\ R!NoGame = NoGame /\ R!NoRoom = NoRoom /\ R!Destroyed = Destroyed
  /\ \A r : R!RoomEndGame(r) = RoomEndGame(r)
  /\ \A u, m, n : R!RoomCreate(u, m, n) = RoomCreate(u, m, n)
  BY DEF R!NoGame, NoGame, R!NoEntry, NoEntry, R!NoRoom, NoRoom, R!Destroyed, Destroyed,
         R!RoomEndGame, RoomEndGame, R!RoomCreate, RoomCreate

\* A round ends and the next one opens in the same way.
LEMMA SameRounds ==
  ASSUME NEW r
  PROVE  /\ R!NextRound(r) = NextRound(r)
         /\ R!FirstRound(r) = FirstRound(r)
<1>1. \A k : R!SeatAfter(r, k) = SeatAfter(r, k)
  BY DEF R!SeatAfter, SeatAfter
<1>2. R!Attempts(r) = Attempts(r)
  BY <1>1 DEF R!Attempts, Attempts, R!RoundsLeft, RoundsLeft
<1>3. R!Min(Attempts(r)) = Min(Attempts(r))
  BY DEF R!Min, Min
<1>4. \A k, i : R!OpenRound(r, k, i) = OpenRound(r, k, i)
  BY DEF R!OpenRound, OpenRound
<1>5. R!NextRound(r) = NextRound(r)
  BY <1>1, <1>2, <1>3, <1>4, SameIdleRooms DEF R!NextRound, NextRound
<1> QED BY <1>4, <1>5 DEF R!FirstRound, FirstRound

\* A game starts in the same way, by START_GAME and by JOIN_ROOM.
LEMMA SameStart ==
  ASSUME NEW r
  PROVE  /\ R!RoomStartGame(r) = RoomStartGame(r)
         /\ \A u : R!EnterRoom(r, u) = EnterRoom(r, u)
<1>1. ASSUME NEW s  PROVE R!GameInit(s) = GameInit(s)
  <2>1. R!ZeroScores(s) = ZeroScores(s)
    BY SameSeats DEF R!ZeroScores, ZeroScores, R!NoEntry, NoEntry
  <2>2. R!Min({Len(s.players) * s.total_rounds, MaxWordsStack})
          = Min({Len(s.players) * s.total_rounds, MaxWordsStack})
    BY DEF R!Min, Min
  <2> QED BY <2>1, <2>2, SameSeats DEF R!GameInit, GameInit
<1>2. ASSUME NEW s  PROVE R!RoomStartGame(s) = RoomStartGame(s)
  BY <1>1, SameSeats DEF R!RoomStartGame, RoomStartGame
<1>3. ASSUME NEW u  PROVE R!EnterRoom(r, u) = EnterRoom(r, u)
  <2>1. R!RoomAddPlayer(r, u) = RoomAddPlayer(r, u)
    BY DEF R!RoomAddPlayer, RoomAddPlayer
  <2> QED BY <1>2, <2>1, SameSeats DEF R!EnterRoom, EnterRoom
<1> QED BY <1>2, <1>3

\* A guess is scored in the same way.
LEMMA SameGuess ==
  ASSUME NEW r, NEW u
  PROVE  R!ProcessGuess(r, u) = ProcessGuess(r, u)
<1>1. \A t, v, p : R!AddPoints(r, t, v, p) = AddPoints(r, t, v, p)
  BY SameSeats DEF R!AddPoints, AddPoints, R!ZeroScores, ZeroScores, R!NoEntry, NoEntry
<1>2. \A k : R!GuesserPoints(k) = GuesserPoints(k) /\ R!DrawerPoints(k) = DrawerPoints(k)
  BY DEF R!GuesserPoints, GuesserPoints, R!DrawerPoints, DrawerPoints
<1>3. R!HasGuessed(r, u) <=> HasGuessed(r, u)
  BY DEF R!HasGuessed, HasGuessed
<1>4. R!GameHandleGuess(r, u) = GameHandleGuess(r, u)
  <2> DEFINE g == r.game
             order == Len(g.guessed) + 1
             mine == AddPoints(r, g.scores, u, GuesserPoints(order))
             table == AddPoints(r, mine, g.drawer, DrawerPoints(order))
  <2>1. R!AddPoints(r, R!AddPoints(r, g.scores, u, R!GuesserPoints(order)),
                    g.drawer, R!DrawerPoints(order)) = table
    BY <1>1, <1>2
  <2> HIDE DEF table
  <2> QED BY <1>3, <2>1 DEF R!GameHandleGuess, GameHandleGuess, table
<1>5. ASSUME NEW s  PROVE R!AllFound(s) <=> AllFound(s)
  <2>1. R!ActiveGuessers(s) = ActiveGuessers(s)
    BY SameSeats DEF R!ActiveGuessers, ActiveGuessers
  <2>2. R!Cardinality(ActiveGuessers(s)) = Cardinality(ActiveGuessers(s))
    BY DEF R!Cardinality, Cardinality
  <2> QED BY <2>1, <2>2 DEF R!AllFound, AllFound
<1> QED BY <1>4, <1>5, SameRounds DEF R!ProcessGuess, ProcessGuess

\* A player leaves in the same way.
LEMMA SameLeave ==
  ASSUME NEW r, NEW u
  PROVE  R!LeaveRoom(r, u) = LeaveRoom(r, u)
<1>1. \A s : R!PassOwnership(s, u) = PassOwnership(s, u)
  BY SameSeats DEF R!PassOwnership, PassOwnership
<1>2. \A s, i : R!RemoveAt(s, i) = RemoveAt(s, i)
  BY DEF R!RemoveAt, RemoveAt
<1>3. R!RoomRemovePlayer(r, u) = RoomRemovePlayer(r, u)
  BY <1>1, <1>2, SameSeats DEF R!RoomRemovePlayer, RoomRemovePlayer
<1>4. \A s : R!EnsureActiveOwner(s) = EnsureActiveOwner(s)
  BY SameSeats DEF R!EnsureActiveOwner, EnsureActiveOwner
<1>5. R!RoundOfDrawer(r, u) <=> RoundOfDrawer(r, u)
  BY DEF R!RoundOfDrawer, RoundOfDrawer
<1> QED BY <1>3, <1>4, <1>5, SameSeats, SameIdleRooms, SameRounds
        DEF R!LeaveRoom, LeaveRoom


-----------------------------------------------------------------------------
\* Where the leave code takes place in the room AnyRoom, it is GameRoom's Leave.
LEMMA VacateIsLeave ==
  ASSUME RoomsOK, NEW k \in RoomIds, Live(rooms[k]),
         NEW u \in Users, HasPlayer(rooms[k], u), Vacate(k, u)
  PROVE  R!Leave(u) \/ rooms'[AnyRoom] = rooms[AnyRoom]
<1>1. CASE k = AnyRoom
  <2>1. rooms'[AnyRoom] = LeaveRoom(rooms[AnyRoom], u)
    BY <1>1 DEF Vacate, RoomsOK
  <2> QED BY <1>1, <2>1, SameSeats, SameLeave DEF R!Leave
<1>2. CASE k # AnyRoom
  BY <1>2, AnyRoomAssumption DEF Vacate, RoomsOK
<1> QED BY <1>1, <1>2

\* The step of the client that LOGOUT or a lost connection takes out of its room.
LEMMA VacateRoomIsLeave ==
  ASSUME IInv, NEW c \in Clients, VacateRoomOfUser(c)
  PROVE  \/ \E u \in Users : R!Leave(u)
         \/ rooms'[AnyRoom] = rooms[AnyRoom]
<1>1. CASE InSomeRoom(c) /\ SlotsSeating(clients[c].user) # {}
  <2>1. clients[c].user \in Users
    BY <1>1 DEF IInv, ClientsOK, InSomeRoom
  <2> QED BY <1>1, <2>1, RoomOfUserFound, VacateIsLeave DEF VacateRoomOfUser, IInv
<1>2. CASE ~(InSomeRoom(c) /\ SlotsSeating(clients[c].user) # {})
  BY <1>2 DEF VacateRoomOfUser
<1> QED BY <1>1, <1>2

(***************************************************************************)
(* Every handler either leaves the room AnyRoom alone or does in it what   *)
(* an action of GameRoom does: what GameRoom's guards ask for follows from *)
(* what the handler checks of the session and of the table of rooms.       *)
(***************************************************************************)
LEMMA StepRefines == IInv /\ Next => R!Next \/ rooms'[AnyRoom] = rooms[AnyRoom]
<1> SUFFICES ASSUME IInv, Next  PROVE R!Next \/ rooms'[AnyRoom] = rooms[AnyRoom]
  OBVIOUS
<1> DEFINE P == R!Next \/ rooms'[AnyRoom] = rooms[AnyRoom]
<1>0. /\ ClientsOK /\ RoomsOK /\ TableOK /\ AnyRoom \in RoomIds
      /\ rooms \in [RoomIds -> RoomType]
  BY AnyRoomAssumption DEF IInv, RoomsOK
<1>1. ASSUME rooms' = rooms  PROVE P
  BY <1>1
<1>2. ASSUME NEW c \in Clients, Logout(c) \/ Disconnect(c)  PROVE P
  BY <1>2, VacateRoomIsLeave DEF Logout, Disconnect, R!Next
<1>3. ASSUME NEW c \in Clients, NEW m \in RequestedSizes, NEW n \in RequestedRounds,
             CreateRoom(c, m, n)
      PROVE  P
  <2> DEFINE unused == {k \in RoomIds : rooms[k].state = "NONE"}
             k == Min(unused)
             u == clients[c].user
  <2>1. k \in unused
    <3>1. unused # {} /\ unused \subseteq Nat
      BY <1>3, EmptyIsNoRoom DEF CreateRoom
    <3> HIDE DEF unused
    <3> QED BY <3>1, NatMin
  <2>2. u \in Users /\ m \in 2..MaxPlayersPerRoom /\ n \in 1..10
    BY <1>0, <1>3 DEF CreateRoom, ClientsOK
  <2>3. rooms' = [rooms EXCEPT ![k] = RoomCreate(u, m, n)]
    BY <1>3 DEF CreateRoom
  <2>4. rooms[k].state = "NONE"
    BY <2>1
  <2> HIDE DEF k, u
  <2>5. CASE k = AnyRoom
    <3>1. R!Create(u, m, n)
      BY <1>0, <2>2, <2>3, <2>4, <2>5, SameIdleRooms DEF R!Create
    <3> QED BY <2>2, <3>1 DEF R!Next
  <2>6. CASE k # AnyRoom
    BY <1>0, <2>3, <2>6
  <2> QED BY <2>5, <2>6
<1>4. ASSUME NEW c \in Clients, NEW k \in RoomIds, JoinRoom(c, k)  PROVE P
  <2> DEFINE u == clients[c].user
  <2>1. /\ u \in Users /\ Live(rooms[k]) /\ ~IsFull(rooms[k]) /\ ~HasPlayer(rooms[k], u)
        /\ rooms' = [rooms EXCEPT ![k] = EnterRoom(rooms[k], u)]
    BY <1>0, <1>4 DEF JoinRoom, ClientsOK, TableOK, SlotsHoldLiveRooms
  <2> HIDE DEF u
  <2>2. CASE k = AnyRoom
    <3>1. R!Join(u)
      BY <1>0, <2>1, <2>2, SameSeats, SameStart DEF R!Join
    <3> QED BY <2>1, <3>1 DEF R!Next
  <2>3. CASE k # AnyRoom
    BY <1>0, <2>1, <2>3
  <2> QED BY <2>2, <2>3
<1>5. ASSUME NEW c \in Clients, NEW k \in RoomIds, LeaveRoomRequest(c, k)  PROVE P
  <2>1. Live(rooms[k]) /\ clients[c].user \in Users
    BY <1>0, <1>5 DEF LeaveRoomRequest, InSomeRoom, ClientsOK, TableOK, SlotsHoldLiveRooms
  <2> QED BY <1>0, <1>5, <2>1, VacateIsLeave DEF LeaveRoomRequest, R!Next
<1>6. ASSUME NEW c \in Clients, StartGame(c)  PROVE P
  <2> DEFINE u == clients[c].user
             k == RoomOfUser(u)
  <2>1. /\ u \in Users /\ k \in RoomIds /\ rooms[k].owner = u /\ CanStart(rooms[k])
        /\ rooms' = [rooms EXCEPT ![k] = FirstRound(RoomStartGame(rooms[k]))]
    BY <1>0, <1>6, RoomOfUserFound DEF StartGame, ClientsOK
  <2> HIDE DEF u, k
  <2>2. CASE k = AnyRoom
    <3>1. R!Start(u)
      BY <1>0, <2>1, <2>2, SameSeats, SameStart, SameRounds DEF R!Start
    <3> QED BY <2>1, <3>1 DEF R!Next
  <2>3. CASE k # AnyRoom
    BY <1>0, <2>1, <2>3
  <2> QED BY <2>2, <2>3
<1>7. ASSUME NEW c \in Clients, GuessWord(c) \/ Chat(c)  PROVE P
  <2> DEFINE u == clients[c].user
             k == RoomOfUser(u)
  <2>1. u \in Users /\ SayWord(u)
    BY <1>0, <1>7 DEF GuessWord, Chat, ClientsOK
  <2>2. /\ k \in RoomIds /\ HasPlayer(rooms[k], u) /\ rooms[k].state = "PLAYING"
        /\ rooms[k].game.open /\ rooms[k].game.drawer # u
        /\ rooms' = [rooms EXCEPT ![k] = ProcessGuess(rooms[k], u)]
    BY <1>0, <2>1, RoomOfUserFound DEF SayWord
  <2> HIDE DEF u, k
  <2>3. CASE k = AnyRoom
    <3>1. R!Guess(u)
      BY <1>0, <2>2, <2>3, SameSeats, SameGuess DEF R!Guess
    <3> QED BY <2>1, <3>1 DEF R!Next
  <2>4. CASE k # AnyRoom
    BY <1>0, <2>2, <2>4
  <2> QED BY <2>3, <2>4
<1>8. ASSUME NEW expired, Tick(expired)  PROVE P
  <2>1. CASE AnyRoom \in expired
    <3>1. /\ rooms[AnyRoom].state = "PLAYING" /\ rooms[AnyRoom].game.open
          /\ rooms'[AnyRoom] = NextRound(rooms[AnyRoom])
      BY <1>0, <1>8, <2>1 DEF Tick, OpenRooms
    <3> QED BY <3>1, SameRounds DEF R!Timeout, R!Next
  <2>2. CASE AnyRoom \notin expired
    BY <1>0, <1>8, <2>2 DEF Tick
  <2> QED BY <2>1, <2>2
<1> HIDE DEF P
<1>9. P
  BY <1>1, <1>2, <1>3, <1>4, <1>5, <1>6, <1>7, <1>8 DEF Next, Connect, Login
<1> QED BY <1>9 DEF P

(***************************************************************************)
(* The server implements GameRoom in every room: whatever clients do, the  *)
(* room with a given id lives the life that GameRoom describes.  AnyRoom   *)
(* is any id at all, so the theorems of GameRoomProofs hold of each room.  *)
(***************************************************************************)
THEOREM EveryRoomRefines == SafeSpec => EveryRoomIsAGameRoom
<1>1. Init => R!Init
  BY AnyRoomAssumption, SameIdleRooms DEF Init, R!Init
<1>2. IInv /\ [Next]_vars => [R!Next]_(rooms[AnyRoom])
  BY StepRefines DEF vars
<1> QED BY <1>1, <1>2, ServerInvariance, PTL
        DEF SafeSpec, EveryRoomIsAGameRoom, R!SafeSpec
=============================================================================
