------------------------------- MODULE Server -------------------------------
(***************************************************************************)
(* The whole server: the client slots of server_t, the room slots, and the *)
(* handlers of protocol_auth.c, protocol_room.c, protocol_game.c and       *)
(* protocol_chat.c that tie a client's session to the rooms.  The event    *)
(* loop of server.c runs one handler at a time, so each handler is one     *)
(* action; a request that is refused changes nothing and is a stuttering   *)
(* step, as are wrong guesses, drawing and ordinary chat.                  *)
(*                                                                         *)
(* A client names a room by its id, which is never used twice, while the   *)
(* server looks for "the room of a user" through the slots of rooms[] and  *)
(* takes the first that seats the user.  Both are kept: rooms maps every   *)
(* id to the room it was given to, slots maps each slot to an id.          *)
(***************************************************************************)
EXTENDS Game

CONSTANTS
  MaxClients,       \* MAX_CLIENTS, the number of client slots
  MaxRooms,         \* MAX_ROOMS, the number of room slots
  MaxRoomIds,       \* bound: how many rooms are ever created
  AnyRoom,          \* the id of a room; nothing is assumed about which
  Relogin,          \* may a client send LOGIN_REQUEST while it is logged in?
  RequestedSizes,   \* values of max_players that CREATE_ROOM may carry
  RequestedRounds   \* values of rounds that CREATE_ROOM may carry

ASSUME ServerAssumption ==
  /\ MaxClients \in Nat \ {0}
  /\ MaxRooms \in Nat \ {0}
  /\ MaxRoomIds \in Nat
  /\ Relogin \in BOOLEAN
  /\ RequestedSizes \subseteq Nat /\ RequestedRounds \subseteq Nat

Clients == 1..MaxClients
Slots   == 1..MaxRooms
RoomIds == 1..MaxRoomIds

ASSUME AnyRoomAssumption == AnyRoom \in RoomIds

\* A slot of rooms[] that holds a null pointer.
EmptySlot == 0

VARIABLES
  clients,     \* client slot -> [user, state]; a slot not in use is CLOSED
  rooms,       \* room id -> the room with this id
  slots,       \* rooms[]: room slot -> room id or EmptySlot
  room_count   \* the counter server->room_count

vars == <<clients, rooms, slots, room_count>>

ClientStates == {"CLOSED", "LOGGED_OUT", "LOGGED_IN", "IN_ROOM", "IN_GAME"}

Closed == [user |-> NoUser, state |-> "CLOSED"]

Init ==
  /\ clients = [c \in Clients |-> Closed]
  /\ rooms = [k \in RoomIds |-> NoRoom]
  /\ slots = [s \in Slots |-> EmptySlot]
  /\ room_count = 0

-----------------------------------------------------------------------------
Connected(c) == clients[c].state # "CLOSED"

InSomeRoom(c) == clients[c].state \in {"IN_ROOM", "IN_GAME"}

\* protocol_find_room succeeds for exactly the ids that fill a slot.
Found(k) == \E s \in Slots : slots[s] = k

\* server_find_room_by_user: the slots whose room seats u, and the first one.
SlotsSeating(u) ==
  {s \in Slots : slots[s] # EmptySlot /\ HasPlayer(rooms[slots[s]], u)}

RoomOfUser(u) == slots[Min(SlotsSeating(u))]

\* Mutant: the room is destroyed but its slot is not cleared.
VacateKeepsSlot(k, u) ==
  LET r == LeaveRoom(rooms[k], u)
  IN  /\ rooms' = [rooms EXCEPT ![k] = r]
      /\ room_count' = IF Live(r) THEN room_count ELSE room_count - 1
      /\ UNCHANGED slots

\* Mutant: the leave code forgets to count the room out.
VacateUncounted(k, u) ==
  LET r == LeaveRoom(rooms[k], u)
  IN  /\ rooms' = [rooms EXCEPT ![k] = r]
      /\ slots' = [s \in Slots |->
                     IF slots[s] = k /\ ~Live(r) THEN EmptySlot ELSE slots[s]]
      /\ UNCHANGED room_count

(***************************************************************************)
(* User u leaves room k; a room without active players loses its slot.     *)
(* The code has three copies of this: LEAVE_ROOM, LOGOUT and disconnect.   *)
(***************************************************************************)
Vacate(k, u) ==
  LET r == LeaveRoom(rooms[k], u)
  IN  /\ rooms' = [rooms EXCEPT ![k] = r]
      /\ slots' = [s \in Slots |->
                     IF slots[s] = k /\ ~Live(r) THEN EmptySlot ELSE slots[s]]
      /\ room_count' = IF Live(r) THEN room_count ELSE room_count - 1

\* What LOGOUT and a disconnect do for a client that is in a room.
VacateRoomOfUser(c) ==
  IF InSomeRoom(c) /\ SlotsSeating(clients[c].user) # {}
  THEN Vacate(RoomOfUser(clients[c].user), clients[c].user)
  ELSE UNCHANGED <<rooms, slots, room_count>>

-----------------------------------------------------------------------------
\* A new connection takes the first free client slot, if there is one.
Connect ==
  LET free == {c \in Clients : ~Connected(c)}
  IN  /\ free # {}
      /\ clients' = [clients EXCEPT ![Min(free)].state = "LOGGED_OUT"]
      /\ UNCHANGED <<rooms, slots, room_count>>

\* Mutant: whoever else uses the account is disconnected, players included.
AnyRival(c, u) == {d \in Clients \ {c} : clients[d].user = u}

\* The other clients that use u's account without being in a room.
Rivals(c, u) ==
  {d \in Clients \ {c} : clients[d].user = u /\ clients[d].state = "LOGGED_IN"}

(***************************************************************************)
(* LOGIN_REQUEST with the right password.  The first rival is disconnected *)
(* (it is in no room, so nothing else happens to it).  What state this     *)
(* client is in itself is not looked at: it may already be in a room.  The *)
(* web client logs in once per connection, which Relogin = FALSE assumes.  *)
(***************************************************************************)
Login(c, u) ==
  /\ Connected(c)
  /\ Relogin \/ clients[c].state = "LOGGED_OUT"
  /\ clients' = [d \in Clients |->
                   IF d = c THEN [user |-> u, state |-> "LOGGED_IN"]
                   ELSE IF Rivals(c, u) # {} /\ d = Min(Rivals(c, u)) THEN Closed
                   ELSE clients[d]]
  /\ UNCHANGED <<rooms, slots, room_count>>

\* Mutant: the session is reset without its user id.
LogoutKeepsUser(c) ==
  /\ Connected(c)
  /\ VacateRoomOfUser(c)
  /\ clients' = [clients EXCEPT ![c].state = "LOGGED_OUT"]

\* LOGOUT: out of the room of its user, if it is in one, and no user any more.
Logout(c) ==
  /\ Connected(c)
  /\ VacateRoomOfUser(c)
  /\ clients' = [clients EXCEPT ![c] = [user |-> NoUser, state |-> "LOGGED_OUT"]]

\* server_handle_disconnect: recv() reports an error or the end of the stream.
Disconnect(c) ==
  /\ Connected(c)
  /\ VacateRoomOfUser(c)
  /\ clients' = [clients EXCEPT ![c] = Closed]

-----------------------------------------------------------------------------
\* CREATE_ROOM: the next id and the first free slot are given to the room.
CreateRoom(c, m, n) ==
  LET free   == {s \in Slots : slots[s] = EmptySlot}
      unused == {k \in RoomIds : rooms[k].state = "NONE"}
  IN  /\ clients[c].state = "LOGGED_IN"
      /\ m \in 2..MaxPlayersPerRoom
      /\ n \in 1..10
      /\ room_count < MaxRooms
      /\ free # {}
      /\ unused # {}
      /\ rooms' = [rooms EXCEPT ![Min(unused)] = RoomCreate(clients[c].user, m, n)]
      /\ slots' = [slots EXCEPT ![Min(free)] = Min(unused)]
      /\ room_count' = room_count + 1
      /\ clients' = [clients EXCEPT ![c].state = "IN_ROOM"]

\* Mutant: a game that starts by itself tells no client.
MarkNobody(r) == clients

\* A game that starts by itself marks every client of a user in the room.
MarkAll(r) ==
  [d \in Clients |->
     IF HasPlayer(r, clients[d].user) THEN [clients[d] EXCEPT !.state = "IN_GAME"]
     ELSE clients[d]]

\* Mutant: a user who has left the running game is seated a second time.
JoinRoomAgain(c, k) ==
  LET r == EnterRoom(rooms[k], clients[c].user)
  IN  /\ clients[c].state = "LOGGED_IN"
      /\ Found(k)
      /\ ~IsFull(rooms[k])
      /\ rooms' = [rooms EXCEPT ![k] = r]
      /\ clients' = [clients EXCEPT ![c].state = "IN_ROOM"]
      /\ UNCHANGED <<slots, room_count>>

\* JOIN_ROOM, refused when the room is full or has the user already.
JoinRoom(c, k) ==
  LET u == clients[c].user
      r == EnterRoom(rooms[k], u)
      started == rooms[k].state = "WAITING" /\ r.state = "PLAYING"
  IN  /\ clients[c].state = "LOGGED_IN"
      /\ Found(k)
      /\ ~IsFull(rooms[k])
      /\ ~HasPlayer(rooms[k], u)
      /\ rooms' = [rooms EXCEPT ![k] = r]
      /\ clients' = IF started THEN MarkAll(r)
                    ELSE [clients EXCEPT ![c].state = "IN_ROOM"]
      /\ UNCHANGED <<slots, room_count>>

\* The client names the room it leaves; it must seat the user, no more.
LeaveRoomRequest(c, k) ==
  LET u == clients[c].user
  IN  /\ InSomeRoom(c)
      /\ Found(k)
      /\ HasPlayer(rooms[k], u)
      /\ Vacate(k, u)
      /\ clients' = [clients EXCEPT ![c].state = "LOGGED_IN"]

-----------------------------------------------------------------------------
\* find_client_index_by_user: the first client slot of user u.
IsFirstClientOf(c, u) ==
  /\ clients[c].user = u
  /\ \A d \in 1..(c - 1) : clients[d].user # u

\* Mutant: the loop begins with the second seat.
MarkGuests(r) ==
  [d \in Clients |->
     IF \E i \in Seats(r) \ {1} : IsFirstClientOf(d, r.players[i])
     THEN [clients[d] EXCEPT !.state = "IN_GAME"]
     ELSE clients[d]]

\* START_GAME marks one client, the first, of each user in the room.
MarkFirst(r) ==
  [d \in Clients |->
     IF \E i \in Seats(r) : IsFirstClientOf(d, r.players[i])
     THEN [clients[d] EXCEPT !.state = "IN_GAME"]
     ELSE clients[d]]

\* START_GAME, from a client in the IN_ROOM state whose user owns the room.
StartGame(c) ==
  LET u == clients[c].user
      k == RoomOfUser(u)
  IN  /\ clients[c].state = "IN_ROOM"
      /\ SlotsSeating(u) # {}
      /\ rooms[k].owner = u
      /\ CanStart(rooms[k])
      /\ rooms' = [rooms EXCEPT ![k] = FirstRound(RoomStartGame(rooms[k]))]
      /\ clients' = MarkFirst(rooms[k])
      /\ UNCHANGED <<slots, room_count>>

\* User u says the word: protocol_process_guess in the first room seating u.
SayWord(u) ==
  LET k == RoomOfUser(u)
  IN  /\ SlotsSeating(u) # {}
      /\ rooms[k].state = "PLAYING"
      /\ rooms[k].game.open
      /\ rooms[k].game.drawer # u
      /\ rooms' = [rooms EXCEPT ![k] = ProcessGuess(rooms[k], u)]
      /\ UNCHANGED <<clients, slots, room_count>>

\* GUESS_WORD asks for a client that plays.
GuessWord(c) == clients[c].state = "IN_GAME" /\ SayWord(clients[c].user)

\* CHAT_MESSAGE asks for a user, not for a state.
Chat(c) == clients[c].user # NoUser /\ SayWord(clients[c].user)

\* The rooms the tick looks at.
OpenRooms == {k \in RoomIds : rooms[k].state = "PLAYING" /\ rooms[k].game.open}

\* One pass of the tick: the time of any of the open rounds may be up.
Tick(expired) ==
  /\ expired # {}
  /\ expired \subseteq OpenRooms
  /\ rooms' = [k \in RoomIds |-> IF k \in expired THEN NextRound(rooms[k])
                                                  ELSE rooms[k]]
  /\ UNCHANGED <<clients, slots, room_count>>

Next ==
  \/ Connect
  \/ \E c \in Clients :
       \/ \E u \in Users : Login(c, u)
       \/ Logout(c)
       \/ Disconnect(c)
       \/ \E m \in RequestedSizes, n \in RequestedRounds : CreateRoom(c, m, n)
       \/ \E k \in RoomIds : JoinRoom(c, k)
       \/ \E k \in RoomIds : LeaveRoomRequest(c, k)
       \/ StartGame(c)
       \/ GuessWord(c)
       \/ Chat(c)
  \/ \E expired \in SUBSET RoomIds : Tick(expired)

SafeSpec == Init /\ [][Next]_vars

\* The tick finds the time of room k up, perhaps with that of other rooms.
TickOf(k) == \E expired \in SUBSET RoomIds : k \in expired /\ Tick(expired)

(***************************************************************************)
(* Every pass of the event loop, at least one a second, checks the clock   *)
(* of every room, so each open round is eventually timed out.  No client   *)
(* is obliged to do anything.                                              *)
(***************************************************************************)
Spec == SafeSpec /\ \A k \in RoomIds : WF_vars(TickOf(k))

-----------------------------------------------------------------------------
\* GameRoom's view of the room with the id AnyRoom.
R == INSTANCE GameRoom WITH room <- rooms[AnyRoom]

\* Sessions, rooms and slots keep their types; only sessions have a user.
TypeOK ==
  /\ clients \in [Clients -> [user : Users \cup {NoUser}, state : ClientStates]]
  /\ \A c \in Clients :
       clients[c].user = NoUser <=> clients[c].state \in {"CLOSED", "LOGGED_OUT"}
  /\ rooms \in [RoomIds -> RoomType]
  /\ \A k \in RoomIds : Len(rooms[k].active) = Len(rooms[k].players)
  /\ slots \in [Slots -> RoomIds \cup {EmptySlot}]
  /\ room_count \in 0..MaxRooms

(***************************************************************************)
(* The table of rooms: a room exists exactly as long as one slot, and only *)
(* one, points to it, so that a room without active players is never left  *)
(* behind and no slot points to a room that was destroyed.                 *)
(***************************************************************************)
SlotsHoldLiveRooms ==
  /\ \A k \in RoomIds : Live(rooms[k]) <=> Found(k)
  /\ \A s, t \in Slots : slots[s] = slots[t] /\ slots[s] # EmptySlot => s = t

\* room_count, kept by hand in five places, counts the slots that are in use:
\* otherwise CREATE_ROOM refuses rooms for which there is a slot.
RoomCountExact == room_count = Cardinality({s \in Slots : slots[s] # EmptySlot})

(***************************************************************************)
(* No matter how users log in twice, hop between rooms and disconnect, the *)
(* room with a given id, whichever it is, lives the life that GameRoom     *)
(* describes, so all that is shown of GameRoom holds of every room.        *)
(***************************************************************************)
EveryRoomIsAGameRoom == R!SafeSpec

(***************************************************************************)
(* A client that is in a room gets out of it by its own request or loss of *)
(* connection only: whatever the others do, logging in to the same account *)
(* included, its session stays as it is or moves from waiting to playing.  *)
(***************************************************************************)
PlayersAreNotKicked ==
  [][ \A c \in Clients :
        InSomeRoom(c) /\ ~InSomeRoom(c)' =>
          \/ Logout(c)
          \/ Disconnect(c)
          \/ \E u \in Users : Login(c, u)
          \/ \E k \in RoomIds : LeaveRoomRequest(c, k)
    ]_vars

\* Room k starts to play; START_GAME opens its first round, the join that fills
\* a room does not.
GameStarts(k) == rooms[k].state = "WAITING" /\ rooms'[k].state = "PLAYING"

(***************************************************************************)
(* When a game starts, every session of every user seated in the room may  *)
(* send GUESS_WORD from then on.  The one exception is a session that      *)
(* START_GAME misses because it is not the first of its user: then an      *)
(* earlier session of this user may, whatever room that one is in.         *)
(***************************************************************************)
StartReachesPlayers ==
  [][ \A k \in RoomIds : GameStarts(k) =>
        \A c \in Clients : HasPlayer(rooms'[k], clients'[c].user) =>
          \/ clients'[c].state = "IN_GAME"
          \/ /\ rooms'[k].game.open
             /\ \E d \in 1..(c - 1) : /\ clients'[d].user = clients'[c].user
                                      /\ clients'[d].state = "IN_GAME"
    ]_vars

(***************************************************************************)
(* A game whose first round began ends in every room, although one tick    *)
(* serves all rooms and clients may come and go between any two ticks.     *)
(***************************************************************************)
EveryGameEnds ==
  \A k \in RoomIds : rooms[k].game.open ~> rooms[k].state # "PLAYING"

=============================================================================
