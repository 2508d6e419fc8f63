------------------------------ MODULE GameRoom ------------------------------
(***************************************************************************)
(* The life of one room, from room_create to room_destroy, as its members  *)
(* and the server's tick drive it.  Each action is the part of a handler   *)
(* that touches the room; what the handler requires of the client's own    *)
(* session is the business of module Server, which composes many rooms     *)
(* and many clients and is shown to implement this specification.          *)
(*                                                                         *)
(* Time is abstracted: while a round is open its 30 seconds may elapse at  *)
(* any moment, so Timeout is enabled whenever the tick has a word to time. *)
(* A wrong guess changes nothing in the room and is a stuttering step.     *)
(***************************************************************************)
EXTENDS Game

CONSTANTS
  RequestedSizes,    \* values of max_players that CREATE_ROOM may carry
  RequestedRounds    \* values of rounds that CREATE_ROOM may carry

ASSUME RequestAssumption ==
  RequestedSizes \subseteq Nat /\ RequestedRounds \subseteq Nat

VARIABLE room

-----------------------------------------------------------------------------
Init == room = NoRoom

\* CREATE_ROOM by user u: the requested sizes are validated before room_create.
Create(u, m, n) ==
  /\ room.state = "NONE"
  /\ m \in 2..MaxPlayersPerRoom
  /\ n \in 1..10
  /\ room' = RoomCreate(u, m, n)

\* Mutant: nobody checks that the user already holds a seat.
JoinAgain(u) ==
  /\ Live(room)
  /\ ~IsFull(room)
  /\ room' = EnterRoom(room, u)

\* JOIN_ROOM by user u.
Join(u) ==
  /\ Live(room)
  /\ ~IsFull(room)
  /\ ~HasPlayer(room, u)
  /\ room' = EnterRoom(room, u)

\* START_GAME by user u: the game and its first round begin in one handler.
Start(u) ==
  /\ u = room.owner
  /\ CanStart(room)
  /\ room' = FirstRound(RoomStartGame(room))

(***************************************************************************)
(* A correct guess by user u, sent as GUESS_WORD or typed into the chat.   *)
(* Whoever has a seat is heard, a player who waits or has left included.   *)
(***************************************************************************)
Guess(u) ==
  /\ room.state = "PLAYING"
  /\ room.game.open
  /\ HasPlayer(room, u)
  /\ u # room.game.drawer
  /\ room' = ProcessGuess(room, u)

\* The tick of server_event_loop finds that the round's time is up.
Timeout ==
  /\ room.state = "PLAYING"
  /\ room.game.open
  /\ room' = NextRound(room)

\* LEAVE_ROOM, LOGOUT or a lost connection of user u.
Leave(u) ==
  /\ Live(room)
  /\ HasPlayer(room, u)
  /\ room' = LeaveRoom(room, u)

Next ==
  \/ \E u \in Users, m \in RequestedSizes, n \in RequestedRounds : Create(u, m, n)
  \/ \E u \in Users : Join(u)
  \/ \E u \in Users : Start(u)
  \/ \E u \in Users : Guess(u)
  \/ \E u \in Users : Leave(u)
  \/ Timeout

SafeSpec == Init /\ [][Next]_room

(***************************************************************************)
(* The event loop wakes up at least once a second and checks every playing *)
(* room, so an open round is eventually timed out.  Nobody is obliged to   *)
(* join, start, guess or leave.                                            *)
(***************************************************************************)
Spec == SafeSpec /\ WF_room(Timeout)

-----------------------------------------------------------------------------
\* Every field keeps its type and the two seat arrays keep the same length.
TypeOK == room \in RoomType /\ Len(room.active) = Len(room.players)

(***************************************************************************)
(* No user ever holds two seats and no seat beyond max_players is taken:   *)
(* server_find_room_by_user, the score table and the loops that stop at    *)
(* the first match all rely on it, through joins, array shifts and seats   *)
(* that stay behind after their player left.                               *)
(***************************************************************************)
OneSeatPerUser ==
  /\ \A i, j \in Seats(room) : room.players[i] = room.players[j] => i = j
  /\ Len(room.players) <= room.max_players

(***************************************************************************)
(* A room that exists is owned by a player who is active in it, whatever   *)
(* the order in which owners join, leave, or leave while a game runs;      *)
(* otherwise nobody could ever start its game.                             *)
(***************************************************************************)
OwnerIsActive == Live(room) => IsActive(room, room.owner)

(***************************************************************************)
(* While a round is open its drawer sits at drawer_index and has not left, *)
(* so somebody can draw the word the others are asked to guess: the leave  *)
(* code replaces the round of a drawer who goes.                           *)
(***************************************************************************)
DrawerIsPlaying ==
  room.game.open =>
    /\ room.game.drawer_index \in Seats(room)
    /\ room.players[room.game.drawer_index] = room.game.drawer
    /\ room.active[room.game.drawer_index] = "active"

\* A running game never continues with fewer than two active players.
GameHasTwoPlayers == room.state = "PLAYING" => ActiveCount(room) >= 2

(***************************************************************************)
(* Once its first round has begun, a game always has an open round between *)
(* handlers (ending a round and starting the next, or ending the game, is  *)
(* one handler), and no game state outlives the PLAYING state.             *)
(***************************************************************************)
RoundAlwaysOpen ==
  /\ (room.state = "PLAYING") = (room.game # NoGame)
  /\ room.state = "PLAYING" /\ room.game.round > 0 => room.game.open

(***************************************************************************)
(* The list guessed_user_ids of an open round holds distinct seated users  *)
(* other than the drawer, each with a score entry, so that nobody is paid  *)
(* twice for one word and the array of MAX_PLAYERS_PER_ROOM ids is never   *)
(* full; the drawer, who is paid too, has a score entry.                   *)
(***************************************************************************)
PaidOncePerRound ==
  LET g == room.game
  IN  g.open =>
        /\ g.scores[g.drawer] # NoEntry
        /\ \A i \in 1..Len(g.guessed) :
             /\ HasPlayer(room, g.guessed[i])
             /\ g.guessed[i] # g.drawer
             /\ g.scores[g.guessed[i]] # NoEntry
        /\ \A i, j \in 1..Len(g.guessed) : g.guessed[i] = g.guessed[j] => i = j

\* No game plays more rounds than were fixed when it started.
RoundsBounded == room.game.round <= room.game.total

\* From one open round of the old room to another of the new.
TurnInOrder(old, new) ==
  LET k == new.game.round - old.game.round
  IN  old.game.open /\ new.game.open /\ k # 0 =>
        /\ k > 0
        /\ new.game.drawer_index = SeatAfter(old, k)
        /\ \A j \in 1..(k - 1) : new.active[SeatAfter(old, j)] # "active"

(***************************************************************************)
(* When one open round gives way to another, play moves on to the nearest  *)
(* following seat that is active: every seat passed over is one whose      *)
(* player waits or has left, and each seat passed over costs one round.    *)
(***************************************************************************)
TurnPassesInOrder == [][TurnInOrder(room, room')]_room

\* Two score tables with entries for the same users.
SameTable(old, new) == \A u \in Users : (old[u] = NoEntry) = (new[u] = NoEntry)

\* While one game goes on and the table has the same entries, nobody loses points.
KeepsScores(old, new) ==
  (/\ old.state = "PLAYING" /\ new.state = "PLAYING"
   /\ SameTable(old.game.scores, new.game.scores))
  => \A u \in Users : new.game.scores[u] >= old.game.scores[u]

(***************************************************************************)
(* Within one game scores only grow, as long as everyone who scores was in *)
(* the room when the game started (then no entry joins the score table).   *)
(***************************************************************************)
ScoresGrow == [][KeepsScores(room, room')]_room

\* Those who have found the word once user u's guess is in.
Finders(u) ==
  {u} \cup {room.game.guessed[i] : i \in 1..Len(room.game.guessed)}

EveryoneFound(u) ==
  \A v \in Users \ {room.game.drawer} : IsActive(room, v) => v \in Finders(u)

EndIsEarned(u) == EveryoneFound(u) \/ \E f \in Finders(u) : ~IsActive(room, f)

(***************************************************************************)
(* A guess closes the round only when every active guesser has found the   *)
(* word, or when someone counted among the finders is not an active        *)
(* guesser (a player who waits, or who left after guessing).               *)
(***************************************************************************)
EarlyEndIsEarned ==
  [][ \A u \in Users :
        Guess(u) /\ room'.game.round # room.game.round => EndIsEarned(u)
    ]_room

(***************************************************************************)
(* Every game whose first round began comes to an end: rounds time out,    *)
(* each round that ends is counted, and seats nobody occupies are passed   *)
(* over, even if players join and leave all the time.                      *)
(***************************************************************************)
GameEnds == room.game.open ~> ~(room.state = "PLAYING")

-----------------------------------------------------------------------------
(***************************************************************************)
(* protocol_room.c:702 and the design documents say, and the code does not *)
(* do: a room that fills up starts its game by itself.  A game that runs   *)
(* without an open round has no drawer, no word and no timer.              *)
(***************************************************************************)
FullRoomPlays == room.state = "PLAYING" => room.game.open
=============================================================================
