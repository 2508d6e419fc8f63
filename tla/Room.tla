-------------------------------- MODULE Room --------------------------------
(***************************************************************************)
(* The room_t of src/src/include/room.h and the operations of              *)
(* src/src/server/room.c that change its membership, as operators on       *)
(* records.  Every server handler runs to completion inside the single     *)
(* select() loop, so a handler is a function from the room it finds to the *)
(* room it leaves behind; the modules that EXTEND this one compose those   *)
(* functions into atomic actions.                                          *)
(*                                                                         *)
(* players[] and active_players[] are the two parallel sequences players   *)
(* and active; player_count is Len(players).  The room's name, difficulty, *)
(* creation time and database ids play no part in membership and are left  *)
(* out.                                                                    *)
(***************************************************************************)
EXTENDS Integers, Sequences, FiniteSets, SequencesExt

CONSTANTS
  Users,              \* the registered user ids
  NoUser,             \* the user id -1: nobody
  MaxPlayersPerRoom   \* MAX_PLAYERS_PER_ROOM, the size of players[]

ASSUME RoomAssumption ==
  /\ NoUser \notin Users
  /\ MaxPlayersPerRoom \in Nat
  /\ MaxPlayersPerRoom >= 2

(***************************************************************************)
(* active_players[i] is 1 (playing), 0 (joined while a game was running)   *)
(* or -1 (left while a game was running; the seat is kept).                *)
(***************************************************************************)
SeatStates == {"active", "waiting", "left"}

RoomStates == {"NONE", "WAITING", "PLAYING", "FINISHED", "DESTROYED"}

\* A user without an entry in the score table.
NoEntry == -1

\* room->game is a null pointer: no game_state_t is allocated.
NoGame == [round |-> 0, total |-> 0, drawer |-> NoUser, drawer_index |-> 1,
           open |-> FALSE, scores |-> [u \in Users |-> NoEntry], guessed |-> <<>>]

\* The room before room_create, and after room_destroy.
NoRoom == [state |-> "NONE", owner |-> NoUser, max_players |-> 0,
           total_rounds |-> 0, players |-> <<>>, active |-> <<>>,
           game |-> NoGame]

Destroyed == [NoRoom EXCEPT !.state = "DESTROYED"]

Live(r) == r.state \in {"WAITING", "PLAYING", "FINISHED"}

-----------------------------------------------------------------------------
Seats(r) == 1..Len(r.players)

HasPlayer(r, u) == \E i \in Seats(r) : r.players[i] = u

\* The loops over players[] stop at the first match.
SeatOf(r, u) == Min({i \in Seats(r) : r.players[i] = u})

ActiveSeats(r) == {i \in Seats(r) : r.active[i] = "active"}

ActiveCount(r) == Cardinality(ActiveSeats(r))

IsActive(r, u) == \E i \in ActiveSeats(r) : r.players[i] = u

IsFull(r) == Len(r.players) >= r.max_players

\* Mutant: the owner role goes to the lowest seat, active or not.
FirstSeat(r) == r.players[1]

\* The owner role goes to the active player in the lowest seat.
FirstActive(r) == r.players[Min(ActiveSeats(r))]

-----------------------------------------------------------------------------
RoomCreate(u, m, n) ==
  [state |-> "WAITING", owner |-> u, max_players |-> m, total_rounds |-> n,
   players |-> <<u>>, active |-> <<"active">>, game |-> NoGame]

\* A player who joins during a game waits; otherwise the seat is active.
RoomAddPlayer(r, u) ==
  [r EXCEPT !.players = Append(@, u),
            !.active  = Append(@, IF r.state = "PLAYING" THEN "waiting"
                                                         ELSE "active")]

\* Hand the room over when its owner u has gone and somebody active is left.
PassOwnership(r, u) ==
  IF u = r.owner /\ ActiveSeats(r) # {}
  THEN [r EXCEPT !.owner = FirstActive(r)]
  ELSE r

\* Mutant: active_players[] is not shifted along with players[].
RemoveShiftsOneArray(r, u) ==
  LET i == SeatOf(r, u)
  IN  IF r.state = "PLAYING"
      THEN PassOwnership([r EXCEPT !.active[i] = "left"], u)
      ELSE PassOwnership([r EXCEPT !.players = RemoveAt(@, i)], u)

(***************************************************************************)
(* During a game the seat is kept and only marked; otherwise the arrays    *)
(* are shifted down over it.                                               *)
(***************************************************************************)
RoomRemovePlayer(r, u) ==
  LET i == SeatOf(r, u)
  IN  PassOwnership(
        IF r.state = "PLAYING"
        THEN [r EXCEPT !.active[i] = "left"]
        ELSE [r EXCEPT !.players = RemoveAt(@, i),
                       !.active  = RemoveAt(@, i)],
        u)

\* room_ensure_active_owner: its result FALSE is ActiveSeats(r) = {}.
EnsureActiveOwner(r) ==
  IF IsActive(r, r.owner) \/ ActiveSeats(r) = {}
  THEN r
  ELSE [r EXCEPT !.owner = FirstActive(r)]

\* room_end_game: the game state is freed and the room never WAITS again.
RoomEndGame(r) == [r EXCEPT !.state = "FINISHED", !.game = NoGame]
=============================================================================
