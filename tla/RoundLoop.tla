----------------------------- MODULE RoundLoop -----------------------------
(***************************************************************************)
(* The loop in which protocol_handle_round_timeout looks for the next      *)
(* drawer, call by call, as game.c runs it: game_start_round may count a   *)
(* round, move the turn, find the seat empty and end the round again, or   *)
(* end the game.  Module Game states what the loop achieves in one step,   *)
(* NextRound; here the loop starts from every game the bounds allow and is *)
(* compared with it.                                                       *)
(***************************************************************************)
EXTENDS Game

CONSTANTS
  MaxSeats,    \* bound: the longest players[] the loop is started with
  MaxTotal     \* bound: the largest total_rounds it is started with

ASSUME LoopAssumption ==
  /\ MaxSeats \in 1..MaxPlayersPerRoom
  /\ MaxTotal \in 1..MaxWordsStack

VARIABLES
  start,       \* the room when protocol_handle_round_timeout is called
  room,        \* the room as the loop changes it
  game_ended,  \* room->game->game_ended
  attempts,    \* the calls of game_start_round that failed
  pc           \* "loop" until the handler returns, then "done"

vars == <<start, room, game_ended, attempts, pc>>

-----------------------------------------------------------------------------
\* Who may sit where: any users, all different.
Tables == {p \in UNION {[1..n -> Users] : n \in 1..MaxSeats} : IsInjective(p)}

\* A running game whose current round was just ended by game_end_round.
Playing(players, active, drawer_index, round, total) ==
  [NoRoom EXCEPT
     !.state = "PLAYING", !.owner = players[1], !.max_players = MaxSeats,
     !.total_rounds = 1, !.players = players, !.active = active,
     !.game = [round |-> round, total |-> total,
               drawer |-> players[drawer_index], drawer_index |-> drawer_index,
               open |-> FALSE, scores |-> NoGame.scores, guessed |-> <<>>]]

(***************************************************************************)
(* Any table, with one exception to what the server can reach: GameRoom    *)
(* shows that a running game has two active players, and here there may be *)
(* none, which is what the last branch of the loop was written for.        *)
(***************************************************************************)
Init ==
  /\ \E players \in Tables :
       \E active \in [1..Len(players) -> SeatStates],
          drawer_index \in 1..Len(players),
          total \in 1..MaxTotal :
         \E round \in 1..total :
           start = Playing(players, active, drawer_index, round, total)
  /\ room = start
  /\ game_ended = (start.game.round >= start.game.total)
  /\ attempts = 0
  /\ pc = "loop"

-----------------------------------------------------------------------------
MaxAttempts == Len(room.players) + 1

\* Mutant: the turn skips a seat.
SkipOneSeat(r) == ((r.game.drawer_index + 1) % Len(r.players)) + 1

PickNextDrawerIndex(r) == (r.game.drawer_index % Len(r.players)) + 1

\* The room once game_start_round has counted the round and moved the turn.
TurnMoved(r) ==
  LET seat == PickNextDrawerIndex(r)
  IN  [r EXCEPT !.game.round = @ + 1, !.game.drawer_index = seat,
                !.game.drawer = r.players[seat]]

\* Mutant: a seat whose player waits or has left is given a turn.
AnySeat(r) == TRUE

DrawerIsActive(r) == r.active[r.game.drawer_index] = "active"

\* protocol_handle_round_timeout finds game_ended and calls room_end_game.
Finish ==
  /\ pc = "loop"
  /\ game_ended
  /\ room' = RoomEndGame(room)
  /\ pc' = "done"
  /\ UNCHANGED <<start, game_ended, attempts>>

\* game_start_round succeeds: a word is assigned and the round is open.
StartRound ==
  /\ pc = "loop" /\ ~game_ended /\ attempts < MaxAttempts
  /\ room.game.round < room.game.total
  /\ DrawerIsActive(TurnMoved(room))
  /\ room' = [TurnMoved(room) EXCEPT !.game.open = TRUE, !.game.guessed = <<>>]
  /\ pc' = "done"
  /\ UNCHANGED <<start, game_ended, attempts>>

\* game_start_round finds the seat inactive and ends the round it has counted.
SkipRound ==
  /\ pc = "loop" /\ ~game_ended /\ attempts < MaxAttempts
  /\ room.game.round < room.game.total
  /\ ~DrawerIsActive(TurnMoved(room))
  /\ room' = TurnMoved(room)
  /\ game_ended' = (room'.game.round >= room.game.total)
  /\ attempts' = IF game_ended' THEN attempts ELSE attempts + 1
  /\ UNCHANGED <<start, pc>>

\* No call has opened a round: the game ends all the same.
GiveUp ==
  /\ pc = "loop" /\ ~game_ended /\ attempts >= MaxAttempts
  /\ game_ended' = TRUE
  /\ room' = RoomEndGame(room)
  /\ pc' = "done"
  /\ UNCHANGED <<start, attempts>>

Next == Finish \/ StartRound \/ SkipRound \/ GiveUp

Spec == Init /\ [][Next]_vars

-----------------------------------------------------------------------------
(***************************************************************************)
(* Whatever seats are active and however many rounds are left, the calls   *)
(* of game_start_round leave the room that NextRound promises.             *)
(***************************************************************************)
LoopAgrees == pc = "done" => room = NextRound(start)

(***************************************************************************)
(* As long as one player is active, fewer calls fail than there are seats: *)
(* the attempt limit of protocol_game.c:470 is never reached, and a game   *)
(* is never given up while somebody could draw.                            *)
(***************************************************************************)
SomebodyIsFound == ActiveSeats(start) # {} => attempts < Len(start.players)
=============================================================================
