-------------------------------- MODULE Game --------------------------------
(***************************************************************************)
(* The game_state_t of src/src/include/game.h: rounds, drawer rotation,    *)
(* guesses and scores, from src/src/server/game.c, together with the       *)
(* steps that src/src/server/protocol_game.c and the three copies of the   *)
(* leave code build from them.                                             *)
(*                                                                         *)
(* A game is a field of its room, as in the code, and the operators map    *)
(* rooms to rooms because rotation and scoring read players[] and          *)
(* active_players[].  The secret word is abstracted to the flag open ("a   *)
(* word is set and the timer runs"): what matters is whether a guess hits  *)
(* it.  game_ended never survives the handler that sets it (the room is    *)
(* FINISHED and the game freed in the same handler), so it is not a field. *)
(***************************************************************************)
EXTENDS Room

CONSTANT
  MaxWordsStack   \* MAX_WORDS_STACK, the cap on the number of rounds

ASSUME GameAssumption == MaxWordsStack \in Nat \ {0}

\* The types of game_state_t and room_t.
ScoreTables == [Users -> Nat \cup {NoEntry}]

GameType ==
  [round : Nat, total : Nat, drawer : Users \cup {NoUser},
   drawer_index : Nat \ {0}, open : BOOLEAN, scores : ScoreTables,
   guessed : Seq(Users)]

RoomType ==
  [state : RoomStates, owner : Users \cup {NoUser},
   max_players : 0..MaxPlayersPerRoom, total_rounds : 0..10,
   players : Seq(Users), active : Seq(SeatStates), game : GameType]

-----------------------------------------------------------------------------
GuesserPoints(order) ==
  CASE order = 1 -> 10 [] order = 2 -> 7 [] order = 3 -> 5 [] OTHER -> 3

DrawerPoints(order) ==
  CASE order = 1 -> 5 [] order = 2 -> 4 [] order = 3 -> 3 [] OTHER -> 2

\* ensure_scores_initialized: one zero entry for every seat taken now.
ZeroScores(r) == [u \in Users |-> IF HasPlayer(r, u) THEN 0 ELSE NoEntry]

-----------------------------------------------------------------------------
\* The number of rounds is fixed once, from the players present at the start.
GameInit(r) ==
  [round |-> 0,
   total |-> Min({Len(r.players) * r.total_rounds, MaxWordsStack}),
   drawer |-> NoUser,
   drawer_index |-> IF HasPlayer(r, r.owner) THEN SeatOf(r, r.owner) ELSE 1,
   open |-> FALSE, scores |-> ZeroScores(r), guessed |-> <<>>]

CanStart(r) == r.state = "WAITING" /\ Len(r.players) >= 2

RoomStartGame(r) ==
  LET s == [r EXCEPT !.state = "PLAYING",
                     !.active = [i \in Seats(r) |-> "active"]]
  IN  [s EXCEPT !.game = GameInit(s)]

\* The seat that is k places after the current drawer's, wrapping around.
SeatAfter(r, k) == ((r.game.drawer_index - 1 + k) % Len(r.players)) + 1

OpenRound(r, round, seat) ==
  [r EXCEPT !.game.round = round, !.game.drawer_index = seat,
            !.game.drawer = r.players[seat], !.game.open = TRUE,
            !.game.guessed = <<>>]

\* game_start_round of a game that has not begun: the owner draws first.
FirstRound(r) == OpenRound(r, 1, r.game.drawer_index)

\* Mutant: the comparison with total_rounds lets one round too many start.
OneRoundMore(r) == r.game.total - r.game.round + 1

RoundsLeft(r) == r.game.total - r.game.round

\* The calls of game_start_round, counted from 1, that would open a round.
Attempts(r) ==
  {k \in 1..RoundsLeft(r) : /\ k <= Len(r.players) + 1
                            /\ r.active[SeatAfter(r, k)] = "active"}

\* Mutant: the round ends but no new one is started.
EndRoundOnly(r) == [r EXCEPT !.game.open = FALSE]

\* Mutant: the turn goes to the last seat that could take it.
FarthestRound(r) ==
  IF Attempts(r) = {}
  THEN RoomEndGame(r)
  ELSE LET k == Max(Attempts(r))
       IN  OpenRound(r, r.game.round + k, SeatAfter(r, k))

\* Mutant: the next round starts without being counted.
UncountedRound(r) ==
  IF Attempts(r) = {}
  THEN RoomEndGame(r)
  ELSE OpenRound(r, r.game.round, SeatAfter(r, Min(Attempts(r))))

(***************************************************************************)
(* protocol_handle_round_timeout after game_end_round.  The code calls     *)
(* game_start_round up to player_count + 1 times; each call counts one     *)
(* more round, moves the drawer one seat on, and fails when that seat is   *)
(* not active, which ends the game if it was the last round.  The loop     *)
(* therefore stops at the first attempt that finds an active seat while    *)
(* rounds are left, and ends the game if there is none.                    *)
(***************************************************************************)
NextRound(r) ==
  IF Attempts(r) = {}
  THEN RoomEndGame(r)
  ELSE LET k == Min(Attempts(r))
       IN  OpenRound(r, r.game.round + k, SeatAfter(r, k))

-----------------------------------------------------------------------------
\* Mutant: the list of those who have guessed is not consulted.
NobodyHasGuessed(r, u) == FALSE

HasGuessed(r, u) == \E i \in 1..Len(r.game.guessed) : r.game.guessed[i] = u

\* Mutant: the score table is rebuilt before every award.
AddPointsToZero(r, scores, u, points) == [ZeroScores(r) EXCEPT ![u] = @ + points]

\* A user without a score entry makes the code rebuild the table from zero.
AddPoints(r, scores, u, points) ==
  LET table == IF scores[u] # NoEntry THEN scores ELSE ZeroScores(r)
  IN  [table EXCEPT ![u] = @ + points]

\* game_handle_guess for a guess that equals the word.
GameHandleGuess(r, u) ==
  LET g     == r.game
      order == Len(g.guessed) + 1
      mine  == AddPoints(r, g.scores, u, GuesserPoints(order))
  IN  IF HasGuessed(r, u)
      THEN r
      ELSE [r EXCEPT
              !.game.scores  = AddPoints(r, mine, g.drawer, DrawerPoints(order)),
              !.game.guessed = IF Len(@) < MaxPlayersPerRoom
                               THEN Append(@, u) ELSE @]

\* The players whose guesses protocol_process_guess waits for.
ActiveGuessers(r) == {i \in ActiveSeats(r) : r.players[i] # r.game.drawer}

\* Mutant: the drawer is counted among those who have found the word.
AllFoundButOne(r) ==
  /\ ActiveGuessers(r) # {}
  /\ Len(r.game.guessed) + 1 >= Cardinality(ActiveGuessers(r))

\* As many guesses are in as there are active guessers.
AllFound(r) ==
  /\ ActiveGuessers(r) # {}
  /\ Len(r.game.guessed) >= Cardinality(ActiveGuessers(r))

\* protocol_process_guess: score the guess, then perhaps end the round early.
ProcessGuess(r, u) ==
  LET s == GameHandleGuess(r, u)
  IN  IF AllFound(s) THEN NextRound(s) ELSE s

\* Mutant: nobody notices that it is the drawer who leaves.
NoDrawerCheck(r, u) == FALSE

RoundOfDrawer(r, u) ==
  r.state = "PLAYING" /\ r.game.open /\ r.game.drawer = u

\* Mutant: a game goes on with one player.
NobodyLeft(r) == ActiveCount(r) < 1

TooFewToPlay(r) == ActiveCount(r) < 2

(***************************************************************************)
(* What JOIN_ROOM does to a room.  A waiting room that becomes full starts *)
(* its game, but, unlike START_GAME, does not start the first round.       *)
(***************************************************************************)
EnterRoom(r, u) ==
  LET s == RoomAddPlayer(r, u)
  IN  IF IsFull(s) /\ CanStart(s) THEN RoomStartGame(s) ELSE s

(***************************************************************************)
(* What LEAVE_ROOM, LOGOUT and a disconnect all do to the room of user u:  *)
(* a game with fewer than two active players ends, a room without active   *)
(* players is destroyed, an owner is ensured, and the round of a drawer    *)
(* who leaves is replaced by the next one.                                 *)
(***************************************************************************)
LeaveRoom(r, u) ==
  LET s == RoomRemovePlayer(r, u)
      endGame == r.state = "PLAYING" /\ TooFewToPlay(s)
      kept == EnsureActiveOwner(IF endGame THEN RoomEndGame(s) ELSE s)
  IN  IF ActiveSeats(s) = {} THEN Destroyed
      ELSE IF RoundOfDrawer(r, u) /\ ~endGame THEN NextRound(kept)
      ELSE kept
=============================================================================
