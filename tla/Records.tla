------------------------------ MODULE Records ------------------------------
(***************************************************************************)
(* What the server writes to the database about a room and its games, next *)
(* to the room itself: the db_room_id, db_player_ids[] and db_round_id     *)
(* that tie the two together, outages of the database at any statement,    *)
(* and restarts of the server, which forgets everything but the tables.    *)
(*                                                                         *)
(* Rooms follow one another; each lives as in GameRoom, and the handlers   *)
(* differ from those of GameRoom only in the statements they execute.      *)
(***************************************************************************)
EXTENDS GameRoom, Database

CONSTANTS
  MaxRoomIds,    \* bound: how many rooms a server creates
  MaxRestarts,   \* bound: how often the server is started again
  MaxSeatRows,   \* bound: how many rows room_players may get
  MaxTexts,      \* bound: how many wrong guesses and messages are stored
  MaxOutages,    \* bound: how often the database is lost
  Fuses          \* after how many more statements it may be lost

ASSUME RecordsAssumption ==
  /\ {MaxRoomIds, MaxRestarts, MaxSeatRows, MaxTexts, MaxOutages} \subseteq Nat
  /\ Fuses \subseteq Nat

VARIABLES
  ids,               \* what the server remembers of rows: see NoIds
  database,          \* the link and the tables
  restarts, outages  \* how often each has happened

bounds == <<restarts, outages>>
recordVars == <<room, ids, database, bounds>>

\* next_room_id, and of the present room db_room_id, db_player_ids[] and its
\* game's db_round_id; 0 stands for no row.
NoIds == [next_room_id |-> 1, room |-> 0, players |-> <<>>, round |-> 0]

RecordsInit ==
  /\ Init
  /\ ids = NoIds
  /\ database = EmptyDatabase
  /\ restarts = 0 /\ outages = 0

\* The end of a handler: a process that has crashed has forgotten everything.
Finish(r, i, d) ==
  /\ database' = [d EXCEPT !.id = 0]
  /\ room' = IF d.crashed THEN NoRoom ELSE r
  /\ ids' = IF d.crashed THEN NoIds ELSE i
  /\ UNCHANGED bounds

Running == ~database.crashed

-----------------------------------------------------------------------------
\* room_player_db_id
PlayerRow(u) == IF HasPlayer(room, u) THEN ids.players[SeatOf(room, u)] ELSE 0

\* The row of user u who takes a seat, if the room has a row itself.
SeatRow(d, db_room_id, u, order) ==
  IF db_room_id > 0
  THEN Insert(d, "room_players", [room |-> db_room_id, user |-> u, order |-> order])
  ELSE [d EXCEPT !.id = 0]

\* CREATE_ROOM: a row for the room, then one for the seat of its owner.
CreateRoom(u, m, n) ==
  LET d == Insert(database, "rooms", [code |-> ids.next_room_id, status |-> "waiting"])
      e == SeatRow(d, d.id, u, 1)
  IN  /\ Running /\ ~Live(room)
      /\ ids.next_room_id <= MaxRoomIds
      /\ m \in 2..MaxPlayersPerRoom /\ n \in 1..10
      /\ Finish(RoomCreate(u, m, n),
                [next_room_id |-> ids.next_room_id + 1, room |-> d.id,
                 players |-> <<e.id>>, round |-> 0], e)

\* Mutant: only a row that could be written is remembered.
RememberRow(d) == IF d.id > 0 THEN Append(ids.players, d.id) ELSE ids.players

\* db_player_ids[player_count] becomes the id of the new row, or stays 0.
RememberSeat(d) == Append(ids.players, d.id)

\* JOIN_ROOM; a game that starts by itself selects its words.
JoinRoom(u) ==
  LET r == EnterRoom(room, u)
      d == SeatRow(database, ids.room, u, Len(r.players))
  IN  /\ Running /\ Live(room) /\ ~IsFull(room) /\ ~HasPlayer(room, u)
      /\ Len(database.room_players) < MaxSeatRows
      /\ Finish(r, [ids EXCEPT !.players = RememberSeat(d)],
                IF room.state = r.state THEN d ELSE Select(d))

(***************************************************************************)
(* START_GAME: the words, the row of the first round if the drawer has a   *)
(* row, and the status of the room, by a statement that reconnects.        *)
(***************************************************************************)
StartGame(u) ==
  LET r == FirstRound(RoomStartGame(room))
      words == Select(database)
      row == [room |-> ids.room, round |-> r.game.round, draw |-> PlayerRow(r.game.drawer)]
      d == IF ids.room > 0 /\ row.draw > 0 THEN Insert(words, "game_rounds", row)
           ELSE [words EXCEPT !.id = 0]
  IN  /\ Running /\ u = room.owner /\ CanStart(room)
      /\ Finish(r, [ids EXCEPT !.round = d.id],
                IF ids.room > 0 THEN MarkInProgress(d, ids.room) ELSE d)

-----------------------------------------------------------------------------
\* The seats with an entry in the score table, which is in the order of the seats.
ScoringSeats(r) == {i \in Seats(r) : r.game.scores[r.players[i]] # NoEntry}

\* The stable bubble sort by falling score puts the entry of seat j before that of i.
SortsBefore(r, j, i) ==
  LET a == r.game.scores[r.players[j]]  b == r.game.scores[r.players[i]]
  IN  a > b \/ (a = b /\ j < i)

SortedPlace(r, i) == 1 + Cardinality({j \in ScoringSeats(r) : SortsBefore(r, j, i)})

HistoryRow(r, i, k) ==
  [user |-> r.players[i], score |-> r.game.scores[r.players[i]], rank |-> k]

\* Mutant: the ranks are given before the entries are sorted.
UnsortedHistory(r) ==
  [k \in 1..Cardinality(ScoringSeats(r)) |->
     HistoryRow(r, CHOOSE i \in ScoringSeats(r) :
                     Cardinality({j \in ScoringSeats(r) : j <= i}) = k, k)]

\* The rows that protocol_broadcast_game_end saves: ranks count from 1.
HistoryRows(r) ==
  [k \in 1..Cardinality(ScoringSeats(r)) |->
     HistoryRow(r, CHOOSE i \in ScoringSeats(r) : SortedPlace(r, i) = k, k)]

\* The game of room r, if it is over in the room after: its history is saved.
SaveIfOver(d, r, after) ==
  IF r.state = "PLAYING" /\ after.state # "PLAYING"
  THEN SaveGameHistory(d, HistoryRows(r)) ELSE d

\* db_round_id is lost with the game.
ForgetRound(i, r) == IF r.state = "PLAYING" THEN i ELSE [i EXCEPT !.round = 0]

\* A row about user u and the round whose row is remembered, if both have one.
SaveIfKnown(d, table, u, row) ==
  IF ids.round > 0 /\ PlayerRow(u) > 0 THEN Save(d, table, row) ELSE d

GuessRow(u, hit) == [round |-> ids.round, player |-> PlayerRow(u), correct |-> hit]

ScoreRow(u, n) == [round |-> ids.round, player |-> PlayerRow(u), score |-> n]

(***************************************************************************)
(* A correct guess: the guess, the points of both (of the present order,   *)
(* also when the guess is a repeated one), and the history of a game that  *)
(* it ends.                                                                *)
(***************************************************************************)
GuessRight(u) ==
  LET s == GameHandleGuess(room, u)
      r == ProcessGuess(room, u)
      order == Len(s.game.guessed)
      d == SaveIfKnown(database, "guesses", u, GuessRow(u, TRUE))
      e == SaveIfKnown(d, "score_details", u, ScoreRow(u, GuesserPoints(order)))
      f == SaveIfKnown(e, "score_details", s.game.drawer,
                       ScoreRow(s.game.drawer, DrawerPoints(order)))
  IN  /\ Running /\ room.state = "PLAYING" /\ room.game.open
      /\ HasPlayer(room, u) /\ u # room.game.drawer
      /\ Finish(r, ForgetRound(ids, r), SaveIfOver(f, s, r))

\* The bound on texts.
MoreTexts ==
  Cardinality({g \in database.guesses : ~g.correct} \cup database.chat_messages) < MaxTexts

\* A chat message that is not the word is first tried as a guess, in an open
\* round and not for the drawer.
MayGuess(u) ==
  room.state = "PLAYING" /\ room.game.open /\ HasPlayer(room, u) /\ u # room.game.drawer

SaveWrongGuess(u) ==
  IF MayGuess(u) THEN SaveIfKnown(database, "guesses", u, GuessRow(u, FALSE)) ELSE database

\* GUESS_WORD with a word that is wrong, or with any word from the drawer:
\* game_handle_guess refuses both, and what it refuses is stored as wrong.
GuessWrong(u) ==
  /\ Running /\ MoreTexts
  /\ room.state = "PLAYING" /\ HasPlayer(room, u)
  /\ Finish(room, ids, SaveIfKnown(database, "guesses", u, GuessRow(u, FALSE)))

\* Mutant: the row names the room by its room_id.
ChatRowOfId(u) == [room |-> ids.next_room_id - 1, player |-> PlayerRow(u)]

ChatRow(u) == [room |-> ids.room, player |-> PlayerRow(u)]

\* A CHAT_MESSAGE that is not the word.
Chat(u) ==
  /\ Running /\ MoreTexts /\ Live(room) /\ HasPlayer(room, u)
  /\ Finish(room, ids,
            IF ids.room > 0 /\ PlayerRow(u) > 0
            THEN SaveReconnecting(SaveWrongGuess(u), "chat_messages", ChatRow(u))
            ELSE SaveWrongGuess(u))

RoundTimeout ==
  LET r == NextRound(room)
  IN  /\ Running /\ room.state = "PLAYING" /\ room.game.open
      /\ Finish(r, ForgetRound(ids, r), SaveIfOver(database, room, r))

\* Mutant: db_player_ids[] is not shifted, only cut.
CutLast(u) == RemoveAt(ids.players, Len(ids.players))

\* db_player_ids[] is shifted along with players[].
ShiftDown(u) == RemoveAt(ids.players, SeatOf(room, u))

LeaveRoomOf(u) ==
  LET r == LeaveRoom(room, u)
      i == IF ~Live(r) THEN [NoIds EXCEPT !.next_room_id = ids.next_room_id]
           ELSE IF room.state = "PLAYING" THEN ids
           ELSE [ids EXCEPT !.players = ShiftDown(u)]
  IN  /\ Running /\ Live(room) /\ HasPlayer(room, u)
      /\ Finish(r, ForgetRound(i, r), SaveIfOver(database, room, r))

-----------------------------------------------------------------------------
\* The requests about accounts and histories touch the link and no room.
Account ==
  /\ Running
  /\ \E d \in {Query(database), RegisterUser(database), ChangePassword(database),
               Select(database)} : Finish(room, ids, d)

\* The database will be lost after k more statements.
Lose(k) ==
  /\ database.fuse = NoFuse /\ outages < MaxOutages
  /\ outages' = outages + 1
  /\ database' = [database EXCEPT !.fuse = k]
  /\ UNCHANGED <<room, ids, restarts>>

\* The database is back; nobody tells the server.
Recover ==
  /\ database.fuse = 0
  /\ database' = [database EXCEPT !.fuse = NoFuse]
  /\ UNCHANGED <<room, ids, bounds>>

(***************************************************************************)
(* The server is started, after a crash or because it was stopped.         *)
(* Without a database it runs with db a null pointer until it is stopped.  *)
(***************************************************************************)
Restart ==
  /\ restarts < MaxRestarts
  /\ restarts' = restarts + 1
  /\ room' = NoRoom /\ ids' = NoIds
  /\ database' = [database EXCEPT !.crashed = FALSE,
                                  !.link = IF Answers(database) THEN "open" ELSE "none"]
  /\ UNCHANGED outages

RecordsNext ==
  \/ \E u \in Users, m \in RequestedSizes, n \in RequestedRounds : CreateRoom(u, m, n)
  \/ \E u \in Users :
       \/ JoinRoom(u) \/ StartGame(u) \/ LeaveRoomOf(u)
       \/ GuessRight(u) \/ GuessWrong(u) \/ Chat(u)
  \/ RoundTimeout
  \/ Account
  \/ \E k \in Fuses : Lose(k)
  \/ Recover \/ Restart

RecordsSpec == RecordsInit /\ [][RecordsNext]_recordVars

-----------------------------------------------------------------------------
\* Rooms, rows and the memory of rows keep their types, one id to a seat.
RecordsTypeOK ==
  /\ TypeOK
  /\ ids \in [next_room_id : Nat \ {0}, room : 0..Len(database.rooms),
              players : Seq(0..Len(database.room_players)),
              round : 0..Len(database.game_rounds)]
  /\ Len(ids.players) = Len(room.players)
  /\ database.link \in Links /\ database.fuse \in {NoFuse} \cup Nat

(***************************************************************************)
(* The id remembered for a seat is 0 or that of a row of this room and of  *)
(* the user in that seat, although seats shift when somebody leaves, rows  *)
(* may fail to be written and other rooms have come and gone: guesses and  *)
(* points are never stored under another player's name.                    *)
(***************************************************************************)
SeatsHaveTheirRows ==
  \A i \in Seats(room) :
    LET p == ids.players[i]
    IN  p > 0 => /\ database.room_players[p].room = ids.room
                 /\ database.room_players[p].user = room.players[i]

\* The room of the player and that of the round of a row are the same one.
SameRoom(row) ==
  database.game_rounds[row.round].room = database.room_players[row.player].room

(***************************************************************************)
(* Guesses, points, rounds and chat messages join players and rounds of    *)
(* one and the same room, through outages and restarts that give the same  *)
(* room_id to different rows.                                              *)
(***************************************************************************)
RowsFitTogether ==
  /\ \A row \in database.guesses \cup database.score_details : SameRoom(row)
  /\ \A k \in 1..Len(database.game_rounds) :
       LET row == database.game_rounds[k]
       IN  database.room_players[row.draw].room = row.room
  /\ \A row \in database.chat_messages : database.room_players[row.player].room = row.room

\* The rows that a step adds to game_history.
NewHistory ==
  SubSeq(database'.game_history, Len(database.game_history) + 1, Len(database'.game_history))

\* The score tables a game may end with: as it is, or after one more guess.
LastTables ==
  {room.game.scores} \cup
  {GameHandleGuess(room, u).game.scores : u \in {v \in Users : MayGuess(v)}}

\* One row for each entry of the score table t, ranked from 1 by falling score.
IsHistoryOf(t, rows) ==
  /\ Len(rows) = Cardinality({u \in Users : t[u] # NoEntry})
  /\ \A k \in 1..Len(rows) : rows[k].score = t[rows[k].user] /\ rows[k].rank = k
  /\ \A j, k \in 1..Len(rows) :
       j < k => rows[k].user # rows[j].user /\ rows[k].score <= rows[j].score

\* A step that ends a game while the database answers stores its history.
HistoryStep ==
  /\ room.state = "PLAYING" /\ room'.state \in {"FINISHED", "DESTROYED"}
  /\ Ready(database) /\ Ready(database')
  => \E t \in LastTables : IsHistoryOf(t, NewHistory)

(***************************************************************************)
(* However a game ends (its rounds are over, the last word is found,       *)
(* players leave, all leave), everyone in its score table gets one row in  *)
(* the history with the final score, ranked from 1 by falling score, if    *)
(* the database answers.                                                   *)
(***************************************************************************)
HistoryIsComplete == [][HistoryStep]_recordVars

-----------------------------------------------------------------------------
(***************************************************************************)
(* SERVER_AND_PROTOCOL_DESIGN.md:1268: database errors are only logged,    *)
(* they do not crash the server.                                           *)
(***************************************************************************)
ErrorsDoNotCrash == ~database.crashed
=============================================================================
