# A formal model of Draw & Guess

Draw & Guess is a multiplayer drawing game. A single-threaded C server
(`src/src/server`) keeps all rooms and games in memory, a Node.js gateway
(`src/src/gateway`) turns WebSocket messages into the server's binary TCP
protocol, and a React client (`src/src/frontend`) shows the rooms. This directory
holds TLA+ modules translated from the source, the TLC runs that model-check
them on small instances, and proofs, checked by TLAPS, of what holds for every
instance.

Paths below are relative to the `src/src/` directory, except `docs/...`, which is `src/docs/...`.

## 1. Inventory

| part | source | state | operations | what makes it correct |
|---|---|---|---|---|
| rooms | `server/room.c` | players[], active_players[], db_player_ids[], owner, state | create, add, remove, ensure owner, start, end, destroy | one seat per user, an active owner, arrays in step |
| games | `server/game.c`, `server/protocol_game.c` | round, drawer, word, timer, scores, who has guessed | start round, guess, end round, end game, timeout | the drawer is there, the turn passes in order, nobody is paid twice, the game ends |
| sessions and room table | `server/server.c`, `protocol_auth.c`, `protocol_room.c`, `protocol_chat.c` | client slots with user and state, room slots, room_count | connect, login, logout, disconnect, create, join, leave, start, guess, chat, tick | table exact, each room lives its own life, sessions and rooms agree |
| persistence | `database.c`, `database/schema.sql` | the link to MySQL, the tables | reconnect, rows for rooms, seats, rounds, guesses, points, chat, history | rows are those of the right player and room, whatever fails |
| message framing | `protocol_core.c`, `server.c:180`, `gateway/utils.js` | receive buffers | parse, create, reassemble | messages whole, once, in order |
| gateway | `gateway/index.js`, `gateway/utils.js` | per WebSocket: TCP connection, pending promise, retries | connect with retries, forward both ways, close | nobody waits for ever, flags and connections agree, no connection leaks |
| client service | `frontend/src/services/Services.js` | socket, queue, subscribers, timers | connect, reconnect, send, disconnect, dispatch | no message lost, no dead promise, the connection comes back |
| drawing relay | `protocol_drawing.c`, `drawing.c` | none | validate and relay a stroke | only the drawer draws |
| client views | `frontend/src/pages`, `components` | the room as displayed, the canvas | react to messages, draw | the page agrees with the room |
| history, password hashing, main | `protocol_history.c`, `auth.c`, `sha256.c`, `main.c` | none | query, hash, start | plain functions and I/O |

**How the parts interact.** A page hands a message to the client service, which sends
it on its WebSocket or queues it; the gateway makes one TCP connection per WebSocket
and forwards what comes; the server's event loop (`server.c:431`) waits in
`select()` for at most a second, accepts a connection, lets each readable client's
message run its handler *to completion*, and then looks at the clock of every
playing room. Handlers share `server_t` without locks, because nothing else
runs; they write rows to MySQL on the way and broadcast to the members of the room;
the answers travel back through the gateway's buffer to the subscribers of the client
service, which are the pages.

Each of the three processes runs one callback or handler at a time, so each is one
atomic action. What is hard is the *sequences*: users who come and go while a game
holds indices into the table of seats, several connections of one user, callbacks of
sockets that have been replaced, a timeout between any two messages, news that
overtakes the page that should show it, and a database that goes away between two
statements of one handler.

**What is hard here** is listed line by line under "hazards" in `PROJECT.json`.
In short:

- seats are appended, marked and shifted while games refer to them by index, and the
  database ids of the seats are shifted along by hand;
- the drawer or the owner leaves at a bad moment;
- the same leave code exists in three copies (LEAVE_ROOM, LOGOUT, disconnect);
- the room of a user is searched for, not stored, and a seat stays behind when its
  player leaves a running game;
- sessions and rooms are two records of one fact and are updated separately;
- rounds are counted, skipped and ended in a loop over two functions, either of which
  may end the game;
- everything that must eventually happen happens through the tick;
- the database is "best effort": any statement may fail, and the server restarts with
  the tables of the run before;
- the gateway awaits a connection while the WebSocket may close and messages go on
  coming, and its error listener retries on behalf of nobody;
- all sockets the client service ever made act on one set of fields;
- a page never asks for the state of its room; it lives on broadcasts, most of which
  do not say which room they are of.

## 2. Modules

| module | models | state | EXTENDS |
|---|---|---|---|
| `Room` | `room_t` and `room.c` as operators on a room record | none | community modules |
| `Game` | `game_state_t`, `game.c`, the round loop and the leave code, as operators on a room record | none | `Room` |
| `GameRoom` | the life of one room as a state machine | `room` | `Game` |
| `RoundLoop` | the next-round loop call by call | `start, room, game_ended, attempts, pc` | `Game` |
| `Server` | all clients, rooms, slots, and every handler that changes them | `clients, rooms, slots, room_count` | `Game`, an instance of `GameRoom` |
| `Database` | the link to MySQL and its statements as operators on one record | none | community modules |
| `Records` | one room after another with the rows written for it, outages, restarts | `room`, `ids`, `database` | `GameRoom`, `Database` |
| `RoomView` | one room, the messages to its pages, the pages, the strokes back, and what other rooms send to the same pages | `room`, `view`, `inbox`, `strokes`, `astray` | `GameRoom` |
| `Framing` | parsing and reassembling a byte stream, as operators | none | community modules |
| `Gateway` | one WebSocket, its TCP connections, both streams | see the module | `Framing` |
| `Services` | the client's connection service with old and new sockets | see the module | community modules |
| `MCGameRoom`, `MCRoundLoop`, `MCServer`, `MCRecords`, `MCRoomView`, `MCGateway`, `MCServices` | TLC instances | | the above |
| `RoomLemmas` | what each operator of `Room` and `Game` does to a good room | | `Game` |
| `GameRoomProofs`, `RoundLoopProofs`, `ServerProofs`, `RecordsProofs` | theorems about the specification they are named for | | that specification, `RoomLemmas` |
| `RoomViewProofs` | theorems about `RoomView` | | `RoomView`, `GameRoomProofs` |
| `ServicesProofs`, `GatewayProofs` | theorems about the specification they are named for | | that specification |

A handler is a function from the room it finds to the room it leaves, so `Room`
and `Game` are written as operators; `GameRoom`, `Server`, `Records` and `RoomView`
apply them in actions. `Records` and `RoomView` compose the same room with the
database and with the pages: a handler's effect on the room is written once.

| action of `GameRoom` | code | in `Records` | in `RoomView` |
|---|---|---|---|
| `Create` | CREATE_ROOM: validation, `room_create` | `CreateRoom` | `CreateAndTell` |
| `Join` | JOIN_ROOM: full, already seated, `room_add_player`, the automatic start | `JoinRoom` | `JoinAndTell` |
| `Start` | START_GAME: owner, `room_start_game`, `game_start_round` | `StartGame` | `StartAndTell` |
| `Guess` | `protocol_process_guess` for a right guess, with the early end of the round | `GuessRight` (also `GuessWrong`, `Chat`) | `GuessAndTell` |
| `Timeout` | the tick, `game_end_round`, `protocol_handle_round_timeout` | `RoundTimeout` | `TimeoutAndTell` |
| `Leave` | LEAVE_ROOM, LOGOUT and disconnect: remove, end the game, destroy, ensure an owner, replace the drawer's round | `LeaveRoomOf` | `LeaveAndTell` |

`Server` adds what the handlers ask of the session: `Connect`, `Login` (with the
rival session that is disconnected), `Logout`, `Disconnect`, `CreateRoom`,
`JoinRoom`, `LeaveRoomRequest` (names a room), `StartGame`, `GuessWord`, `Chat`
(search for a room), `Tick` (all rooms whose time is up, in one pass).

`Records` adds `Account` (login, registration, change of password and history as what
their statements do to the link), `Lose` and `Recover` (the database), `Restart`.
An outage is a fuse: after `k` more statements nothing is answered, so it may start
between any two statements of one handler. A handler that crashes forgets the room.

In `Records` a wrong guess is anybody's, the drawer's too: GUESS_WORD does not ask who draws, and
the refused guess is saved as a wrong one (`protocol_game.c:324`); only a chat line of the drawer is not a
guess (`protocol_chat.c:58`).

`RoomView` adds `Deliver` (one message to one page), `Mount` (the page subscribes),
`Draw` (on the drawer's own canvas and up to the server), `Relay` (DRAW_DATA, when the server finds
this room), and five actions of an environment, the other rooms in which users of this one have a
seat:

| action | what another room does |
|---|---|
| `NewsFromElsewhere`, `StrokeFromElsewhere` | its `game_start`, `round_end`, `game_end` and strokes reach the page of a user who has left it or come from it (`server.c:267`) |
| `RelayElsewhere` | it is found first, and takes a stroke that was meant for this room (`protocol_drawing.c:30`) |
| `DrawFromElsewhere` | its page sends a stroke, and this room, whose drawer the sender is, is found first |
| `GoneElsewhere` | it is found first when the user's connection is lost or logs out: the page goes, the seat in this room stays |

| actions of `Gateway` | code |
|---|---|
| `MessageForwarded`, `MessageWaits`, `MessageDials`, `MessageRefused` | the `message` listener, by what `connectToTcpServer` finds |
| `Connected`, `ConnectedForNobody`, `DialFails`, `DialTimesOut`, `RetryTimer` | `TcpConnectionManager.connect` and what awaits it |
| `ServerCloses`, `ConnectionFails`, `WsClose` | the `close` and `error` listeners of either side |
| `Data` | the `data` listener with `MessageBuffer` |
| `Recv`, `ServerSends` | `server_handle_client_data`, `protocol_send_message` |

| actions of `Services` | code |
|---|---|
| `PageConnects`, `Send`, `Disconnect` | `connect`, `send`, `disconnect` |
| `Opened`, `Fails`, `Drops`, `Closed` | `onopen`, `onerror` and `onclose` of any socket, the present one or not |
| `ReconnectTimer`, `QueueTimer`, `OpenTimer` | the timers of `attemptReconnect`, `onopen` and `connect` |

**Abstractions.** The word is a flag `open`: set and timed, or not; a guess hits it
or not. Time is nondeterministic: an open round may time out at any moment.
`game_ended` is not a field, since whoever sets it ends the game in the
same handler (except in `RoundLoop`, where the loop tests it). Seats are numbered
from 1; within one run of the server room ids are never reused, as in the code. Names, avatars and
difficulty are left out. `ActiveGuessers` excludes the drawer by
user id where the code excludes the drawer's seat; `OneSeatPerUser` makes the two
equal. After a room is destroyed the leave code still reads `room->game`
(`protocol_room.c:898`); in that case `should_end_game` is true and the value read
decides nothing, so the model does not read it.

In `Framing` a byte is the pair of its message and its place in it, and all messages have
one length; the server that parses from the middle of a message may take any length for
it, so parsing yields a set of results. In `Gateway` an error of a socket and the close
that Node emits right after it are one action. In `Database` the statements of one handler are
composed in the code's order; tables whose ids matter are sequences, the others sets.
Three loops are written in closed form: what is left of a message and what follows it
(`BytesOf`), the rows of a history appended one by one until the fuse burns down
(`SaveGameHistory`), and the bubble sort of the score table, by the place it gives each entry
(`SortedPlace`: the entries with more points, and the earlier ones with as many, come
first).
`mysql_errno(NULL)` and `mysql_insert_id(NULL)` are those of libmysqlclient: the first
reports no error of the statement, the second dereferences its argument.

In `RoomView` the way between server and page is one queue that loses and reorders
nothing, which is what `Bridge` checks of an open connection; a page that loses its
connection is not modelled (the server removes its member; the page stays as it was).
The page guards START_GAME by the owner it shows, so the button's condition is part of
`StartAndTell`; but a user who shows the page of another room may start this one from there, if the
server finds this one first, and guess in it.

A user is logged in once in `RoomView` and shows the page of one room. A stage "closed" is a
user who shows another room, or none: what the server sends there is not a message to a page of this
room, and what the pages of this room make of the messages of others is in the environment. Who opens
the page with a seat elsewhere is *astray* for as long as the page is open. Such a seat is one that was left
while its game ran, and the environment is larger than what other rooms do: at any moment it may send any
round and any drawer. The lists of players and ROOM_UPDATE name their room, and the page
asks (`GameRoom.jsx:93`, `:149`); so they are not among its messages. Leaving the page by the
browser's buttons, without leaving the room, is left out. **`Timely`** is an assumption about time that the messages cannot
express: a round lasts 30 seconds, so when it ends by the clock or by its last guess the news of its
beginning has reached every page and strokes of earlier rounds have arrived. A round that ends
because the drawer *leaves* is under no such assumption.

## 3. What the runs check

### Runs that pass

| run | instance | checks |
|---|---|---|
| `GameRoomSafety` | 4 users, sizes 1, 2, 3, 5, rounds 0, 1, 2, at most 4 rounds in all | types, `OneSeatPerUser`, `OwnerIsActive`, `DrawerIsPlaying`, `GameHasTwoPlayers`, `RoundAlwaysOpen`, `PaidOncePerRound`, `RoundsBounded`, `TurnPassesInOrder`, `ScoresGrow`, `EarlyEndIsEarned` |
| `GameRoomLiveness` | 3 users, up to 6 rounds | `GameEnds` |
| `RoundLoop` | every table of up to 4 seats, every current drawer, up to 7 rounds | `LoopAgrees`, `SomebodyIsFound` |
| `ServerSafety` | 2 users, 3 connections, 2 rooms, repeated logins | types, `SlotsHoldLiveRooms`, `RoomCountExact`, `EveryRoomIsAGameRoom`, `PlayersAreNotKicked`, `StartReachesPlayers` |
| `ServerLiveness` | 2 users, 2 connections, 2 rooms | `EveryGameEnds` |
| `Records` | 2 users, 2 rooms in turn, 1 restart, 1 outage, 3 seat rows | types, `SeatsHaveTheirRows`, `RowsFitTogether`, `HistoryIsComplete` |
| `RoomView` | 3 users, one of them astray at a time, sizes 2 and 4, 3 joins, leaves and news from elsewhere, 1 stroke | types, `ScreensAgree`, `EveryoneSeesTheDrawing` |
| `Bridge` | 1 WebSocket, 3 connections, 2 messages each way, 1 retry | types, `ShownIsWhatWasSent`, `ForwardedOnceInOrder`, `HandledWholeInOrder`, `ConnectedMeansUp`, `OnlyLateOnesOutlive`, `NobodyWaitsForEver`, `AllIsShown` |
| `Services` | 3 sockets, 2 messages, 1 drop, 1 logout, 2 attempts | types, `NothingForgotten`, `PromiseIsLive`, `ConnectionComesBack` |

`EveryRoomIsAGameRoom` is the refinement that ties the two levels of the server together: through
`INSTANCE GameRoom WITH room <- rooms[AnyRoom]`, whatever clients do, each room of the
server behaves as `GameRoom` says. `AnyRoom` is a constant, the id of any room: the run takes
the first, whose slot is used again by the second, and the theorem holds for every one. What is
checked or proved of one room therefore holds of every room of the server, and
`ServerSafety` need not repeat it. `LoopAgrees` ties the loop of `protocol_game.c` to the one-step
operator `NextRound` that the other modules use.

`StartReachesPlayers` speaks of every session of every player. START_GAME marks only the
first session of each user (see "Disagreements known and not run"), so a session that it misses stays IN_ROOM; what
remains true, and would be lost if the loop left out a seat or took the wrong clients, is that then an earlier session of the same user may
guess.

`ScreensAgree` says of every page that its players and owner are right, and of the pages of users
with a seat in one room only that state, round and drawer are. `EveryoneSeesTheDrawing` compares the
pages of such users with a drawer who is one of them; those who are astray draw, leave and get messages all the while.
For the page of somebody astray neither holds, and "Disagreements known and not run" says why.

`OnlyLateOnesOutlive` is what remains true of leaks: a connection that is dialled while
its WebSocket closes, or again for nobody, comes up afterwards and stays, holding a client slot
of the server; every other one is closed. `HandledWholeInOrder` allows the server to
lose messages, which it does: two that arrive in one `recv()` are one message handled and
one forgotten. It says that none is handled twice, early or out of order.
`EveryoneSeesTheDrawing` allows lines that touch x = 1920 or y = 1080 to be missing:
`Canvas.jsx:51` rounds a point on the edge to them and `drawing.c:138` rejects them.
Its counterpart at the server, `RelayedInItsRound`, is proved only: DRAW_DATA does not say
which round a stroke was drawn in, so a late one is told from a new one only by who sends it.

**Bounds.** `Users` and the sizes: four users are needed for a drawer, a player who has
left, one who waits and one who still plays; a room that fills up starts without a round,
so games of four players need a size of five. A size of 1 and 0 rounds are there
to be refused. `MaxWordsStack` (200 in the code) caps the number of rounds: with 4,
`player_count * rounds` is on both sides of the cap. `MaxRoomIds` bounds
how many rooms are ever created; two ids and two slots
are the smallest instance in which a user is seated twice on the server and a slot
is used again. Three connections are needed for two sessions of one user and one of
another. Users are
symmetric; client slots and room slots are not, because the code searches them in
order. `Relogin` says whether a client that is logged in may send LOGIN_REQUEST again:
the server accepts it (`protocol_auth.c:85` does not look at the state), though the
web client never does it.

`Records`: an outage after 0, 1 or 2 further statements (`Fuses`) falls before, between
and after the statements of the longest handlers; one restart makes the second server give
the first's room codes again. `MaxSeatRows` and `MaxTexts` bound rows, not behaviours:
three seat rows are one player who joins, leaves and joins again, or two rooms.

`RoomView`: `MaxBacklog` 1 means that handlers run while at most one message waits for a page;
since one handler sends up to three, up to four wait. `MaxMoves` 3 is two players who join and one
who leaves, or another room's news instead of one of these. Size 2 is a room that fills up, 4 one that does not; two rounds,
of which a seat passed over may take one, are one change of turn. The one stroke is the drawer's, one of
another room, or one still under way from the round before; `MaxBacklog` does not bound how long it may
be. `OtherRounds` {1} is the round in which the other room may be taken for this one, and one astray user with two who are not shows whether the
one disturbs the others. `RoomViewProofs` proves the same properties for any value of these bounds: more rounds,
in which the turn comes back, more strokes, moves and astray users.

`Bridge`: `HeaderSize` 2 and `PayloadSize` 1 are the smallest message that can be cut inside the
header and inside the payload; `BufferSize` 5 is less than two messages, so that a `recv()`
ends inside the second. Three connections are one that fails, its replacement and one dialled for
nobody. `Services`: three sockets are two old ones that still call back and the present one.

**Fairness.** `GameRoom!Spec` asks weak fairness of `Timeout`, `Server!Spec` of the tick
finding the time of each room up. `select()` returns after at most a second and the
tick follows every return, so the clock of each room is read for ever, and a round lasts
30 seconds. Nobody is obliged to guess, join, start or leave. `GameEnds` speaks of games
whose first round began: one that fills its room and starts by itself never has one
(`FullRoomPlays` below). `Gateway!Fairness`: a dial is answered, refused or cut off by its own 10 second
timer, timers run out, and bytes on a connection that is up arrive. `Services!Spec`: timers run
out, and a socket that connects or closes gets to an end of it, which every browser sees
to. No browser, page, user or database is obliged to do anything.

Deadlock is not checked, because the systems may stop: a
destroyed room in `GameRoom`, used-up room ids in `Server` and `Records`, used-up
moves in `RoomView`, a closed WebSocket in `Gateway`, a client that has given up in
`Services` are final.

### Runs that show a disagreement

Each takes a sentence of a comment or document for its property, and TLC finds
a behaviour of the code that violates it.

| run | the repository says | the code |
|---|---|---|
| `FullRoomPlays` | `server/protocol_room.c:702` a room that fills up starts its game | starts it without a first round; no drawer, no word, no timer, and no way out but leaving |
| `ErrorsDoNotCrash` | `docs/SERVER_AND_PROTOCOL_DESIGN.md:1268` database errors are only logged, they do not crash the server | after a query that found no database `db->conn` is null, and `mysql_insert_id` is called on it (`database.c:687`, `:703`, `:720`, `:736`, `:752`) |
| `NoBroadcastMissed` | `GameRoom.jsx:391` subscribe right away so as to miss no broadcast | the page subscribes after it is mounted; a `room_update` sent right after the join is lost and the page shows a waiting room that plays |

### Disagreements known and not run

Reading the code showed these as well. They are not properties, because they are false, and
the models contain the behaviour.

- `room.c:152` says that who joins during a game is activated in the next round; nothing ever
  sets the mark while that game runs.
- `game.c:248` says that the score table is not rebuilt, for that would reset all
  scores; a right guess by a player who joined later rebuilds it (`game.c:356`).
  `ScoresGrow` therefore speaks of tables with the same entries.
- `protocol_game.c:403` says that the round ends early when all active players have guessed; the
  guesses of waiting players and of players who have left count too (`:428`).
- `protocol_game.c:238` says that START_GAME marks all clients in the room IN_GAME; for each player it marks the one client that
  `find_client_index_by_user` returns, the first slot with that user id (`:50`, `:241`). A login spares a session
  that is in a room (`protocol_auth.c:148`), so a user may have two; when the one in the room, be it the one that pressed the
  button, is the later one, it stays IN_ROOM, its GUESS_WORD is refused (`:271`), and the earlier one may guess.
  `StartReachesPlayers` makes just this exception.
- `server.c:208` says that `server_find_room_by_user` finds the room the client is in; it finds the first slot that seats the user, and a seat
  that was left in a running game still does (`room.c:299`). A user who leaves a room that plays and opens another one in a
  later slot is found in the first. If that user draws in the second room, every stroke is tested against the
  first and dropped (`protocol_drawing.c:30`), and nobody sees anything.
- `server.c:228` says that a broadcast goes to the clients in the room; it goes to every session whose user has a seat
  there (`server.c:267`), one that was left included (`room.c:299`). A user who left a running room and shows
  another one is told the game of both, and the handlers of the page (`GameRoom.jsx:160`, `:205`,
  `:299`, `:316`) do not ask for the room: the page shows the other room's drawer, round, end and
  strokes. If it shows its user as the drawer it even lets him draw.
- `server.c:319` says that a client in a room is removed from it; the room that is searched for
  (`server.c:218`) may be one the user has left.
- `docs/SERVER_AND_PROTOCOL_DESIGN.md:85` says that IN_ROOM is in a room; a room can be destroyed under
  waiting players (`protocol_room.c:861`).
- `docs/SERVER_AND_PROTOCOL_DESIGN.md:95` has IN_GAME, GAME_END, IN_ROOM; no code does it.
- `Services.js:488` queues a message to be sent after connecting; a late `onclose` of an
  old socket (`:80`) clears `isConnected` while the new one is open, and from then on `send()`
  only queues (`:500`). `NothingForgotten` says that what is queued is still there.

## 4. What is proved

Every invariant and every action property of the passing runs is a theorem of its
specification, for every value of the constants.

**Assumptions.** The theorems assume no more than the `ASSUME`s of the modules, which
say what kind of thing each constant is: 0 is no user and a room may hold two
(`RoomAssumption`: the code has 10), the word stack holds a word (`GameAssumption`: 200), requests
name natural numbers (`RequestAssumption`), the table and the number of rounds of the loop are
those of a room (`LoopAssumption`), the server has slots for a client and a room
(`ServerAssumption`: 100 and 50), `AnyRoom` is a room id (`AnyRoomAssumption`), a message has a header and
fits into a receive buffer (`FramingAssumption`), the lines that touch the edge are lines and none is the
wipe (`RoomViewAssumption`, `ClearAssumption`), and the bounds are natural
numbers (`GatewayAssumption`, `ServicesAssumption`, `RecordsAssumption`, `RoomViewAssumption`). So the number of users, clients,
rooms, rounds, messages, outages and restarts, which each run fixes, is any number here.

| module | theorem | states |
|---|---|---|
| `GameRoomProofs` | `Invariance` | `SafeSpec => []IInv` |
| | `TypeCorrect`, `OneSeat`, `OwnerStaysActive`, `DrawerStays`, `TwoPlayersPlay`, `RoundStaysOpen`, `NobodyPaidTwice`, `RoundsStayBounded` | `[]TypeOK`, `[]OneSeatPerUser`, `[]OwnerIsActive`, `[]DrawerIsPlaying`, `[]GameHasTwoPlayers`, `[]RoundAlwaysOpen`, `[]PaidOncePerRound`, `[]RoundsBounded` |
| | `TurnsInOrder`, `PointsAreKept`, `EarlyEndsAreEarned` | the action properties `TurnPassesInOrder`, `ScoresGrow`, `EarlyEndIsEarned` |
| `RoundLoopProofs` | `LoopInvariance` | `Spec => []LoopInv` |
| | `LoopDoesNextRound`, `LoopFindsSomebody` | `[]LoopAgrees`, `[]SomebodyIsFound` |
| `ServerProofs` | `ServerInvariance` | `SafeSpec => []IInv` |
| | `ServerTypes`, `SlotsStayExact`, `CountStaysExact` | `[]TypeOK`, `[]SlotsHoldLiveRooms`, `[]RoomCountExact` |
| | `NobodyIsKicked`, `StartIsNoticed` | the action properties `PlayersAreNotKicked`, `StartReachesPlayers` |
| | `EveryRoomRefines` | the refinement `EveryRoomIsAGameRoom` |
| `RecordsProofs` | `RecordsInvariance` | `RecordsSpec => []IInv` |
| | `RecordsTypes`, `SeatsKeepTheirRows`, `RowsBelongTogether` | `[]RecordsTypeOK`, `[]SeatsHaveTheirRows`, `[]RowsFitTogether` |
| | `HistoriesAreComplete` | the action property `HistoryIsComplete` |
| `RoomViewProofs` | `ViewInvariance` | `ViewSpec => []ViewInv` |
| | `ViewedRoomIsGameRoom` | `ViewSpec => SafeSpec`: the theorems about `GameRoom` hold of the room that is viewed |
| | `ViewTypes`, `ScreensStayTrue`, `DrawingIsSeen` | `[]ViewTypeOK`, `[]ScreensAgree`, `[]EveryoneSeesTheDrawing` |
| | `StrokesKeepTheirRound` | the action property `RelayedInItsRound`: a stroke that is relayed was drawn in the open round, by its drawer, who still shows it, unless the sender is astray |
| `ServicesProofs` | `ServicesInvariance` | `SafeSpec => []IInv` |
| | `ServicesTypes`, `NothingIsForgotten`, `PromiseStaysLive` | `[]TypeOK`, `[]NothingForgotten`, `[]PromiseIsLive` |
| `GatewayProofs` | `GatewayInvariance` | `Spec => []IInv` |
| | `GatewayTypes`, `ConnectedIsUp`, `OnlyLateOnesStay`, `ForwardsOnceInOrder`, `HandlesWholeInOrder`, `ShowsWhatWasSent` | `[]TypeOK`, `[]ConnectedMeansUp`, `[]OnlyLateOnesOutlive`, `[]ForwardedOnceInOrder`, `[]HandledWholeInOrder`, `[]ShownIsWhatWasSent` |

**Operators of a room** (`RoomLemmas`). A handler is an operator applied to a room, so the lemmas say what
each operator does to a room that is in order, and the proofs of five specifications cite them.
"In order" comes in two parts, because the leave code breaks one and mends it again within one step:

- `Good` is `Base` (types, distinct seats, an active owner, no game outside PLAYING) and
  `DrawerSeated`. None is inductive alone. `drawer_index` keeps its type through a
  change of round only if the table is not empty, for the rotation divides by the number of seats;
  that follows from the active owner, who stays active through a leave only if nobody has
  two seats, for otherwise the seat that is marked might not be the leaver's only one; and the drawer keeps its
  seat only if seats are never shifted under an open round, that is, there is no game outside PLAYING.
- `Sound` is what a game needs: `Playable`, that is `RoundsCounted`, `EnoughActive` (two active
  players) and `ActiveScored` (each with an entry in the score table), and then
  `RoundOpen` and `FindersListed`. A removal may leave one active player and a drawer
  who is gone; `LeaveRoom` then ends the game, or hands the room to `NextRound`, which asks for `Base` and
  `Playable` only and gives back all of both.

**One room.** `IInv` is `Good(room) /\ Sound(room)`, and the step of each action cites the lemma of
its operator. `TurnsInOrder` rests on the least number of seats to pass (`NatMin`: loops that stop at the
first match). `EarlyEndsAreEarned` is a counting argument: the code compares two numbers,
`guessed_count` and that of active guessers; the finders are distinct, so if none of them
has left and a guesser has not found the word, the first number is the smaller.

**The loop.** After `k` calls of `game_start_round` the room is that of the start with `k` rounds counted and the
turn moved over `k` seats, none of them active (`Looping`). That the loop stops at the seat that
`NextRound` names then follows from arithmetic modulo the number of seats, and that
`player_count + 1` attempts are enough from the fact that so many steps visit every seat.

**The server.** `IInv` joins the sessions (`ClientsOK`: a session has a user exactly when it
is logged in), the rooms (`RoomsOK`: each is `Good` and `Sound`) and the table (`TableOK`). A slot is
given away in CREATE_ROOM because the leave code has cleared it, and the leave code acts on a room because a session
of somebody is in it: the parts need each other. The refinement is a step simulation: each
action of the server is mapped, for the room named `AnyRoom`, to the action of
`GameRoom` it performs there or to a stutter; a login that disconnects a rival is a leave of that room or nothing
to it, and the tick is a timeout or nothing.

**The rows.** `IInv` adds to the room `Fine(database)` (every row refers to rows that exist, all
of one room) and `MemoryOK` (an id in memory is 0 or that of the right row: of this room, and
for a seat of its user). The tables only grow (`Grown`), so an id once right stays right; each statement is
lost, or refused, or adds one row and returns its number (one lemma per statement of
`Database`); and the seats and their ids are shifted by one operator, `RemoveAt`, so that they
stay in step. `HistoriesAreComplete` needs that nobody is in the score table who has
no seat (`ScoredSeated`), and that places under the sorted order are a bijection between the
scoring seats and the ranks (`PlacesDiffer`, `SeatOfRank`): different seats have
different places, and as many of them as there are ranks fill all.

**The pages.** A page and its queue are described together, in `ViewInv`. `StageOK` and the list of players
(`PlayersTold`) hold of every page, since other rooms send no list that this page takes; the rest of `Told` and `TurnAway` (together
`PageOK`) hold of the pages of users who are not astray, and `DrawingOK` of those pages in a round whose drawer has
this page open and is not astray. The environment is harmless because it sends to, takes from and closes only
pages of which nothing but the first is claimed (`ElsewhereTold`, `NewsStep`, `StrokeStep`, `RelayElsewhereStep`,
`GoneStep`), and because a drawer who draws from another room's page is not one whose drawing is compared
(`DrawElsewhereStep`); but a user becomes astray, or stops to be, only when the page opens or closes, so the claims never
have to be made again of a page that has been astray.


- `Told`: what the page shows is so, or a message on its way will put it right and no later one will put it
  wrong. One part for the players (`PlayersTold`: the last list on its way is the room's), one for the
  state (`StateTold`: whatever says that a game is played is contradicted later, if none is), one for rounds
  and drawers (`RoundsTold`), and `RoundsPast`: nothing is ahead of the room. Each is stated by positions in the
  queue, not by running the handlers over it, so that a message sent needs one lemma per kind and a message
  delivered one (`KnowsDelivered`).
- `TurnAway`: whoever may still send strokes of an earlier round is not the next to draw: going
  around the table from his seat to the drawer's there is no active player left. This is why a late
  stroke is never taken for one of the open round, even when drawers leave and no time passes
  (`TurnKeepsAway`). When the drawer leaves, two active players remain, or the game ends, so another one sits between the
  next drawer and the seat passed over, which therefore is not the next drawer's; and in a room that
  plays nobody is activated. Only a round that ends by itself can bring the turn back, and there `Timely`
  says that the late strokes have arrived.
- `DrawingOK`: a page that has seen the round begin, its queue, and the strokes under way from
  the drawer together make the drawer's canvas. `Run` says that a queue turns one canvas into another, by a function
  that gives the canvas after each message, so that no recursion is needed: appending a message
  extends the function, taking one off shifts it. `Target` is the set of the drawings that the strokes under
  way complete to the drawer's canvas without the rejected lines (a set, because a wipe makes what was there before
  irrelevant), and the page's queue leads into it. A relay takes a stroke from one end and puts it on
  the other, which leaves every page on its way (`TargetRelayed`).

Before a game every seat is active (`AllActive`): START_GAME marks all seats active and sends no
list of players, and this is why no page shows a stale one. The step of
each handler cites what it does to the room (`StartFacts`, `LeaveFacts`, ..., which rest on `RoomLemmas`)
and then one lemma per way a page can be affected: `PageStays`, `PageIdle`, `PageMoves`, `OpeningPage`.

**The client service.** `IInv` splits by who writes what: `SetupOK` (the socket in use and its promise),
`MessagesOK` (a message is queued, sent or discarded, and none else is) and `RetriesOK`. An action that touches
none of the variables of a part keeps it.

**The gateway.** `Control`: a pending promise is in one place, a dial of its own or a retry timer, and only
while no connection is in use. `OrderOK`: what waits for the promise is later than all
that is written. The two streams are described without induction over their bytes: `ServerSide` says
that what is on its way up is in order and later than what was handled; `BrowserSide` gives
every byte its place (`Place`: byte `i` of a connection is byte `(i - 1) % Width + 1` of message
`(i - 1) \div Width + 1`), so that what is shown, kept in the buffer and still on its way are three
consecutive stretches of one sequence, however it is cut.

**What is only model-checked.**

- Liveness: `GameEnds`, `EveryGameEnds`, `NobodyWaitsForEver`, `AllIsShown`,
  `ConnectionComesBack`. They rest on fairness, whose meaning is by ENABLED, which the proof system
  does not handle.
- What recursive definitions compute for every input. None is in a module with theorems;
  the loops are closed forms or state machines.

## 5. Not modelled, and the plan

Not modelled: the room list and the timer updates (messages only), the contents of the users
and words tables, password hashing, the conversion between JSON and binary, `send()` to a
peer that is slow or gone (SIGPIPE, a loop that blocks), the one-shot subscribers of
`waitFor` and SERVER_SHUTDOWN in `Services.js`, scores, chat and countdown in the pages, and the pages
other than the room. They are listed with their reasons under "components" and "hazards" in
`PROJECT.json`.

The next step would be `waitFor`: requests and answers matched by type, where a late answer
to a request that timed out resolves the next one of its type.
