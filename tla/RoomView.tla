------------------------------ MODULE RoomView ------------------------------
(***************************************************************************)
(* What the members of one room see: the messages the server sends when    *)
(* the room of module GameRoom changes, the pages of                       *)
(* src/src/frontend/src/pages/game-room/GameRoom.jsx that show them, and   *)
(* the strokes that the drawer's page sends and the server relays.         *)
(*                                                                         *)
(* Each member has one connection, which loses and reorders nothing: inbox *)
(* is the way down to the page, strokes the way up from it.  A page is     *)
(* "opening" from the answer to CREATE_ROOM or JOIN_ROOM until it has been *)
(* mounted and has subscribed; until then Services.js keeps the latest     *)
(* room_players_update for it and everything else is lost.  Scores, chat,  *)
(* the word, the countdown and the coloured frame around the drawer are    *)
(* left out, and so is a canvas that is wiped by resizing the window.      *)
(*                                                                         *)
(* A user shows the page of one room at a time and is logged in once, but  *)
(* may have a seat in several rooms: one left while its game ran stays     *)
(* taken.  A user who had a seat elsewhere when the page of this room was  *)
(* opened is astray: the other room's messages reach the page too, and the *)
(* other room may be the one the server finds for what the page sends.     *)
(* The other rooms appear as an environment that does the one or the other *)
(* at any moment.  "closed" is a user who shows another room, or none.     *)
(***************************************************************************)
EXTENDS GameRoom

CONSTANTS
  Lines,        \* the lines and eraser strokes somebody may draw
  OffCanvas,    \* those of them that touch x = 1920 or y = 1080
  OtherRounds,  \* bound: the rounds of the games in other rooms
  MaxAstray,    \* bound: users who are astray at the same time
  MaxBacklog,   \* bound: messages that wait for a page when a handler runs
  MaxStrokes,   \* bound: strokes drawn in the life of the room
  MaxMoves      \* bound: joins, leaves and news from elsewhere

ASSUME RoomViewAssumption ==
  /\ OffCanvas \subseteq Lines
  /\ OtherRounds \subseteq Nat \ {0}
  /\ MaxAstray \in Nat
  /\ MaxBacklog \in Nat
  /\ MaxStrokes \in Nat
  /\ MaxMoves \in Nat

Clear == "clear"

ASSUME ClearAssumption == Clear \notin Lines

VARIABLES
  view,      \* what the page of each user shows
  inbox,     \* the messages on their way to each page
  strokes,   \* the DRAW_DATA messages on their way to the server
  astray,    \* the users with an open page who have a seat elsewhere
  moves,     \* the joins, leaves and news from elsewhere so far, to bound them
  drawn      \* the strokes so far, to bound them

viewVars == <<room, view, inbox, strokes, astray, moves, drawn>>

-----------------------------------------------------------------------------
\* The state of the component before anything has arrived.  isDrawing is
\* drawer = me, which is how every handler that sets either leaves them.
Blank == [stage |-> "closed", state |-> "waiting", players |-> <<>>,
          active |-> <<>>, owner |-> NoUser, round |-> 0, drawer |-> NoUser,
          canvas |-> <<>>]

Opening == [Blank EXCEPT !.stage = "opening"]

ViewInit ==
  /\ Init
  /\ view = [u \in Users |-> Blank]
  /\ inbox = [u \in Users |-> <<>>]
  /\ strokes = [u \in Users |-> <<>>]
  /\ astray = {} /\ moves = 0 /\ drawn = 0

-----------------------------------------------------------------------------
\* The messages, with the fields the pages read.
PlayersUpdate(r) ==
  [kind |-> "room_players_update", players |-> r.players,
   active |-> r.active, owner |-> r.owner]

RoomUpdate(r) == [kind |-> "room_update", state |-> r.state]

\* Mutant: the seat of the drawer is sent for the drawer's id.
SeatStart(r) ==
  [kind |-> "game_start", round |-> r.game.round, drawer |-> r.game.drawer_index]

GameStart(r) ==
  [kind |-> "game_start", round |-> r.game.round, drawer |-> r.game.drawer]

RoundEnd == [kind |-> "round_end"]

GameEnd == [kind |-> "game_end"]

DrawBroadcast(line) == [kind |-> "draw_broadcast", line |-> line]

\* protocol_handle_round_timeout, which left the room as r.
RoundMessages(r) ==
  <<RoundEnd, IF r.game.open THEN GameStart(r) ELSE GameEnd>>

GameEndsWithout(r, u) ==
  r.state = "PLAYING" /\ TooFewToPlay(RoomRemovePlayer(r, u))

\* Mutant: when the game ends, the list of players is not sent any more.
LeaveEndsQuietly(r, u) ==
  IF GameEndsWithout(r, u) THEN <<GameEnd>>
  ELSE IF LeaveRoom(r, u) = Destroyed THEN <<>>
  ELSE <<PlayersUpdate(LeaveRoom(r, u))>> \o
       IF RoundOfDrawer(r, u) THEN RoundMessages(LeaveRoom(r, u)) ELSE <<>>

(***************************************************************************)
(* The three copies of the leave code: the end of the game, then the list  *)
(* of players unless the room is destroyed, then the round of a drawer who *)
(* left.                                                                   *)
(***************************************************************************)
LeaveMessages(r, u) ==
  LET s == LeaveRoom(r, u)
      ends == GameEndsWithout(r, u)
  IN  (IF ends THEN <<GameEnd>> ELSE <<>>) \o
      (IF s = Destroyed THEN <<>> ELSE <<PlayersUpdate(s)>>) \o
      (IF RoundOfDrawer(r, u) /\ ~ends THEN RoundMessages(s) ELSE <<>>)

(***************************************************************************)
(* server_broadcast_to_room: every session whose user has a seat in r is   *)
(* sent the messages, also one whose user has left and shows the page of   *)
(* another room.  That page is none of pages; what it makes of messages    *)
(* that are not its room's is in NewsFromElsewhere and StrokeFromElsewhere *)
(* below, which do to the pages of this room what this does to that one.   *)
(***************************************************************************)
Broadcast(r, pages, msgs) ==
  [u \in Users |-> IF HasPlayer(r, u) /\ pages[u].stage # "closed"
                   THEN inbox[u] \o msgs ELSE inbox[u]]

\* Bound: the pages keep up with the server.
KeptUp == \A u \in Users : Len(inbox[u]) <= MaxBacklog

(***************************************************************************)
(* Assumption on time: when a round ends because its 30 seconds are over   *)
(* or its word was found, the news of its beginning has reached every page *)
(* and no stroke of an earlier round is still under way, save for users    *)
(* who are astray, whose pages may show anything.                          *)
(***************************************************************************)
Timely ==
  \A u \in Users \ astray :
    /\ view[u].drawer # NoUser => view[u].round = room.game.round
    /\ \A m \in Range(inbox[u]) :
         m.kind = "game_start" => m.round = room.game.round
    /\ \A s \in Range(strokes[u]) : s.round >= room.game.round

-----------------------------------------------------------------------------
Move == moves < MaxMoves /\ moves' = moves + 1 /\ UNCHANGED drawn

\* The page of user u is opened; the user may have a seat in another room.
OpenPageOf(u) ==
  /\ view' = [view EXCEPT ![u] = Opening]
  /\ \/ UNCHANGED astray
     \/ Cardinality(astray) < MaxAstray /\ astray' = astray \cup {u}

\* The page is closed, with whatever was on its way.
ClosePageOf(u) ==
  /\ view' = [view EXCEPT ![u] = Blank]
  /\ strokes' = [strokes EXCEPT ![u] = <<>>]
  /\ astray' = astray \ {u}

\* The handlers of the server: the room changes and its pages are told.
CreateAndTell(u, m, n) ==
  /\ KeptUp
  /\ Create(u, m, n)
  /\ OpenPageOf(u)
  /\ inbox' = Broadcast(room', view', <<PlayersUpdate(room')>>)
  /\ UNCHANGED <<strokes, moves, drawn>>

JoinAndTell(u) ==
  /\ KeptUp
  /\ Move
  /\ Join(u)
  /\ OpenPageOf(u)
  /\ inbox' = Broadcast(room', view', <<PlayersUpdate(room'), RoomUpdate(room')>>)
  /\ UNCHANGED strokes

\* The page offers the start button to the owner it shows.
OffersStart(u) ==
  view[u].stage = "mounted" /\ view[u].owner = u /\ view[u].state # "playing"

\* The button may also be that of another room's page, if the server finds
\* this room first.
StartAndTell(u) ==
  /\ KeptUp
  /\ OffersStart(u) \/ view[u].stage = "closed"
  /\ Start(u)
  /\ inbox' = Broadcast(room', view, <<GameStart(room')>>)
  /\ UNCHANGED <<view, strokes, astray, moves, drawn>>

\* A correct guess is told to the pages as CORRECT_GUESS, which only concerns
\* scores; one that ends the round is followed by the next round.  It may come
\* from the page of another room, if the server finds this room first.
GuessAndTell(u) ==
  LET ends == AllFound(GameHandleGuess(room, u))
  IN  /\ KeptUp
      /\ view[u].stage # "opening"
      /\ Guess(u)
      /\ ends => Timely
      /\ inbox' = IF ends THEN Broadcast(room, view, RoundMessages(room')) ELSE inbox
      /\ UNCHANGED <<view, strokes, astray, moves, drawn>>

TimeoutAndTell ==
  /\ KeptUp
  /\ Timely
  /\ Timeout
  /\ inbox' = Broadcast(room, view, RoundMessages(room'))
  /\ UNCHANGED <<view, strokes, astray, moves, drawn>>

\* LEAVE_ROOM, LOGOUT or a lost connection, when this is the room it vacates.
LeaveAndTell(u) ==
  /\ KeptUp
  /\ Move
  /\ Leave(u)
  /\ ClosePageOf(u)
  /\ inbox' = [Broadcast(RoomRemovePlayer(room, u), view', LeaveMessages(room, u))
                 EXCEPT ![u] = <<>>]

\* drawing_validate_action, for a line of one of the page's brushes.
Valid(line) == line \notin OffCanvas

\* Mutant: the server relays what anybody draws.
RelayAnybody(u) ==
  /\ strokes[u] # <<>>
  /\ strokes' = [strokes EXCEPT ![u] = Tail(@)]
  /\ LET line == Head(strokes[u]).line
     IN  inbox' = IF Valid(line)
                  THEN Broadcast(room, [view EXCEPT ![u] = Blank], <<DrawBroadcast(line)>>)
                  ELSE inbox
  /\ UNCHANGED <<room, view, astray, moves, drawn>>

(***************************************************************************)
(* protocol_handle_draw_data, when server_find_room_by_user finds this     *)
(* room: a stroke of the drawer is sent to everybody else in the room; a   *)
(* stroke of anybody else, a stroke outside a game and a line that         *)
(* drawing_validate_action rejects are dropped.                            *)
(***************************************************************************)
Relay(u) ==
  /\ strokes[u] # <<>>
  /\ strokes' = [strokes EXCEPT ![u] = Tail(@)]
  /\ LET line == Head(strokes[u]).line
         others == [view EXCEPT ![u] = Blank]
     IN  inbox' = IF /\ room.state = "PLAYING"
                     /\ room.game.drawer = u
                     /\ Valid(line)
                  THEN Broadcast(room, others, <<DrawBroadcast(line)>>)
                  ELSE inbox
  /\ UNCHANGED <<room, view, astray, moves, drawn>>

-----------------------------------------------------------------------------
\* The other rooms in which users of this one have a seat.

\* A game of another room goes on: its messages, which name no room, reach the
\* page of a user who has a seat there.
NewsFromElsewhere(u) ==
  /\ u \in astray
  /\ KeptUp
  /\ Move
  /\ \E m \in {RoundEnd, GameEnd} \cup
            [kind : {"game_start"}, round : OtherRounds, drawer : Users] :
       inbox' = [inbox EXCEPT ![u] = Append(@, m)]
  /\ UNCHANGED <<room, view, strokes, astray>>

\* Somebody draws in the other room.
StrokeFromElsewhere(u, line) ==
  /\ u \in astray
  /\ KeptUp
  /\ Valid(line)
  /\ drawn < MaxStrokes /\ drawn' = drawn + 1
  /\ inbox' = [inbox EXCEPT ![u] = Append(@, DrawBroadcast(line))]
  /\ UNCHANGED <<room, view, strokes, astray, moves>>

\* protocol_handle_draw_data, when the server finds the other room first: the
\* stroke is not for the pages of this room.
RelayElsewhere(u) ==
  /\ u \in astray
  /\ strokes[u] # <<>>
  /\ strokes' = [strokes EXCEPT ![u] = Tail(@)]
  /\ UNCHANGED <<room, view, inbox, astray, moves, drawn>>

\* The other way round: the drawer of this room shows the page of another one
\* and draws there, and the server finds this room first.
DrawFromElsewhere(u, line) ==
  /\ KeptUp
  /\ view[u].stage = "closed"
  /\ room.state = "PLAYING" /\ room.game.drawer = u
  /\ Valid(line)
  /\ drawn < MaxStrokes /\ drawn' = drawn + 1
  /\ inbox' = Broadcast(room, view, <<DrawBroadcast(line)>>)
  /\ UNCHANGED <<room, view, strokes, astray, moves>>

\* LOGOUT or a lost connection vacates the other room, the first one found:
\* the page is closed and the user keeps the seat in this room.
GoneElsewhere(u) ==
  /\ u \in astray
  /\ Move
  /\ ClosePageOf(u)
  /\ inbox' = [inbox EXCEPT ![u] = <<>>]
  /\ UNCHANGED room

-----------------------------------------------------------------------------
\* The handlers of the page, on what it shows.
Drawn(canvas, line) == IF line = Clear THEN <<>> ELSE Append(canvas, line)

OnPlayersUpdate(v, m) ==
  [v EXCEPT !.players = m.players, !.active = m.active, !.owner = m.owner]

OnRoomUpdate(v, m) ==
  [v EXCEPT !.state = CASE m.state = "PLAYING"  -> "playing"
                        [] m.state = "FINISHED" -> "finished"
                        [] OTHER                -> "waiting"]

\* Mutant: the drawing of the last round stays on the canvas.
StartOnUsedCanvas(v, m) ==
  [v EXCEPT !.state = "playing", !.round = m.round, !.drawer = m.drawer]

OnGameStart(v, m) ==
  [v EXCEPT !.state = "playing", !.round = m.round, !.drawer = m.drawer,
            !.canvas = <<>>]

OnRoundEnd(v) == [v EXCEPT !.drawer = NoUser]

OnGameEnd(v) == [v EXCEPT !.state = "finished", !.drawer = NoUser]

OnMessage(v, m) ==
  CASE m.kind = "room_players_update" -> OnPlayersUpdate(v, m)
    [] m.kind = "room_update"         -> OnRoomUpdate(v, m)
    [] m.kind = "game_start"          -> OnGameStart(v, m)
    [] m.kind = "draw_broadcast"      -> [v EXCEPT !.canvas = Drawn(@, m.line)]
    [] m.kind = "round_end"           -> OnRoundEnd(v)
    [] m.kind = "game_end"            -> OnGameEnd(v)

\* The next message arrives; a page that is still opening misses it, except
\* for the list of players, which is cached and shown when the page is mounted.
Deliver(u) ==
  /\ inbox[u] # <<>>
  /\ inbox' = [inbox EXCEPT ![u] = Tail(@)]
  /\ view' = IF \/ view[u].stage = "mounted"
                \/ Head(inbox[u]).kind = "room_players_update"
             THEN [view EXCEPT ![u] = OnMessage(@, Head(inbox[u]))]
             ELSE view
  /\ UNCHANGED <<room, strokes, astray, moves, drawn>>

Mount(u) ==
  /\ view[u].stage = "opening"
  /\ view' = [view EXCEPT ![u].stage = "mounted"]
  /\ UNCHANGED <<room, inbox, strokes, astray, moves, drawn>>

\* Canvas.jsx: whoever the page takes for the drawer draws on its own canvas
\* at once, and the stroke, of the round the page is in, is sent.
CanDraw(u) == view[u].state = "playing" /\ view[u].drawer = u

Draw(u, line) ==
  /\ CanDraw(u)
  /\ drawn < MaxStrokes /\ drawn' = drawn + 1
  /\ view' = [view EXCEPT ![u].canvas = Drawn(@, line)]
  /\ strokes' = [strokes EXCEPT
                   ![u] = Append(@, [line |-> line, round |-> view[u].round])]
  /\ UNCHANGED <<room, inbox, astray, moves>>

ViewNext ==
  \/ \E u \in Users, m \in RequestedSizes, n \in RequestedRounds :
       CreateAndTell(u, m, n)
  \/ \E u \in Users : JoinAndTell(u)
  \/ \E u \in Users : StartAndTell(u)
  \/ \E u \in Users : GuessAndTell(u)
  \/ \E u \in Users : LeaveAndTell(u)
  \/ TimeoutAndTell
  \/ \E u \in Users : Relay(u)
  \/ \E u \in Users : Deliver(u)
  \/ \E u \in Users : Mount(u)
  \/ \E u \in Users, line \in Lines \cup {Clear} : Draw(u, line)
  \/ \E u \in Users : NewsFromElsewhere(u)
  \/ \E u \in Users, line \in Lines \cup {Clear} : StrokeFromElsewhere(u, line)
  \/ \E u \in Users : RelayElsewhere(u)
  \/ \E u \in Users, line \in Lines \cup {Clear} : DrawFromElsewhere(u, line)
  \/ \E u \in Users : GoneElsewhere(u)

ViewSpec == ViewInit /\ [][ViewNext]_viewVars

-----------------------------------------------------------------------------
Canvases == Seq(Lines)

ViewType ==
  [stage : {"closed", "opening", "mounted"},
   state : {"waiting", "playing", "finished"},
   players : Seq(Users), active : Seq(SeatStates),
   owner : Users \cup {NoUser}, round : Nat,
   drawer : Users \cup {NoUser}, canvas : Canvases]

Kinds == {"room_players_update", "room_update", "game_start", "draw_broadcast",
          "round_end", "game_end"}

\* Pages and queues keep their types; nothing waits for a page that is closed,
\* and a page that is opening shows only the players.
ViewTypeOK ==
  /\ TypeOK
  /\ astray \subseteq {u \in Users : view[u].stage # "closed"}
  /\ view \in [Users -> ViewType]
  /\ \A u \in Users :
       /\ \A m \in Range(inbox[u]) : m.kind \in Kinds
       /\ strokes[u] \in Seq([line : Lines \cup {Clear}, round : Nat])
       /\ view[u].stage = "closed" => view[u] = Blank /\ inbox[u] = <<>>
       /\ view[u].stage = "opening" =>
            [view[u] EXCEPT !.players = <<>>, !.active = <<>>, !.owner = NoUser]
              = Opening

\* The page of user u is open and has been told everything.
UpToDate(u) == view[u].stage = "mounted" /\ inbox[u] = <<>>

(***************************************************************************)
(* A page that has been told everything shows the players, the flags and   *)
(* the owner the room really has, whatever other rooms its user has a seat *)
(* in; and, unless there are such rooms, a game only while one is played,  *)
(* a drawer only in an open round, and in that round the drawer it has.  A *)
(* page never asks for the state of its room: it lives on what each of the *)
(* handlers chose to broadcast, in whatever order joins, leaves, rounds    *)
(* and the mounting of the page came.                                      *)
(***************************************************************************)
ScreensAgree ==
  \A u \in Users : Live(room) /\ UpToDate(u) =>
    LET v == view[u]
    IN  /\ v.players = room.players /\ v.active = room.active
        /\ v.owner = room.owner
        /\ u \notin astray =>
             /\ v.state = "playing" => room.state = "PLAYING"
             /\ v.drawer # NoUser => room.game.open /\ v.round = room.game.round
             /\ room.game.open /\ v.round = room.game.round =>
                  v.drawer = room.game.drawer

\* The lines of a canvas that the server accepts, in their order.
Accepted(canvas) ==
  LET lines[n \in 0..Len(canvas)] ==
        IF n = 0 THEN <<>>
        ELSE IF Valid(canvas[n]) THEN Append(lines[n - 1], canvas[n])
        ELSE lines[n - 1]
  IN  lines[Len(canvas)]

(***************************************************************************)
(* When nothing is on its way, every page that shows the drawer has the    *)
(* drawing of the drawer's own canvas, except for the lines the server     *)
(* rejects: nothing of an earlier round, nothing of somebody who drew      *)
(* after the turn had passed, and no stroke lost around a change of round, *)
(* whatever those draw who have a seat in two rooms, as long as neither    *)
(* the drawer nor the user of the page is one of them.                     *)
(***************************************************************************)
EveryoneSeesTheDrawing ==
  LET d == room.game.drawer
  IN  room.game.open =>
        \A u \in Users \ astray :
          /\ d \notin astray /\ UpToDate(u) /\ UpToDate(d) /\ strokes[d] = <<>>
          /\ view[u].drawer = d /\ view[d].drawer = d /\ u # d
          => view[u].canvas = Accepted(view[d].canvas)

(***************************************************************************)
(* GameRoom.jsx:391 "subscribe right away so that no broadcast is missed": *)
(* a page that has been told everything shows the state of its room.       *)
(***************************************************************************)
NoBroadcastMissed ==
  \A u \in Users \ astray : Live(room) /\ UpToDate(u) =>
    view[u].state = CASE room.state = "PLAYING"  -> "playing"
                      [] room.state = "FINISHED" -> "finished"
                      [] OTHER                   -> "waiting"
=============================================================================
