--------------------------- MODULE RoomViewProofs ---------------------------
(***************************************************************************)
(* What holds of RoomView for every set of users, all bounds and any lines *)
(* they draw.  A page knows its room only from the messages that reached   *)
(* it, so the inductive invariant is about the page and its queue taken    *)
(* together: whatever the page shows is true of the room, or a message     *)
(* still on its way will put it right, and no later one will put it wrong. *)
(* Of the page of a user who is astray, which is told of another room too, *)
(* this is claimed of the list of players only; and of the drawing only    *)
(* while the page of the drawer is open and its user is not astray.        *)
(***************************************************************************)
EXTENDS RoomView, GameRoomProofs

-----------------------------------------------------------------------------
(* The messages with the fields each of them has.                          *)

PlayersMessages ==
  [kind : {"room_players_update"}, players : Seq(Users),
   active : Seq(SeatStates), owner : Users \cup {NoUser}]

StateMessages == [kind : {"room_update"}, state : RoomStates]

StartMessages ==
  [kind : {"game_start"}, round : Nat \ {0}, drawer : Users \cup {NoUser}]

Strokes == Lines \cup {Clear}

LineMessages == [kind : {"draw_broadcast"}, line : Strokes]

EndMessages == [kind : {"round_end", "game_end"}]

Messages ==
  PlayersMessages \cup StateMessages \cup StartMessages \cup LineMessages \cup EndMessages

StrokeMessages == [line : Strokes, round : Nat \ {0}]

-----------------------------------------------------------------------------
(***************************************************************************)
(* The inductive invariant.  v is a page, q its queue, s the strokes on    *)
(* their way from it, r the room and g its game, u the user.               *)
(***************************************************************************)
AllActive(r) == \A i \in Seats(r) : r.active[i] = "active"

\* The seats are all active before the game, and rounds are counted from 1.
RoomOK(r) ==
  /\ Good(r) /\ Sound(r)
  /\ r.state = "WAITING" => AllActive(r)
  /\ r.game.open => r.game.round >= 1

IsPlayers(m) == m.kind = "room_players_update"

IsStart(m) == m.kind = "game_start"

\* The last list of players on its way is the room's, or the page shows it.
PlayersTold(v, q, r) ==
  \/ \E i \in 1..Len(q) :
       q[i] = PlayersUpdate(r) /\ \A j \in (i + 1)..Len(q) : ~IsPlayers(q[j])
  \/ /\ \A i \in 1..Len(q) : ~IsPlayers(q[i])
     /\ v.players = r.players /\ v.active = r.active /\ v.owner = r.owner

\* What a page that is closed or still opening shows, whose page is open, and
\* what such a page is told of the players, from wherever else it is sent news.
StageOK(v, q, s, r, u) ==
  /\ v.stage = "closed" => v = Blank /\ q = <<>> /\ s = <<>>
  /\ v.stage = "opening" =>
       v.state = "waiting" /\ v.round = 0 /\ v.drawer = NoUser /\ v.canvas = <<>>
  /\ v.drawer # NoUser => v.round >= 1
  /\ v.stage # "closed" =>
       r.state # "NONE" /\ (Live(r) => HasPlayer(r, u) /\ PlayersTold(v, q, r))

Starts(m) == IsStart(m) \/ (m.kind = "room_update" /\ m.state = "PLAYING")

Stops(m) == m.kind = "game_end" \/ (m.kind = "room_update" /\ m.state # "PLAYING")

StopFollows(q, k) == \E j \in (k + 1)..Len(q) : Stops(q[j])

\* When no game is played, whatever says so is contradicted later.
StateTold(v, q, r) ==
  r.state # "PLAYING" =>
    /\ v.state = "playing" => StopFollows(q, 0)
    /\ \A i \in 1..Len(q) : Starts(q[i]) => StopFollows(q, i)

EndsRound(m) == m.kind = "round_end" \/ m.kind = "game_end"

EndFollows(q, k) == \E j \in (k + 1)..Len(q) : EndsRound(q[j])

\* A page, a game_start or a stroke that belongs to the open round of game g.
Now(x, g) == g.open /\ x.round = g.round

\* What x says of the drawer is so and stays, or a later message unsays it.
DrawerTold(x, q, k, g) ==
  IF Now(x, g) THEN x.drawer = g.drawer /\ ~EndFollows(q, k)
  ELSE x.drawer # NoUser => EndFollows(q, k)

RoundsTold(v, q, g) ==
  /\ DrawerTold(v, q, 0, g)
  /\ \A i \in 1..Len(q) : IsStart(q[i]) => DrawerTold(q[i], q, i, g)

StartsPast(q, n) == \A i \in 1..Len(q) : IsStart(q[i]) => q[i].round <= n

StrokesPast(s, n) == \A i \in 1..Len(s) : s[i].round <= n

\* No page, message or stroke is ahead of the room.
RoundsPast(v, q, s, r) ==
  r.state \in {"WAITING", "PLAYING"} =>
    /\ v.round <= r.game.round
    /\ StartsPast(q, r.game.round)
    /\ StrokesPast(s, r.game.round)

Told(v, q, s, r) ==
  Live(r) /\ v.stage # "closed" =>
    /\ PlayersTold(v, q, r)
    /\ StateTold(v, q, r)
    /\ RoundsTold(v, q, r.game)
    /\ RoundsPast(v, q, s, r)

\* Only the drawer has strokes of the open round, and is still in that round.
StrokesNow(v, s, g, u) ==
  \A i \in 1..Len(s) : Now(s[i], g) => v.round = g.round /\ u = g.drawer

\* Seat j comes after seat i and before seat p, going around the table.
Between(i, j, p) == IF i < p THEN i < j /\ j < p ELSE i < j \/ j < p

\* The turn has passed seat i, and no active seat has been skipped since.
PassedOver(r, i) ==
  /\ i # r.game.drawer_index
  /\ \A j \in Seats(r) :
       Between(i, j, r.game.drawer_index) => r.active[j] # "active"

\* Something is left of an earlier round in which user u drew.
HadTurn(v, q, s, n, u) ==
  \/ \E i \in 1..Len(s) : s[i].round < n
  \/ v.drawer = u /\ v.round < n
  \/ \E i \in 1..Len(q) : IsStart(q[i]) /\ q[i].drawer = u /\ q[i].round < n

(***************************************************************************)
(* Whoever may still send strokes of an earlier round is not the next to   *)
(* draw: another active player sits in between.                            *)
(***************************************************************************)
TurnAway(v, q, s, r, u) ==
  r.game.open /\ HadTurn(v, q, s, r.game.round, u) =>
    \A i \in Seats(r) : r.players[i] = u => PassedOver(r, i)

PageOK(v, q, s, r, u) ==
  /\ StageOK(v, q, s, r, u)
  /\ Told(v, q, s, r)
  /\ StrokesNow(v, s, r.game, u)
  /\ TurnAway(v, q, s, r, u)

-----------------------------------------------------------------------------
\* A message that paints: a line that was relayed, or a stroke that will be.
Inked(m) == m \in LineMessages \/ (m \in StrokeMessages /\ Valid(m.line))

Paint(c, m) == IF Inked(m) THEN Drawn(c, m.line) ELSE c

\* The canvas c becomes x by the messages of q after the k-th.
Run(c, q, k, x) ==
  \E A \in [k..Len(q) -> Canvases] :
    /\ A[k] = c /\ A[Len(q)] = x
    /\ \A j \in (k + 1)..Len(q) : A[j] = Paint(A[j - 1], q[j])

\* y is what remains of the canvas c without the lines the server rejects.
Visible(y, c) ==
  \E A \in [0..Len(c) -> Canvases] :
    /\ A[0] = <<>> /\ A[Len(c)] = y
    /\ \A j \in 1..Len(c) :
         A[j] = IF Valid(c[j]) THEN Append(A[j - 1], c[j]) ELSE A[j - 1]

\* The drawings which the strokes s of the drawer's page v will make visible.
Target(v, s, g) ==
  {x \in Canvases :
     IF Now(v, g) THEN \E y \in Canvases : Run(x, s, 0, y) /\ Visible(y, v.canvas)
     ELSE x = <<>>}

\* The page, or the k-th message of its queue, shows the open round of g.
Sees(v, q, k, g) == IF k = 0 THEN Now(v, g) ELSE IsStart(q[k]) /\ Now(q[k], g)

\* The canvas of the page once it has seen message k.
CanvasAt(v, k) == IF k = 0 THEN v.canvas ELSE <<>>

\* Once a page sees the open round, its queue only completes the drawing.
Follows(v, q, k, u, g, T) ==
  /\ \A j \in (k + 1)..Len(q) : ~IsStart(q[j])
  /\ u = g.drawer => \A j \in (k + 1)..Len(q) : q[j].kind # "draw_broadcast"
  /\ u # g.drawer => \E x \in T : Run(CanvasAt(v, k), q, k, x)

PageDraws(v, q, u, g, T) ==
  v.stage # "closed" =>
    \A k \in 0..Len(q) : Sees(v, q, k, g) => Follows(v, q, k, u, g, T)

\* A drawer who has not seen the round begin has drawn nothing in it.
DrawerFresh(v, s, g) == ~Now(v, g) => s = <<>>

\* The page of user u is open and only this room's.
Ours(u) == view[u].stage # "closed" /\ u \notin astray

DrawingOK ==
  room.game.open /\ Ours(room.game.drawer) =>
    LET g == room.game
        d == g.drawer
    IN  /\ DrawerFresh(view[d], strokes[d], g)
        /\ \A u \in Users \ astray :
             PageDraws(view[u], inbox[u], u, g, Target(view[d], strokes[d], g))

Typed ==
  /\ view \in [Users -> ViewType]
  /\ inbox \in [Users -> Seq(Messages)]
  /\ strokes \in [Users -> Seq(StrokeMessages)]
  /\ astray \subseteq {u \in Users : view[u].stage # "closed"}

\* A page that is sent news from elsewhere may show anything but false players.
PagesOK ==
  \A u \in Users :
    IF u \in astray
    THEN StageOK(view[u], inbox[u], strokes[u], room, u)
    ELSE PageOK(view[u], inbox[u], strokes[u], room, u)

ViewInv == RoomOK(room) /\ Typed /\ PagesOK /\ DrawingOK

-----------------------------------------------------------------------------
(* Queues: a message is appended, the first one is taken off.              *)

\* Sending several messages is sending one after the other.
LEMMA SentInTurn ==
  ASSUME NEW S, NEW q \in Seq(S), NEW a \in S, NEW b \in S, NEW c \in S
  PROVE  /\ q \o <<>> = q
         /\ q \o <<a>> = Append(q, a)
         /\ q \o <<a, b>> = Append(Append(q, a), b)
         /\ q \o <<a, b, c>> = Append(Append(Append(q, a), b), c)
<1>1. <<a>> \in Seq(S) /\ <<b>> \in Seq(S) /\ <<c>> \in Seq(S) /\ <<a, b>> \in Seq(S)
  OBVIOUS
<1>2. q \o <<a>> = Append(q, a) /\ Append(q, a) \in Seq(S)
  BY AppendIsConcat, AppendProperties
<1>3. <<a, b>> = <<a>> \o <<b>> /\ <<a, b, c>> = <<a, b>> \o <<c>>
  <2> DEFINE t == <<a>> \o <<b>>
             w == <<a, b>>
             x == <<a, b>> \o <<c>>
             y == <<a, b, c>>
  <2>1. t \in Seq(S) /\ Len(t) = 2 /\ t[1] = a /\ t[2] = b
    BY <1>1, ConcatProperties
  <2>2. w \in Seq(S) /\ Len(w) = 2 /\ w[1] = a /\ w[2] = b
    OBVIOUS
  <2>3. x \in Seq(S) /\ Len(x) = 3 /\ x[1] = a /\ x[2] = b /\ x[3] = c
    BY <1>1, ConcatProperties
  <2>4. y \in Seq(S) /\ Len(y) = 3 /\ y[1] = a /\ y[2] = b /\ y[3] = c
    OBVIOUS
  <2> HIDE DEF t, w, x, y
  <2>5. \A i \in 1..Len(t) : t[i] = w[i]
    BY <2>1, <2>2
  <2>6. \A i \in 1..Len(x) : x[i] = y[i]
    BY <2>3, <2>4
  <2>7. t = w /\ x = y
    BY <2>1, <2>2, <2>3, <2>4, <2>5, <2>6, SeqEqual
  <2> QED BY <2>7 DEF t, w, x, y
<1>4. q \o <<a, b>> = Append(Append(q, a), b) /\ Append(Append(q, a), b) \in Seq(S)
  <2>1. (q \o <<a>>) \o <<b>> = q \o (<<a>> \o <<b>>)
    BY <1>1, ConcatAssociative
  <2>2. Append(q, a) \o <<b>> = Append(Append(q, a), b)
        /\ Append(Append(q, a), b) \in Seq(S)
    BY <1>2, AppendIsConcat, AppendProperties
  <2> QED BY <1>2, <1>3, <2>1, <2>2, Zenon
<1>5. q \o <<a, b, c>> = Append(Append(Append(q, a), b), c)
  <2>1. (q \o <<a, b>>) \o <<c>> = q \o (<<a, b>> \o <<c>>)
    BY <1>1, ConcatAssociative
  <2>2. (q \o <<a, b>>) \o <<c>> = Append(Append(Append(q, a), b), c)
    BY <1>4, AppendIsConcat
  <2> QED BY <1>3, <2>1, <2>2, Zenon
<1> QED BY <1>2, <1>4, <1>5, ConcatEmptySeq

\* The elements of a sequence to which one is appended.
LEMMA Appended ==
  ASSUME NEW S, NEW q \in Seq(S), NEW m \in S
  PROVE  /\ Len(q) \in Nat /\ Append(q, m) \in Seq(S)
         /\ Len(Append(q, m)) = Len(q) + 1
         /\ \A i \in 1..Len(q) : Append(q, m)[i] = q[i]
         /\ Append(q, m)[Len(q) + 1] = m
         /\ \A i \in 1..(Len(q) + 1) : i \in 1..Len(q) \/ i = Len(q) + 1
<1>1. Len(q) \in Nat
  BY LenProperties
<1> QED BY <1>1, AppendProperties

\* The elements of a sequence from which the first is taken.
LEMMA TakenOff ==
  ASSUME NEW S, NEW q \in Seq(S), q # <<>>
  PROVE  /\ Len(q) \in Nat /\ Len(q) >= 1 /\ Tail(q) \in Seq(S)
         /\ Head(q) = q[1] /\ Head(q) \in S
         /\ Len(Tail(q)) = Len(q) - 1
         /\ \A i \in 1..Len(Tail(q)) : Tail(q)[i] = q[i + 1]
<1>1. Len(q) \in Nat
  BY LenProperties
<1> QED BY <1>1, HeadTailProperties

\* The elements of a queue are messages.
LEMMA QueueElement ==
  ASSUME NEW S, NEW q \in Seq(S)
  PROVE  Len(q) \in Nat /\ \A i \in 1..Len(q) : q[i] \in S
  BY LenProperties, ElementOfSeq

-----------------------------------------------------------------------------

(* One message more: what the page has been told once it is sent.          *)

\* The messages the server builds from a well typed room are messages.
LEMMA MessagesTyped ==
  ASSUME NEW r, r \in RoomType
  PROVE  /\ PlayersUpdate(r) \in Messages /\ IsPlayers(PlayersUpdate(r))
         /\ RoomUpdate(r) \in Messages
         /\ r.game.round >= 1 => GameStart(r) \in Messages
         /\ RoundEnd \in Messages /\ GameEnd \in Messages
<1>1. PlayersUpdate(r) \in PlayersMessages /\ IsPlayers(PlayersUpdate(r))
  BY DEF PlayersUpdate, PlayersMessages, RoomType, IsPlayers
<1>2. RoomUpdate(r) \in StateMessages
  BY DEF RoomUpdate, StateMessages, RoomType
<1>3. r.game.round >= 1 => GameStart(r) \in StartMessages
  BY DEF GameStart, StartMessages, RoomType, GameType
<1>4. RoundEnd \in EndMessages /\ GameEnd \in EndMessages
  BY DEF RoundEnd, GameEnd, EndMessages
<1> QED BY <1>1, <1>2, <1>3, <1>4 DEF Messages

\* A list of players that is sent is the last one.
LEMMA SendPlayers ==
  ASSUME NEW v, NEW q \in Seq(Messages), NEW r, r \in RoomType
  PROVE  PlayersTold(v, Append(q, PlayersUpdate(r)), r)
<1> DEFINE m == PlayersUpdate(r)
           t == Append(q, m)
<1>1. m \in Messages
  BY MessagesTyped
<1>2. Len(q) \in Nat /\ Len(t) = Len(q) + 1 /\ t[Len(q) + 1] = m
  BY <1>1, Appended
<1> HIDE DEF m, t
<1>3. Len(q) + 1 \in 1..Len(t) /\ t[Len(q) + 1] = m
      /\ \A j \in ((Len(q) + 1) + 1)..Len(t) : ~IsPlayers(t[j])
  BY <1>2
<1>4. PlayersTold(v, t, r)
  BY <1>3 DEF PlayersTold, m
<1> QED BY <1>4 DEF m, t

\* Any other message leaves what the page has been told of the players.
LEMMA PlayersStayTold ==
  ASSUME NEW v, NEW q \in Seq(Messages), NEW m \in Messages, NEW r, NEW r2,
         PlayersTold(v, q, r), ~IsPlayers(m),
         r2.players = r.players, r2.active = r.active, r2.owner = r.owner
  PROVE  PlayersTold(v, Append(q, m), r2)
<1> DEFINE t == Append(q, m)
           n == Len(q)
<1>1. /\ n \in Nat /\ Len(t) = n + 1 /\ \A i \in 1..n : t[i] = q[i]
      /\ t[n + 1] = m /\ \A i \in 1..(n + 1) : i \in 1..n \/ i = n + 1
  BY Appended
<1>2. PlayersUpdate(r2) = PlayersUpdate(r)
  BY DEF PlayersUpdate
<1> HIDE DEF t, n
<1>3. ASSUME NEW i \in 1..n, q[i] = PlayersUpdate(r),
             \A j \in (i + 1)..n : ~IsPlayers(q[j])
      PROVE  PlayersTold(v, t, r2)
  <2>1. i \in 1..Len(t) /\ t[i] = PlayersUpdate(r2)
    BY <1>1, <1>2, <1>3
  <2>2. \A j \in (i + 1)..Len(t) : j \in 1..(n + 1) /\ (j \in (i + 1)..n \/ j = n + 1)
    BY <1>1
  <2>3. \A j \in (i + 1)..n : j \in 1..n
    BY <1>1
  <2>4. \A j \in (i + 1)..Len(t) : ~IsPlayers(t[j])
    BY <1>1, <1>3, <2>2, <2>3
  <2> QED BY <2>1, <2>4 DEF PlayersTold
<1>4. ASSUME \A i \in 1..n : ~IsPlayers(q[i]),
             v.players = r.players /\ v.active = r.active /\ v.owner = r.owner
      PROVE  PlayersTold(v, t, r2)
  <2>1. \A i \in 1..Len(t) : ~IsPlayers(t[i])
    BY <1>1, <1>4
  <2> QED BY <1>4, <2>1 DEF PlayersTold
<1> QED BY <1>3, <1>4 DEF PlayersTold, t, n

\* A message that says that no game is played settles the matter.
LEMMA SendStop ==
  ASSUME NEW v, NEW q \in Seq(Messages), NEW m \in Messages, Stops(m), ~Starts(m), NEW r
  PROVE  StateTold(v, Append(q, m), r)
<1> DEFINE t == Append(q, m)
           n == Len(q)
<1>1. /\ n \in Nat /\ Len(t) = n + 1 /\ t[n + 1] = m
      /\ \A i \in 1..(n + 1) : i \in 1..n \/ i = n + 1
  BY Appended
<1> HIDE DEF t, n
<1>2. \A k \in 0..n : StopFollows(t, k)
  <2> TAKE k \in 0..n
  <2>1. n + 1 \in (k + 1)..Len(t)
    BY <1>1
  <2> QED BY <1>1, <2>1 DEF StopFollows
<1>3. \A i \in 1..Len(t) : Starts(t[i]) => StopFollows(t, i)
  BY <1>1, <1>2
<1> QED BY <1>1, <1>2, <1>3 DEF StateTold, t, n

\* A message that does not start a game leaves a page that shows none.
LEMMA StateStaysTold ==
  ASSUME NEW v, NEW q \in Seq(Messages), NEW m \in Messages, NEW r, NEW r2,
         StateTold(v, q, r), ~Starts(m),
         r2.state # "PLAYING" => r.state # "PLAYING"
  PROVE  StateTold(v, Append(q, m), r2)
<1> DEFINE t == Append(q, m)
           n == Len(q)
<1>1. /\ n \in Nat /\ Len(t) = n + 1 /\ \A i \in 1..n : t[i] = q[i]
      /\ t[n + 1] = m /\ \A i \in 1..(n + 1) : i \in 1..n \/ i = n + 1
  BY Appended
<1> HIDE DEF t
<1>2. \A k \in 0..n : StopFollows(q, k) => StopFollows(t, k)
  <2> SUFFICES ASSUME NEW k \in 0..n, NEW j \in (k + 1)..n, Stops(q[j])
               PROVE  StopFollows(t, k)
    BY DEF StopFollows
  <2>1. j \in (k + 1)..Len(t) /\ t[j] = q[j]
    BY <1>1
  <2> QED BY <2>1 DEF StopFollows
<1> SUFFICES ASSUME r2.state # "PLAYING"
             PROVE  /\ v.state = "playing" => StopFollows(t, 0)
                    /\ \A i \in 1..Len(t) : Starts(t[i]) => StopFollows(t, i)
  BY DEF StateTold, t
<1>3. /\ v.state = "playing" => StopFollows(q, 0)
      /\ \A i \in 1..n : Starts(q[i]) => StopFollows(q, i)
  BY DEF StateTold
<1> HIDE DEF n
<1>4. \A i \in 1..n : i \in 0..n
  BY <1>1
<1>5. \A i \in 1..Len(t) : Starts(t[i]) => StopFollows(t, i)
  BY <1>1, <1>2, <1>3, <1>4
<1> QED BY <1>1, <1>2, <1>3, <1>5

-----------------------------------------------------------------------------
\* An end of a round that follows still follows when more is sent.
LEMMA EndStillFollows ==
  ASSUME NEW q \in Seq(Messages), NEW m \in Messages, NEW k \in Nat
  PROVE  /\ EndFollows(q, k) => EndFollows(Append(q, m), k)
         /\ k <= Len(q) /\ EndsRound(m) => EndFollows(Append(q, m), k)
         /\ ~EndFollows(q, k) /\ ~EndsRound(m) => ~EndFollows(Append(q, m), k)
         /\ k >= Len(q) => ~EndFollows(q, k)
<1> DEFINE t == Append(q, m)
           n == Len(q)
<1>1. /\ n \in Nat /\ Len(t) = n + 1 /\ \A i \in 1..n : t[i] = q[i]
      /\ t[n + 1] = m /\ \A i \in 1..(n + 1) : i \in 1..n \/ i = n + 1
  BY Appended
<1> HIDE DEF t, n
<1>2. EndFollows(q, k) => EndFollows(t, k)
  <2> SUFFICES ASSUME NEW j \in (k + 1)..n, EndsRound(q[j])
               PROVE  EndFollows(t, k)
    BY DEF EndFollows, n
  <2>1. j \in (k + 1)..Len(t) /\ t[j] = q[j]
    BY <1>1
  <2> QED BY <2>1 DEF EndFollows
<1>3. k <= n /\ EndsRound(m) => EndFollows(t, k)
  <2> SUFFICES ASSUME k <= n, EndsRound(m)  PROVE EndFollows(t, k)
    OBVIOUS
  <2>1. n + 1 \in (k + 1)..Len(t)
    BY <1>1
  <2> QED BY <1>1, <2>1 DEF EndFollows
<1>4. ~EndFollows(q, k) /\ ~EndsRound(m) => ~EndFollows(t, k)
  <2> SUFFICES ASSUME ~EndsRound(m), NEW j \in (k + 1)..Len(t), EndsRound(t[j])
               PROVE  EndFollows(q, k)
    BY DEF EndFollows
  <2>1. j # n + 1
    BY <1>1
  <2>2. j \in (k + 1)..n /\ t[j] = q[j]
    BY <1>1, <2>1
  <2> QED BY <2>2 DEF EndFollows, n
<1>5. k >= n => ~EndFollows(q, k)
  <2>1. k >= n => (k + 1)..n = {}
    BY <1>1
  <2> QED BY <2>1 DEF EndFollows, n
<1> QED BY <1>2, <1>3, <1>4, <1>5 DEF t, n

\* The end of a round settles what the page shows of any drawer.
LEMMA SendEnd ==
  ASSUME NEW v, NEW q \in Seq(Messages), NEW m \in Messages,
         EndsRound(m), ~IsStart(m), NEW g, ~g.open
  PROVE  RoundsTold(v, Append(q, m), g)
<1> DEFINE t == Append(q, m)
           n == Len(q)
<1>1. /\ n \in Nat /\ Len(t) = n + 1 /\ t[n + 1] = m
      /\ \A i \in 1..(n + 1) : i \in 1..n \/ i = n + 1
  BY Appended
<1>2. \A k \in 0..n : EndFollows(t, k)
  <2> TAKE k \in 0..n
  <2>1. k \in Nat /\ k <= n
    BY <1>1
  <2> QED BY <2>1, EndStillFollows
<1> HIDE DEF t, n
<1>3. \A x : \A k \in 0..n : DrawerTold(x, t, k, g)
  BY <1>2 DEF DrawerTold, Now
<1>4. \A i \in 1..Len(t) : IsStart(t[i]) => DrawerTold(t[i], t, i, g)
  <2> SUFFICES ASSUME NEW i \in 1..Len(t), IsStart(t[i])
               PROVE  DrawerTold(t[i], t, i, g)
    OBVIOUS
  <2>1. i \in 0..n
    BY <1>1
  <2> QED BY <1>3, <2>1
<1>5. 0 \in 0..n
  BY <1>1
<1> QED BY <1>3, <1>4, <1>5 DEF RoundsTold, t

\* A message that neither starts nor ends a round leaves what is shown of it.
LEMMA RoundsStayTold ==
  ASSUME NEW v, NEW q \in Seq(Messages), NEW m \in Messages, NEW g, NEW h,
         RoundsTold(v, q, g), ~EndsRound(m), ~IsStart(m),
         h.open = g.open, h.open => h.round = g.round /\ h.drawer = g.drawer
  PROVE  RoundsTold(v, Append(q, m), h)
<1> DEFINE t == Append(q, m)
           n == Len(q)
<1>1. /\ n \in Nat /\ Len(t) = n + 1 /\ \A i \in 1..n : t[i] = q[i]
      /\ t[n + 1] = m /\ \A i \in 1..(n + 1) : i \in 1..n \/ i = n + 1
  BY Appended
<1>2. \A k \in Nat : EndFollows(t, k) <=> EndFollows(q, k)
  BY EndStillFollows
<1> HIDE DEF t
<1>3. \A x : \A k \in Nat : DrawerTold(x, q, k, g) => DrawerTold(x, t, k, h)
  BY <1>2 DEF DrawerTold, Now
<1>4. DrawerTold(v, q, 0, g) /\ \A i \in 1..n : IsStart(q[i]) => DrawerTold(q[i], q, i, g)
  BY DEF RoundsTold
<1> HIDE DEF n
<1>5. \A i \in 1..n : i \in Nat
  BY <1>1
<1>6. \A i \in 1..Len(t) : IsStart(t[i]) => DrawerTold(t[i], t, i, h)
  BY <1>1, <1>3, <1>4, <1>5
<1> QED BY <1>3, <1>4, <1>6 DEF RoundsTold, t

\* A round that starts is not the round of any page or message before it.
LEMMA SendStart ==
  ASSUME NEW v, NEW q \in Seq(Messages), NEW g, NEW r, ~g.open, RoundsTold(v, q, g),
         r.game.open, GameStart(r) \in Messages,
         v.round # r.game.round,
         \A i \in 1..Len(q) : IsStart(q[i]) => q[i].round # r.game.round
  PROVE  RoundsTold(v, Append(q, GameStart(r)), r.game)
<1> DEFINE m == GameStart(r)
           t == Append(q, m)
           n == Len(q)
<1>0. /\ m.round = r.game.round /\ m.drawer = r.game.drawer /\ IsStart(m)
  BY DEF GameStart, IsStart
<1> HIDE DEF m
<1>1. /\ n \in Nat /\ Len(t) = n + 1 /\ \A i \in 1..n : t[i] = q[i]
      /\ t[n + 1] = m /\ \A i \in 1..(n + 1) : i \in 1..n \/ i = n + 1
      /\ t \in Seq(Messages)
  BY Appended DEF m
<1>2. \A k \in Nat : EndFollows(q, k) => EndFollows(t, k)
  BY EndStillFollows DEF m
<1> HIDE DEF t
<1>3. DrawerTold(v, t, 0, r.game)
  BY <1>2 DEF DrawerTold, RoundsTold, Now
<1>4. ASSUME NEW i \in 1..n, IsStart(q[i])  PROVE DrawerTold(q[i], t, i, r.game)
  <2>1. DrawerTold(q[i], q, i, g) /\ i \in Nat
    BY <1>1, <1>4 DEF RoundsTold
  <2>2. q[i].round # r.game.round
    BY <1>4
  <2> QED BY <1>2, <2>1, <2>2 DEF DrawerTold, Now
<1>5. DrawerTold(m, t, n + 1, r.game)
  <2>1. ~EndFollows(t, n + 1)
    <3>1. ((n + 1) + 1)..Len(t) = {}
      BY <1>1
    <3> QED BY <3>1 DEF EndFollows
  <2> QED BY <1>0, <2>1 DEF DrawerTold, Now
<1> HIDE DEF n
<1>6. \A i \in 1..Len(t) : IsStart(t[i]) => DrawerTold(t[i], t, i, r.game)
  BY <1>1, <1>4, <1>5
<1> QED BY <1>3, <1>6 DEF RoundsTold, t, m

-----------------------------------------------------------------------------
\* A game_start carries the number of a round.
LEMMA StartTyped ==
  ASSUME NEW m \in Messages
  PROVE  /\ IsStart(m) => m.round \in Nat /\ m.round >= 1
         /\ Inked(m) => m.line \in Strokes /\ m.kind = "draw_broadcast"
         /\ m.kind = "draw_broadcast" => Inked(m)
<1>1. m \in PlayersMessages => m.kind = "room_players_update"
  BY DEF PlayersMessages
<1>2. m \in StateMessages => m.kind = "room_update"
  BY DEF StateMessages
<1>3. m \in StartMessages => m.kind = "game_start" /\ m.round \in Nat /\ m.round >= 1
  BY DEF StartMessages
<1>4. m \in LineMessages => m.kind = "draw_broadcast" /\ m.line \in Strokes
  BY DEF LineMessages
<1>5. m \in EndMessages => m.kind \in {"round_end", "game_end"}
  BY DEF EndMessages
<1>6. m \in StrokeMessages => DOMAIN m = {"line", "round"}
  BY DEF StrokeMessages
<1>7. "kind" \in DOMAIN m
  BY DEF Messages, PlayersMessages, StateMessages, StartMessages, LineMessages, EndMessages
<1>8. m \notin StrokeMessages
  BY <1>6, <1>7
<1> QED BY <1>1, <1>2, <1>3, <1>4, <1>5, <1>8 DEF Messages, IsStart, Inked

\* No game_start is ahead of the room, when one is sent or when rounds advance.
LEMMA StartsStayPast ==
  ASSUME NEW q \in Seq(Messages), NEW n \in Int, NEW k \in Int, n <= k, StartsPast(q, n)
  PROVE  /\ StartsPast(q, k)
         /\ \A m \in Messages : (IsStart(m) => m.round <= k) => StartsPast(Append(q, m), k)
<1>1. StartsPast(q, k)
  <2> SUFFICES ASSUME NEW i \in 1..Len(q), IsStart(q[i])  PROVE q[i].round <= k
    BY DEF StartsPast
  <2>1. q[i].round <= n /\ q[i] \in Messages
    BY QueueElement DEF StartsPast
  <2> QED BY <2>1, StartTyped
<1>2. ASSUME NEW m \in Messages, IsStart(m) => m.round <= k
      PROVE  StartsPast(Append(q, m), k)
  BY <1>1, <1>2, Appended DEF StartsPast
<1> QED BY <1>1, <1>2

\* No stroke is ahead of the room when rounds advance.
LEMMA StrokesStayPast ==
  ASSUME NEW s \in Seq(StrokeMessages), NEW n \in Int, NEW k \in Int, n <= k,
         StrokesPast(s, n)
  PROVE  StrokesPast(s, k)
<1> SUFFICES ASSUME NEW i \in 1..Len(s)  PROVE s[i].round <= k
  BY DEF StrokesPast
<1>1. s[i].round <= n /\ s[i] \in StrokeMessages
  BY QueueElement DEF StrokesPast
<1>2. s[i].round \in Nat
  BY <1>1 DEF StrokeMessages
<1> QED BY <1>1, <1>2

\* Only a game_start of an earlier round tells of one more turn.
LEMMA TurnsSent ==
  ASSUME NEW v, NEW q \in Seq(Messages), NEW s, NEW n, NEW u, NEW m \in Messages,
         HadTurn(v, Append(q, m), s, n, u),
         IsStart(m) => ~(m.round < n)
  PROVE  HadTurn(v, q, s, n, u)
<1>1. CASE (\E i \in 1..Len(s) : s[i].round < n) \/ (v.drawer = u /\ v.round < n)
  BY <1>1 DEF HadTurn
<1>2. CASE \E i \in 1..Len(Append(q, m)) :
             /\ IsStart(Append(q, m)[i]) /\ Append(q, m)[i].drawer = u
             /\ Append(q, m)[i].round < n
  BY <1>2, Appended DEF HadTurn
<1> QED BY <1>1, <1>2 DEF HadTurn

\* The kinds of the messages, as the lemmas above tell them apart.
LEMMA MessageKinds ==
  ASSUME NEW r
  PROVE  /\ IsPlayers(PlayersUpdate(r)) /\ ~IsStart(PlayersUpdate(r))
         /\ ~EndsRound(PlayersUpdate(r)) /\ ~Starts(PlayersUpdate(r))
         /\ ~IsPlayers(RoomUpdate(r)) /\ ~IsStart(RoomUpdate(r)) /\ ~EndsRound(RoomUpdate(r))
         /\ Starts(RoomUpdate(r)) <=> r.state = "PLAYING"
         /\ Stops(RoomUpdate(r)) <=> r.state # "PLAYING"
         /\ ~IsPlayers(GameStart(r)) /\ IsStart(GameStart(r)) /\ ~EndsRound(GameStart(r))
         /\ GameStart(r).round = r.game.round /\ GameStart(r).drawer = r.game.drawer
         /\ ~IsPlayers(RoundEnd) /\ ~IsStart(RoundEnd) /\ EndsRound(RoundEnd)
         /\ ~Starts(RoundEnd)
         /\ ~IsPlayers(GameEnd) /\ ~IsStart(GameEnd) /\ EndsRound(GameEnd)
         /\ ~Starts(GameEnd) /\ Stops(GameEnd)
  BY DEF PlayersUpdate, RoomUpdate, GameStart, RoundEnd, GameEnd, IsPlayers, IsStart,
     EndsRound, Starts, Stops

-----------------------------------------------------------------------------
(* What each operator does to the room the pages are told about.           *)

\* Going around a table of n places: x places on, with or without wrapping.
LEMMA Around ==
  ASSUME NEW n \in Nat, NEW x \in 0..(n - 1)
  PROVE  x % n = x /\ (x + n) % n = x
<1>0. n \in Nat \ {0} /\ x \in Nat /\ x + n \in Nat
  OBVIOUS
<1>1. \A y \in Nat : y \div n \in Nat /\ y % n \in 0..(n - 1) /\ y = n * (y \div n) + (y % n)
  BY <1>0
<1>2. \A d \in Nat : /\ n * d \in Nat /\ d >= 1 => n * d >= n
                     /\ d >= 2 => n * d >= n + n
  <2> SUFFICES ASSUME NEW d \in Nat
               PROVE  n * d \in Nat /\ (d >= 1 => n * d >= n) /\ (d >= 2 => n * d >= n + n)
    OBVIOUS
  <2>1. \A e \in Nat : n * e \in Nat /\ n * (e + 1) = n * e + n /\ n * (e + 2) = n * e + (n + n)
    OBVIOUS
  <2>2. CASE d = 0
    BY <2>1, <2>2
  <2>3. CASE d = 1
    BY <2>3
  <2>4. CASE d >= 2
    <3>1. d - 2 \in Nat /\ (d - 2) + 2 = d
      BY <2>4
    <3>2. n * (d - 2) \in Nat /\ n * d = n * (d - 2) + (n + n)
      BY <2>1, <3>1
    <3> QED BY <3>2
  <2> QED BY <2>2, <2>3, <2>4
<1>3. x % n = x
  <2> DEFINE d == x \div n
             e == x % n
  <2>1. d \in Nat /\ e \in 0..(n - 1) /\ x = n * d + e
    BY <1>0, <1>1
  <2> HIDE DEF d, e
  <2>2. n * d \in Nat /\ (d >= 1 => n * d >= n)
    BY <1>2, <2>1
  <2>3. d = 0
    BY <2>1, <2>2
  <2>4. n * d = 0
    BY <1>0, <2>3
  <2>5. e = x
    BY <2>1, <2>4
  <2> QED BY <2>5 DEF e
<1>4. (x + n) % n = x
  <2> DEFINE d == (x + n) \div n
             e == (x + n) % n
  <2>1. d \in Nat /\ e \in 0..(n - 1) /\ x + n = n * d + e
    BY <1>0, <1>1
  <2> HIDE DEF d, e
  <2>2. n * d \in Nat /\ (d >= 2 => n * d >= n + n)
    BY <1>2, <2>1
  <2>3. d # 0
    <3>1. d = 0 => n * d = 0
      BY <1>0
    <3> QED BY <2>1, <3>1
  <2>4. ~(d >= 2)
    BY <2>1, <2>2
  <2>5. d = 1
    BY <2>1, <2>3, <2>4
  <2>6. n * d = n
    BY <1>0, <2>5
  <2>7. e = x
    BY <2>1, <2>6
  <2> QED BY <2>7 DEF e
<1> QED BY <1>3, <1>4

\* Every seat is some number of places after the drawer's.
LEMMA SeatAhead ==
  ASSUME NEW r, SeatsTyped(r), r.game.drawer_index \in Seats(r), NEW j \in Seats(r)
  PROVE  LET p == r.game.drawer_index
             c == IF j > p THEN j - p ELSE (j - p) + Len(r.players)
         IN  c \in 1..Len(r.players) /\ SeatAfter(r, c) = j
<1> DEFINE n == Len(r.players)
           p == r.game.drawer_index
           c == IF j > p THEN j - p ELSE (j - p) + n
<1>1. n \in Nat /\ p \in 1..n /\ j \in 1..n
  BY SeatFacts DEF Seats
<1> HIDE DEF n, p
<1>2. c \in 1..n
  BY <1>1
<1>3. j - 1 \in 0..(n - 1)
  BY <1>1
<1>4. CASE j > p
  <2>1. (p - 1) + c = j - 1
    BY <1>1, <1>4
  <2>2. ((p - 1) + c) % n = j - 1
    BY <1>1, <1>3, <2>1, Around
  <2>3. SeatAfter(r, c) = (((p - 1) + c) % n) + 1
    BY DEF SeatAfter, n, p
  <2> QED BY <1>1, <1>2, <2>2, <2>3 DEF n, p
<1>5. CASE ~(j > p)
  <2>1. (p - 1) + c = (j - 1) + n
    BY <1>1, <1>5
  <2>2. ((p - 1) + c) % n = j - 1
    BY <1>1, <1>3, <2>1, Around
  <2>3. SeatAfter(r, c) = (((p - 1) + c) % n) + 1
    BY DEF SeatAfter, n, p
  <2> QED BY <1>1, <1>2, <2>2, <2>3 DEF n, p
<1> QED BY <1>2, <1>4, <1>5 DEF n, p

\* One of two active seats is not seat i.
LEMMA TwoActive ==
  ASSUME NEW r, SeatsTyped(r), ActiveCount(r) >= 2, NEW i
  PROVE  \E a \in ActiveSeats(r) : a # i
<1> SUFFICES ASSUME ActiveSeats(r) \subseteq {i}  PROVE FALSE
  OBVIOUS
<1>1. IsFiniteSet({i}) /\ Cardinality({i}) = 1
  BY FS_Singleton
<1>2. Cardinality(ActiveSeats(r)) <= 1
  BY <1>1, FS_Subset
<1>3. Cardinality(ActiveSeats(r)) \in Nat
  BY ActiveCountNat DEF ActiveCount
<1> QED BY <1>2, <1>3 DEF ActiveCount

\* The next to draw is another player, and nobody who is active is skipped.
LEMMA NextSeat ==
  ASSUME NEW r, Base(r), r.state = "PLAYING", r.game.drawer_index \in Seats(r),
         NEW a \in ActiveSeats(r), a # r.game.drawer_index,
         NextRound(r).game.open
  PROVE  LET p == r.game.drawer_index
             i == NextRound(r).game.drawer_index
         IN  i # p /\ \A j \in Seats(r) : Between(p, j, i) => r.active[j] # "active"
<1> DEFINE s == NextRound(r)
           k == s.game.round - r.game.round
           p == r.game.drawer_index
           i == s.game.drawer_index
           n == Len(r.players)
           C(j) == IF j > p THEN j - p ELSE (j - p) + n
<1>1. /\ k > 0 /\ i = SeatAfter(r, k)
      /\ \A j \in 1..(k - 1) : r.active[SeatAfter(r, j)] # "active"
  BY NextRoundTurn
<1>2. k \in Nat
  <2>1. s.game.round \in Nat /\ r.game.round \in Nat
    BY NextRoundGood DEF Good, Base, SeatsTyped, RoomType, GameType
  <2> HIDE DEF s
  <2> QED BY <1>1, <2>1
<1>3. n \in Nat /\ p \in 1..n
  BY SeatFacts DEF Seats, Base
<1>4. i \in 1..n
  <2>1. SeatsTyped(r) /\ Len(r.players) >= 1
    BY <1>3 DEF Base
  <2> HIDE DEF k, i
  <2> QED BY <1>1, <1>2, <2>1, SeatAfterSeat DEF Seats
<1>5. \A j \in 1..n : C(j) \in 1..n /\ SeatAfter(r, C(j)) = j
  BY SeatAhead DEF Base, Seats
<1>6. a \in 1..n /\ r.active[a] = "active"
  BY DEF ActiveSeats, Seats
<1> HIDE DEF s, k, p, i, n
<1>7. C(i) <= k
  <2>1. CASE k <= n
    <3> DEFINE h == IF p + k <= n THEN p + k ELSE (p + k) - n
    <3>1. h \in 1..n /\ C(h) = k
      BY <1>1, <1>2, <1>3, <2>1
    <3>2. h = i
      <4> HIDE DEF h, C
      <4> QED BY <1>1, <1>5, <3>1
    <3> QED BY <1>2, <3>1, <3>2
  <2>2. CASE ~(k <= n)
    BY <1>2, <1>3, <1>4, <1>5, <2>2
  <2> QED BY <2>1, <2>2
<1>8. \A j \in 1..n : C(j) < C(i) => r.active[j] # "active"
  <2> SUFFICES ASSUME NEW j \in 1..n, C(j) < C(i)  PROVE r.active[j] # "active"
    OBVIOUS
  <2>1. C(j) \in 1..n /\ C(i) \in 1..n
    BY <1>4, <1>5
  <2>2. C(j) \in 1..(k - 1)
    <3> HIDE DEF C
    <3> QED BY <1>2, <1>3, <1>7, <2>1
  <2> HIDE DEF C
  <2> QED BY <1>1, <1>5, <2>2
<1>9. i # p
  <2> SUFFICES ASSUME i = p  PROVE FALSE
    OBVIOUS
  <2>1. a # p
    BY DEF p
  <2>2. C(a) < C(i)
    BY <1>3, <1>6, <2>1
  <2> QED BY <1>6, <1>8, <2>2
<1>10. \A j \in 1..n : Between(p, j, i) => C(j) < C(i)
  BY <1>3, <1>4, <1>9 DEF Between
<1> HIDE DEF C
<1> QED BY <1>8, <1>9, <1>10 DEF s, p, i, n, Seats

-----------------------------------------------------------------------------
\* Nothing a page is told of a round has changed.
SameRound(r, s) ==
  /\ s.game.open = r.game.open /\ s.game.round = r.game.round
  /\ s.game.open => s.game.drawer = r.game.drawer
                    /\ s.game.drawer_index = r.game.drawer_index

\* Nothing a page is told of the players has changed.
SamePlayers(r, s) ==
  s.players = r.players /\ s.active = r.active /\ s.owner = r.owner

\* Room s has a later round than r, passed on to another seat in order.
TurnMoved(r, s) ==
  LET p == r.game.drawer_index
      i == s.game.drawer_index
  IN  /\ s.state = "PLAYING" /\ s.game.open /\ s.game.round > r.game.round
      /\ i # p /\ \A j \in Seats(s) : Between(p, j, i) => s.active[j] # "active"

\* A room that is created.
LEMMA CreateFacts ==
  ASSUME NEW u \in Users, NEW m \in 2..MaxPlayersPerRoom, NEW n \in 1..10
  PROVE  LET s == RoomCreate(u, m, n)
         IN  RoomOK(s) /\ Live(s) /\ HasPlayer(s, u) /\ ~s.game.open /\ s.game.round = 0
<1> DEFINE s == RoomCreate(u, m, n)
<1>1. Good(s) /\ Sound(s)
  BY RoomCreateGood, CreateSound
<1>2. /\ s.state = "WAITING" /\ s.players = <<u>> /\ s.active = <<"active">>
      /\ s.game.open = FALSE /\ s.game.round = 0
  BY DEF RoomCreate, NoGame
<1> HIDE DEF s
<1>3. AllActive(s) /\ HasPlayer(s, u)
  BY <1>2 DEF AllActive, HasPlayer, Seats
<1> QED BY <1>1, <1>2, <1>3 DEF RoomOK, Live, s

\* A room without a game in play has no open round.
LEMMA IdleRound ==
  ASSUME NEW r, RoomOK(r), r.state # "PLAYING"
  PROVE  ~r.game.open /\ r.game.round = 0
  BY DEF RoomOK, Good, Base, GameOnlyInPlay, NoGame

\* A room somebody joins: during a round the new seat waits at the end.
LEMMA EnterFacts ==
  ASSUME NEW r, RoomOK(r), Live(r), NEW u \in Users, ~IsFull(r), ~HasPlayer(r, u)
  PROVE  LET s == EnterRoom(r, u)
             n == Len(r.players)
         IN  /\ RoomOK(s) /\ Live(s) /\ HasPlayer(s, u) /\ SameRound(r, s)
             /\ \A w : HasPlayer(r, w) => HasPlayer(s, w)
             /\ s.state # "PLAYING" => r.state # "PLAYING"
             /\ s.state \in {"WAITING", "PLAYING"} => r.state \in {"WAITING", "PLAYING"}
             /\ r.game.open =>
                  /\ Len(s.players) = n + 1 /\ s.players[n + 1] = u
                  /\ s.active[n + 1] # "active"
                  /\ \A i \in 1..n : s.players[i] = r.players[i] /\ s.active[i] = r.active[i]
<1> DEFINE t == RoomAddPlayer(r, u)
           n == Len(r.players)
           s == EnterRoom(r, u)
<1>1. Good(s) /\ Sound(s) /\ Live(s)
  BY EnterRoomGood, EnterRoomSound, EnterRoomLive DEF RoomOK, Good, Base
<1>2. SeatsTyped(r) /\ n \in Nat
  BY SeatFacts DEF RoomOK, Good, Base
<1>3. /\ SeatsTyped(t) /\ Len(t.players) = n + 1
      /\ \A i \in 1..n : t.players[i] = r.players[i] /\ t.active[i] = r.active[i]
      /\ t.players[n + 1] = u
      /\ t.active[n + 1] = IF r.state = "PLAYING" THEN "waiting" ELSE "active"
      /\ t.state = r.state /\ t.game = r.game
  BY <1>2, AddPlayerSeats
<1>4. s = IF IsFull(t) /\ CanStart(t) THEN RoomStartGame(t) ELSE t
  BY DEF EnterRoom
<1> HIDE DEF s, t, n
<1>5. HasPlayer(t, u) /\ \A w : HasPlayer(r, w) => HasPlayer(t, w)
  <2>1. n + 1 \in 1..(n + 1) /\ \A i \in 1..n : i \in 1..(n + 1)
    BY <1>2
  <2> QED BY <1>3, <2>1 DEF HasPlayer, Seats, n
<1>6. CASE s = t
  <2>1. t.state = "WAITING" => AllActive(t)
    <3> SUFFICES ASSUME t.state = "WAITING", NEW i \in 1..(n + 1)
                 PROVE  t.active[i] = "active"
      BY <1>3 DEF AllActive, Seats
    <3>1. AllActive(r) /\ t.active[n + 1] = "active"
      BY <1>3 DEF RoomOK
    <3>2. i \in 1..n \/ i = n + 1
      BY <1>2
    <3> QED BY <1>3, <3>1, <3>2 DEF AllActive, Seats, n
  <2>2. t.game.open => t.game.round >= 1
    BY <1>3 DEF RoomOK
  <2>3. r.game.open => r.state = "PLAYING"
    BY IdleRound
  <2>4. SameRound(r, t)
    BY <1>3 DEF SameRound
  <2> QED BY <1>1, <1>3, <1>5, <1>6, <2>1, <2>2, <2>3, <2>4 DEF RoomOK, s, n
<1>7. CASE CanStart(t) /\ s = RoomStartGame(t)
  <2>1. /\ s.state = "PLAYING" /\ s.players = t.players
        /\ s.game.round = 0 /\ ~s.game.open
    BY <1>3, <1>7, StartGameFields DEF CanStart
  <2>2. r.state = "WAITING" /\ ~r.game.open /\ r.game.round = 0
    BY <1>3, <1>7, IdleRound DEF CanStart
  <2>3. r.game.open = FALSE /\ s.game.open = FALSE
    <3>1. r.game.open \in BOOLEAN
      BY <1>2 DEF SeatsTyped, RoomType, GameType
    <3>2. s.game.open \in BOOLEAN
      BY <1>1 DEF Good, Base, SeatsTyped, RoomType, GameType
    <3> QED BY <2>1, <2>2, <3>1, <3>2
  <2>4. \A w : HasPlayer(t, w) => HasPlayer(s, w)
    BY <2>1 DEF HasPlayer, Seats
  <2>5. SameRound(r, s)
    BY <2>1, <2>2, <2>3 DEF SameRound
  <2> QED BY <1>1, <1>5, <2>1, <2>2, <2>4, <2>5 DEF RoomOK, s, n
<1> QED BY <1>4, <1>6, <1>7

\* A game that starts by START_GAME leaves the seats as they are.
LEMMA StartFacts ==
  ASSUME NEW r, RoomOK(r), CanStart(r)
  PROVE  LET s == FirstRound(RoomStartGame(r))
         IN  /\ RoomOK(s) /\ SamePlayers(r, s)
             /\ s.state = "PLAYING" /\ s.game.open /\ s.game.round = 1
<1> DEFINE t == RoomStartGame(r)
           f == [i \in Seats(r) |-> "active"]
           x == [r EXCEPT !.state = "PLAYING", !.active = f]
           s == FirstRound(t)
<1>1. Good(s) /\ Sound(s)
  BY FirstRoundGood DEF RoomOK
<1>2. /\ r \in RoomType /\ SeatsTyped(r) /\ Len(r.players) \in Nat
      /\ AllActive(r) /\ r.active \in Seq(SeatStates) /\ Len(r.active) = Len(r.players)
  BY SeatFacts DEF RoomOK, Good, Base, SeatsTyped, CanStart, RoomType
<1>3. f = r.active
  <2>1. f \in Seq(SeatStates) /\ Len(f) = Len(r.players)
    BY <1>2, ConstantSeq DEF Seats, SeatStates
  <2>2. \A i \in 1..Len(f) : f[i] = r.active[i]
    BY <1>2, <2>1 DEF AllActive, Seats
  <2> HIDE DEF f
  <2> QED BY <1>2, <2>1, <2>2, SeqEqual
<1>4. t = [x EXCEPT !.game = GameInit(x)]
  BY DEF RoomStartGame
<1> HIDE DEF f
<1>5. x.players = r.players /\ x.active = f /\ x.owner = r.owner /\ x \in RoomType
  BY <1>2, <1>3 DEF RoomType, RoomStates
<1> HIDE DEF x
<1>6. t.players = r.players /\ t.active = f /\ t.owner = r.owner
  BY <1>4, <1>5 DEF RoomType
<1>7. t \in RoomType /\ t.state = "PLAYING"
  BY StartGameGood DEF RoomOK, Good, Base, SeatsTyped
<1> HIDE DEF t
<1>8. /\ s.state = "PLAYING" /\ s.players = r.players /\ s.active = r.active
      /\ s.owner = r.owner /\ s.game.open /\ s.game.round = 1
  BY <1>3, <1>6, <1>7, OpenRoundFields DEF FirstRound
<1> HIDE DEF s
<1> QED BY <1>1, <1>8 DEF RoomOK, SamePlayers, s, t

\* A correct guess concerns scores only.
LEMMA GuessFacts ==
  ASSUME NEW r, RoomOK(r), r.state = "PLAYING", r.game.open,
         NEW u \in Users, HasPlayer(r, u), u # r.game.drawer
  PROVE  LET s == GameHandleGuess(r, u)
         IN  RoomOK(s) /\ SamePlayers(r, s) /\ SameRound(r, s) /\ s.state = "PLAYING"
<1> DEFINE s == GameHandleGuess(r, u)
<1>1. Good(s) /\ Sound(s)
  BY HandleGuessGood, HandleGuessSound DEF RoomOK
<1>2. /\ s.state = r.state /\ s.players = r.players /\ s.active = r.active
      /\ s.owner = r.owner /\ s.game.round = r.game.round
      /\ s.game.drawer = r.game.drawer /\ s.game.drawer_index = r.game.drawer_index
      /\ s.game.open
  BY HandleGuessFields DEF RoomOK
<1>3. s.game.open = r.game.open
  <2>1. s.game.open \in BOOLEAN /\ r.game.open \in BOOLEAN
    BY <1>1 DEF RoomOK, Good, Base, SeatsTyped, RoomType, GameType
  <2> QED BY <1>2, <2>1
<1> HIDE DEF s
<1> QED BY <1>1, <1>2, <1>3 DEF RoomOK, SamePlayers, SameRound, s

\* The end of a round: the game is over, or the turn has moved.
LEMMA NextFacts ==
  ASSUME NEW r, Base(r), Playable(r), r.state = "PLAYING",
         r.game.drawer_index \in Seats(r),
         NEW a \in ActiveSeats(r), a # r.game.drawer_index
  PROVE  LET s == NextRound(r)
         IN  /\ RoomOK(s) /\ Live(s) /\ SamePlayers(r, s)
             /\ \/ s.state = "FINISHED" /\ ~s.game.open
                \/ TurnMoved(r, s)
<1> DEFINE s == NextRound(r)
<1>1. Good(s) /\ Sound(s) /\ Live(s)
  BY NextRoundGood, NextRoundSound, NextRoundLive DEF Base, SeatsTyped
<1>2. r \in RoomType /\ r.game.round \in Nat
  BY DEF Base, SeatsTyped, RoomType, GameType
<1>3. CASE s = RoomEndGame(r)
  <2>1. /\ s.state = "FINISHED" /\ s.players = r.players /\ s.active = r.active
        /\ s.owner = r.owner /\ ~s.game.open
    BY <1>2, <1>3 DEF RoomEndGame, RoomType, NoGame
  <2> HIDE DEF s
  <2> QED BY <1>1, <2>1 DEF RoomOK, SamePlayers, s
<1>4. ASSUME NEW k \in Attempts(r),
             s = OpenRound(r, r.game.round + k, SeatAfter(r, k))
      PROVE  RoomOK(s) /\ SamePlayers(r, s) /\ TurnMoved(r, s)
  <2>1. k \in Nat /\ k >= 1
    BY DEF Attempts
  <2>2. /\ s.state = "PLAYING" /\ s.players = r.players /\ s.active = r.active
        /\ s.owner = r.owner /\ s.game.open /\ s.game.round = r.game.round + k
    BY <1>2, <1>4, OpenRoundFields
  <2>3. /\ s.game.drawer_index # r.game.drawer_index
        /\ \A j \in Seats(r) : Between(r.game.drawer_index, j, s.game.drawer_index)
                                 => r.active[j] # "active"
    BY <2>2, NextSeat
  <2> HIDE DEF s
  <2>4. s.game.round > r.game.round /\ s.game.round >= 1
    BY <1>2, <2>1, <2>2
  <2>5. TurnMoved(r, s)
    BY <2>2, <2>3, <2>4 DEF TurnMoved, Seats
  <2> QED BY <1>1, <2>2, <2>4, <2>5 DEF RoomOK, SamePlayers
<1> HIDE DEF s
<1>5. s = RoomEndGame(r) \/ \E k \in Attempts(r) : s = OpenRound(r, r.game.round + k, SeatAfter(r, k))
  BY NextRoundCases DEF s
<1>6. s = RoomEndGame(r) => s.state = "FINISHED" /\ ~s.game.open /\ RoomOK(s) /\ SamePlayers(r, s)
  <2>1. RoomEndGame(r).state = "FINISHED" /\ ~RoomEndGame(r).game.open
    BY <1>2 DEF RoomEndGame, RoomType, NoGame
  <2>2. /\ RoomEndGame(r).players = r.players /\ RoomEndGame(r).active = r.active
        /\ RoomEndGame(r).owner = r.owner
    BY <1>2 DEF RoomEndGame, RoomType
  <2> QED BY <1>1, <2>1, <2>2 DEF RoomOK, SamePlayers
<1> QED BY <1>1, <1>4, <1>5, <1>6 DEF s

\* The seats after room_remove_player.
LEMMA RemovedSeats ==
  ASSUME NEW r, SeatsTyped(r), SeatsDistinct(r), NEW u \in Users, HasPlayer(r, u)
  PROVE  LET s == RoomRemovePlayer(r, u)
         IN  /\ \A w : w # u /\ HasPlayer(r, w) => HasPlayer(s, w)
             /\ r.state = "PLAYING" =>
                  /\ s.players = r.players
                  /\ \A i \in Seats(r) : r.players[i] = u => s.active[i] # "active"
             /\ r.state # "PLAYING" /\ AllActive(r) => AllActive(s)
<1> DEFINE v == Vacated(r, u)
           s == RoomRemovePlayer(r, u)
           k == SeatOf(r, u)
           n == Len(r.players)
<1>1. k \in 1..n /\ r.players[k] = u /\ n \in Nat
  BY SeatOfUser, SeatFacts DEF Seats
<1>2. SeatsTyped(v) /\ v.state = r.state
  BY MarkSeat, ShiftSeat
<1>3. s = PassOwnership(v, u)
  BY DEF RoomRemovePlayer, Vacated
<1>4. s.players = v.players /\ s.active = v.active
  <2>1. v \in RoomType
    BY <1>2 DEF SeatsTyped
  <2> HIDE DEF v, s
  <2> QED BY <1>3, <2>1 DEF PassOwnership, RoomType
<1>5. /\ r \in RoomType /\ r.active \in Seq(SeatStates) /\ Len(r.active) = n
      /\ r.players \in Seq(Users)
  BY DEF SeatsTyped, RoomType
<1> HIDE DEF s
<1>6. CASE r.state = "PLAYING"
  <2>1. v.players = r.players
    BY <1>6, MarkSeat
  <2>2. v.active = [r.active EXCEPT ![k] = "left"]
    BY <1>5, <1>6 DEF Vacated, RoomType
  <2>3. k \in 1..Len(r.active)
    BY <1>1, <1>5
  <2>4. v.active[k] = "left"
    <3> HIDE DEF v, k
    <3> QED BY <1>5, <2>2, <2>3, ExceptSeq DEF SeatStates
  <2> HIDE DEF v
  <2>5. \A i \in Seats(r) : r.players[i] = u => i = k
    BY <1>1 DEF SeatsDistinct, Seats
  <2> QED BY <1>4, <1>6, <2>1, <2>4, <2>5 DEF HasPlayer, Seats, s
<1>7. CASE r.state # "PLAYING"
  <2>1. \A w : w # u /\ HasPlayer(r, w) => HasPlayer(v, w)
    <3> SUFFICES ASSUME NEW i \in Seats(r), r.players[i] # u
                 PROVE  \E j \in Seats(v) : v.players[j] = r.players[i]
      BY DEF HasPlayer
    <3> QED BY <1>7, ShiftSeat
  <2>2. v.players = RemoveAt(r.players, k) /\ v.active = RemoveAt(r.active, k)
    BY <1>5, <1>7 DEF Vacated, RoomType
  <2>3. k \in 1..Len(r.active)
    BY <1>1, <1>5
  <2> HIDE DEF v, k, n
  <2>4. Len(v.players) = n - 1 /\ \A j \in 1..(n - 1) :
          v.active[j] = IF j < k THEN r.active[j] ELSE r.active[j + 1]
    BY <1>1, <1>5, <2>2, <2>3, RemoveAtSeat DEF n
  <2>5. AllActive(r) => AllActive(v)
    <3> SUFFICES ASSUME \A i \in 1..n : r.active[i] = "active", NEW j \in 1..(n - 1)
                 PROVE  v.active[j] = "active"
      BY <2>4 DEF AllActive, Seats, n
    <3>1. j \in 1..n /\ j + 1 \in 1..n
      BY <1>1
    <3> QED BY <2>4, <3>1
  <2> QED BY <1>4, <1>7, <2>1, <2>5 DEF HasPlayer, AllActive, Seats, s
<1> QED BY <1>6, <1>7

-----------------------------------------------------------------------------
(* The four ways in which a leave can change the room r of user u to s.    *)

\* Nobody was active any more: the room is gone.
RoomGone(s, msgs) ==
  s.state = "DESTROYED" /\ ~s.game.open /\ msgs \in Seq(Messages)

\* The game ends because too few players are left.
GameCut(r, s, msgs) ==
  /\ s.state = "FINISHED" /\ ~s.game.open /\ Live(s)
  /\ msgs = <<GameEnd, PlayersUpdate(s)>>

\* The drawer has gone: the round is replaced, or was the last one.
DrawerGone(r, u, s, msgs) ==
  /\ Live(s) /\ r.state = "PLAYING" /\ r.game.open /\ r.game.drawer = u
  /\ s.players = r.players /\ ActiveSeats(s) \subseteq ActiveSeats(r)
  /\ s.active[r.game.drawer_index] # "active"
  /\ \/ s.state = "FINISHED" /\ ~s.game.open
     \/ TurnMoved(r, s) /\ \E a \in ActiveSeats(s) : a # s.game.drawer_index
  /\ msgs = <<PlayersUpdate(s)>> \o RoundMessages(s)

\* Somebody else has gone.
SeatGone(r, u, s, msgs) ==
  /\ Live(s) /\ s.state = r.state /\ SameRound(r, s)
  /\ r.game.open => /\ r.game.drawer # u
                    /\ s.players = r.players /\ ActiveSeats(s) \subseteq ActiveSeats(r)
  /\ msgs = <<PlayersUpdate(s)>>

\* A leave changes the room in one of these ways, and the others keep their seats.
LEMMA LeaveFacts ==
  ASSUME NEW r, RoomOK(r), Live(r), NEW u \in Users, HasPlayer(r, u)
  PROVE  LET s == LeaveRoom(r, u)
             msgs == LeaveMessages(r, u)
         IN  /\ RoomOK(s)
             /\ \A w : w # u /\ HasPlayer(r, w) =>
                  /\ HasPlayer(RoomRemovePlayer(r, u), w)
                  /\ Live(s) => HasPlayer(s, w)
             /\ \/ RoomGone(s, msgs) \/ GameCut(r, s, msgs)
                \/ DrawerGone(r, u, s, msgs) \/ SeatGone(r, u, s, msgs)
<1> DEFINE t == RoomRemovePlayer(r, u)
           ends == r.state = "PLAYING" /\ TooFewToPlay(t)
           kept == EnsureActiveOwner(IF ends THEN RoomEndGame(t) ELSE t)
           s == LeaveRoom(r, u)
           msgs == LeaveMessages(r, u)
<1>1. Good(s) /\ Sound(s)
  BY LeaveRoomGood, LeaveRoomSound DEF RoomOK
<1>2. SeatsTyped(r) /\ SeatsDistinct(r) /\ Good(r) /\ Sound(r) /\ r \in RoomType
  BY DEF RoomOK, Good, Base, SeatsTyped
<1>3. /\ \A w : w # u /\ HasPlayer(r, w) => HasPlayer(t, w)
      /\ r.state = "PLAYING" =>
           /\ t.players = r.players
           /\ \A i \in Seats(r) : r.players[i] = u => t.active[i] # "active"
      /\ r.state # "PLAYING" /\ AllActive(r) => AllActive(t)
  BY <1>2, RemovedSeats
<1>4. s = IF ActiveSeats(t) = {} THEN Destroyed
          ELSE IF RoundOfDrawer(r, u) /\ ~ends THEN NextRound(kept) ELSE kept
  BY DEF LeaveRoom
<1>5. msgs = (IF ends THEN <<GameEnd>> ELSE <<>>) \o
             (IF s = Destroyed THEN <<>> ELSE <<PlayersUpdate(s)>>) \o
             (IF RoundOfDrawer(r, u) /\ ~ends THEN RoundMessages(s) ELSE <<>>)
  BY DEF LeaveMessages, GameEndsWithout
<1>6. ~Live(Destroyed) /\ ~Destroyed.game.open /\ Destroyed.state = "DESTROYED"
  BY DEF Destroyed, NoRoom, NoGame, Live
<1>7. s.game.open \in BOOLEAN /\ r.game.open \in BOOLEAN
  BY <1>1, <1>2 DEF Good, Base, SeatsTyped, RoomType, GameType
<1>8. r.game.open => r.state = "PLAYING"
  BY <1>2, IdleRound
<1>9. ActiveSeats(t) # {} =>
         /\ Base(t) /\ IsActive(t, t.owner) /\ t.state = r.state
         /\ r.game.open /\ r.game.drawer # u => DrawerSeated(t)
         /\ t.game = r.game /\ t.total_rounds = r.total_rounds
         /\ r.state = "PLAYING" =>
              t.players = r.players /\ ActiveSeats(t) \subseteq ActiveSeats(r)
  BY <1>2, RemovePlayerBase
<1> HIDE DEF s, msgs, t
<1>10. CASE ActiveSeats(t) = {}
  <2>1. s = Destroyed
    BY <1>4, <1>10
  <2>2. ActiveCount(t) < 2
    BY <1>10, FS_EmptySet DEF ActiveCount
  <2>3. ~(RoundOfDrawer(r, u) /\ ~ends)
    BY <2>2 DEF RoundOfDrawer, TooFewToPlay
  <2>4. msgs \in Seq(Messages)
    <3>1. <<GameEnd>> \in Seq(Messages) /\ <<>> \in Seq(Messages)
      BY <1>2, MessagesTyped
    <3>2. msgs = (IF ends THEN <<GameEnd>> ELSE <<>>) \o <<>> \o <<>>
      BY <1>5, <2>1, <2>3
    <3> QED BY <3>1, <3>2, ConcatProperties
  <2>5. RoomOK(s)
    BY <1>1, <1>6, <2>1 DEF RoomOK
  <2> QED BY <1>3, <1>6, <2>1, <2>4, <2>5 DEF RoomGone, s, msgs, t
<1>11. CASE ActiveSeats(t) # {} /\ ends
  <2>1. IsActive(RoomEndGame(t), RoomEndGame(t).owner)
    BY <1>9, <1>11, EndGameGood
  <2>2. s = RoomEndGame(t)
    BY <1>4, <1>11, <2>1 DEF EnsureActiveOwner
  <2>3. s.state = "FINISHED" /\ ~s.game.open /\ s.players = t.players
    BY <1>9, <1>11, <2>2 DEF RoomEndGame, NoGame, Base, SeatsTyped, RoomType
  <2>4. s # Destroyed
    BY <1>6, <2>3
  <2>5. msgs = <<GameEnd, PlayersUpdate(s)>>
    <3>1. s \in RoomType /\ PlayersUpdate(s) \in Messages /\ GameEnd \in Messages
      BY <1>1, MessagesTyped DEF Good, Base, SeatsTyped
    <3>2. msgs = <<GameEnd>> \o <<PlayersUpdate(s)>> \o <<>>
      BY <1>5, <1>11, <2>4
    <3>3. <<GameEnd>> \in Seq(Messages) /\ <<>> \in Seq(Messages)
      BY <3>1
    <3>4. /\ <<>> \o <<GameEnd>> = Append(<<>>, GameEnd) /\ <<>> \o <<GameEnd>> = <<GameEnd>>
          /\ <<GameEnd>> \o <<PlayersUpdate(s)>> = Append(<<GameEnd>>, PlayersUpdate(s))
          /\ <<>> \o <<GameEnd, PlayersUpdate(s)>> = Append(Append(<<>>, GameEnd), PlayersUpdate(s))
      BY <3>1, <3>3, SentInTurn, ConcatEmptySeq
    <3>5. <<GameEnd, PlayersUpdate(s)>> \in Seq(Messages)
      BY <3>1
    <3>6. <<>> \o <<GameEnd, PlayersUpdate(s)>> = <<GameEnd, PlayersUpdate(s)>>
          /\ <<GameEnd, PlayersUpdate(s)>> \o <<>> = <<GameEnd, PlayersUpdate(s)>>
      BY <3>5, ConcatEmptySeq
    <3> QED BY <3>2, <3>4, <3>6, Zenon
  <2>6. Live(s) /\ \A w : HasPlayer(t, w) => HasPlayer(s, w)
    BY <2>3 DEF Live, HasPlayer, Seats
  <2>7. RoomOK(s)
    BY <1>1, <2>3 DEF RoomOK
  <2> QED BY <1>3, <2>3, <2>5, <2>6, <2>7 DEF GameCut, s, msgs, t

<1>12. ASSUME ActiveSeats(t) # {}, ~ends
       PROVE  /\ (IF ends THEN RoomEndGame(t) ELSE t) = t /\ kept = t
              /\ msgs = IF s = Destroyed THEN <<>> \o <<>> \o (IF RoundOfDrawer(r, u) THEN RoundMessages(s) ELSE <<>>)
                        ELSE <<>> \o <<PlayersUpdate(s)>> \o (IF RoundOfDrawer(r, u) THEN RoundMessages(s) ELSE <<>>)
              /\ r.state = "PLAYING" => ActiveCount(t) >= 2
  <2>1. (IF ends THEN RoomEndGame(t) ELSE t) = t
    BY <1>12
  <2>2. kept = t
    BY <1>9, <1>12, <2>1 DEF EnsureActiveOwner
  <2>3. r.state = "PLAYING" => ActiveCount(t) >= 2
    BY <1>9, <1>12, ActiveCountNat DEF TooFewToPlay, Base
  <2> HIDE DEF kept
  <2> QED BY <1>5, <1>12, <2>1, <2>2, <2>3
<1>13. \A x \in Messages : <<>> \o <<x>> = <<x>> /\ <<x>> \o <<>> = <<x>>
  <2> SUFFICES ASSUME NEW x \in Messages  PROVE <<>> \o <<x>> = <<x>> /\ <<x>> \o <<>> = <<x>>
    OBVIOUS
  <2>1. <<x>> \in Seq(Messages)
    OBVIOUS
  <2> QED BY <2>1, ConcatEmptySeq
<1>14. PlayersUpdate(s) \in Messages
  BY <1>1, MessagesTyped DEF Good, Base, SeatsTyped
<1>15. CASE ActiveSeats(t) # {} /\ ~ends /\ RoundOfDrawer(r, u)
  <2> DEFINE p == r.game.drawer_index
  <2>1. r.state = "PLAYING" /\ r.game.open /\ r.game.drawer = u /\ ActiveCount(t) >= 2
    BY <1>12, <1>15 DEF RoundOfDrawer
  <2>2. s = NextRound(t)
    BY <1>4, <1>12, <1>15
  <2>3. Base(t) /\ t.state = "PLAYING" /\ t.game = r.game /\ t.players = r.players
        /\ ActiveSeats(t) \subseteq ActiveSeats(r) /\ t.total_rounds = r.total_rounds
    BY <1>9, <1>15, <2>1
  <2>4. Playable(t)
    BY <1>2, <2>1, <2>3 DEF Sound, Playable, RoundsCounted, EnoughActive, ActiveScored, Live
  <2>5. p \in Seats(r) /\ r.players[p] = u
    BY <1>2, <2>1 DEF Good, DrawerSeated
  <2>6. t.active[p] # "active" /\ p \in Seats(t) /\ t.game.drawer_index = p
    BY <1>3, <2>1, <2>3, <2>5 DEF Seats
  <2>7. PICK a \in ActiveSeats(t) : a # p
    BY <2>1, <2>3, TwoActive DEF Base
  <2>8. /\ Live(s) /\ SamePlayers(t, s) /\ RoomOK(s)
        /\ (s.state = "FINISHED" /\ ~s.game.open) \/ TurnMoved(t, s)
    BY <2>2, <2>3, <2>4, <2>6, <2>7, NextFacts
  <2>9. ActiveSeats(s) = ActiveSeats(t) /\ s.players = r.players /\ s.active[p] # "active"
    BY <2>3, <2>6, <2>8 DEF SamePlayers, ActiveSeats, Seats
  <2>10. TurnMoved(t, s) => TurnMoved(r, s)
    BY <2>3 DEF TurnMoved
  <2>11. \E b \in ActiveSeats(s) : b # s.game.drawer_index
    BY <2>1, <2>3, <2>9, TwoActive DEF Base
  <2>12. s # Destroyed
    BY <1>6, <2>8
  <2>13. msgs = <<PlayersUpdate(s)>> \o RoundMessages(s)
    BY <1>12, <1>13, <1>14, <1>15, <2>12
  <2>14. DrawerGone(r, u, s, msgs)
    BY <2>1, <2>3, <2>8, <2>9, <2>10, <2>11, <2>13 DEF DrawerGone
  <2>15. \A w : HasPlayer(t, w) => HasPlayer(s, w)
    BY <2>3, <2>9 DEF HasPlayer, Seats
  <2> QED BY <1>3, <2>8, <2>14, <2>15 DEF s, msgs, t
<1>16. CASE ActiveSeats(t) # {} /\ ~ends /\ ~RoundOfDrawer(r, u)
  <2>1. s = t
    BY <1>4, <1>12, <1>16
  <2>2. Live(s) /\ s # Destroyed /\ s.state = r.state /\ s.game = r.game
    BY <1>6, <1>9, <1>16, <2>1 DEF Live
  <2>3. msgs = <<PlayersUpdate(s)>>
    BY <1>12, <1>13, <1>14, <1>16, <2>2
  <2>4. RoomOK(s)
    BY <1>1, <1>3, <2>1, <2>2 DEF RoomOK
  <2>5. r.game.open => /\ r.game.drawer # u /\ s.players = r.players
                       /\ ActiveSeats(s) \subseteq ActiveSeats(r)
    BY <1>8, <1>9, <1>16, <2>1 DEF RoundOfDrawer
  <2>6. SeatGone(r, u, s, msgs)
    BY <2>2, <2>3, <2>5 DEF SeatGone, SameRound
  <2> QED BY <1>3, <2>1, <2>4, <2>6 DEF s, msgs, t
<1> QED BY <1>10, <1>11, <1>15, <1>16

-----------------------------------------------------------------------------
(* What an open page knows of its room once the messages of a handler that *)
(* changed room r to r2 have been sent.                                    *)

Knows(v, q, s, r) ==
  /\ PlayersTold(v, q, r)
  /\ StateTold(v, q, r)
  /\ RoundsTold(v, q, r.game)
  /\ RoundsPast(v, q, s, r)

Playing(r) == r.state \in {"WAITING", "PLAYING"}

\* The list of players is sent; the round is the same.
LEMMA KnowsPlayers ==
  ASSUME NEW v, NEW q \in Seq(Messages), NEW s \in Seq(StrokeMessages),
         NEW r, NEW r2, RoomOK(r2), SameRound(r, r2),
         r2.state # "PLAYING" => r.state # "PLAYING", Playing(r2) => Playing(r),
         StateTold(v, q, r), RoundsTold(v, q, r.game), RoundsPast(v, q, s, r)
  PROVE  Knows(v, Append(q, PlayersUpdate(r2)), s, r2)
<1> DEFINE m == PlayersUpdate(r2)
<1>1. r2 \in RoomType /\ r2.game.round \in Int
  BY DEF RoomOK, Good, Base, SeatsTyped, RoomType, GameType
<1>2. m \in Messages /\ ~EndsRound(m) /\ ~IsStart(m) /\ ~Starts(m)
  BY <1>1, MessagesTyped, MessageKinds
<1>3. PlayersTold(v, Append(q, m), r2)
  BY <1>1, SendPlayers
<1> HIDE DEF m
<1>4. StateTold(v, Append(q, m), r2)
  BY <1>2, StateStaysTold
<1>5. RoundsTold(v, Append(q, m), r2.game)
  <2>1. /\ r2.game.open = r.game.open
        /\ r2.game.open => r2.game.round = r.game.round /\ r2.game.drawer = r.game.drawer
    BY DEF SameRound
  <2> QED BY <1>2, <2>1, RoundsStayTold
<1>6. RoundsPast(v, Append(q, m), s, r2)
  <2> SUFFICES ASSUME Playing(r2)
               PROVE  /\ v.round <= r2.game.round
                      /\ StartsPast(Append(q, m), r2.game.round)
                      /\ StrokesPast(s, r2.game.round)
    BY DEF RoundsPast, Playing
  <2>1. /\ v.round <= r2.game.round /\ StartsPast(q, r2.game.round)
        /\ StrokesPast(s, r2.game.round)
    BY DEF RoundsPast, Playing, SameRound
  <2> QED BY <1>1, <1>2, <2>1, StartsStayPast
<1> QED BY <1>3, <1>4, <1>5, <1>6 DEF Knows, m

\* JOIN_ROOM: the list of players, then the state of the room.
LEMMA KnowsJoin ==
  ASSUME NEW v, NEW q \in Seq(Messages), NEW s \in Seq(StrokeMessages),
         NEW r, NEW r2, RoomOK(r2), SameRound(r, r2),
         r2.state # "PLAYING" => r.state # "PLAYING", Playing(r2) => Playing(r),
         StateTold(v, q, r), RoundsTold(v, q, r.game), RoundsPast(v, q, s, r)
  PROVE  Knows(v, Append(Append(q, PlayersUpdate(r2)), RoomUpdate(r2)), s, r2)
<1> DEFINE p == Append(q, PlayersUpdate(r2))
           m == RoomUpdate(r2)
<1>1. r2 \in RoomType /\ r2.game.round \in Int
  BY DEF RoomOK, Good, Base, SeatsTyped, RoomType, GameType
<1>2. p \in Seq(Messages) /\ m \in Messages
  BY <1>1, MessagesTyped, Appended
<1>3. Knows(v, p, s, r2)
  BY KnowsPlayers
<1>4. /\ ~IsPlayers(m) /\ ~IsStart(m) /\ ~EndsRound(m)
      /\ Starts(m) <=> r2.state = "PLAYING"
      /\ Stops(m) <=> r2.state # "PLAYING"
  BY MessageKinds
<1> HIDE DEF p, m
<1>5. PlayersTold(v, Append(p, m), r2)
  BY <1>2, <1>3, <1>4, PlayersStayTold DEF Knows
<1>6. StateTold(v, Append(p, m), r2)
  <2>1. CASE r2.state = "PLAYING"
    BY <2>1 DEF StateTold
  <2>2. CASE r2.state # "PLAYING"
    BY <1>2, <1>4, <2>2, SendStop
  <2> QED BY <2>1, <2>2
<1>7. RoundsTold(v, Append(p, m), r2.game)
  BY <1>2, <1>3, <1>4, RoundsStayTold DEF Knows
<1>8. RoundsPast(v, Append(p, m), s, r2)
  BY <1>1, <1>2, <1>3, <1>4, StartsStayPast DEF Knows, RoundsPast
<1> QED BY <1>5, <1>6, <1>7, <1>8 DEF Knows, p, m

\* A game_start: the round is later than everything the page knows of.
LEMMA KnowsStart ==
  ASSUME NEW v, v \in ViewType, NEW q \in Seq(Messages), NEW s \in Seq(StrokeMessages),
         NEW n \in Nat, NEW r2, RoomOK(r2), r2.state = "PLAYING",
         r2.game.open, r2.game.round > n, NEW g, ~g.open,
         PlayersTold(v, q, r2), RoundsTold(v, q, g),
         v.round <= n, StartsPast(q, n), StrokesPast(s, n)
  PROVE  Knows(v, Append(q, GameStart(r2)), s, r2)
<1> DEFINE m == GameStart(r2)
           k == r2.game.round
<1>1. r2 \in RoomType /\ k \in Int
  BY DEF RoomOK, Good, Base, SeatsTyped, RoomType, GameType
<1>2. m \in Messages
  <2>1. k >= 1
    BY <1>1
  <2> QED BY <1>1, <2>1, MessagesTyped
<1>3. ~IsPlayers(m) /\ IsStart(m) /\ m.round = k
  BY MessageKinds
<1>4. v.round # k /\ v.round <= k /\ n <= k
  BY <1>1 DEF ViewType
<1>5. \A i \in 1..Len(q) : IsStart(q[i]) => q[i].round # k
  BY <1>1, QueueElement, StartTyped DEF StartsPast
<1>6. RoundsTold(v, Append(q, m), r2.game)
  BY <1>2, <1>4, <1>5, SendStart
<1> HIDE DEF m
<1>7. PlayersTold(v, Append(q, m), r2)
  BY <1>2, <1>3, PlayersStayTold
<1>8. StateTold(v, Append(q, m), r2)
  BY DEF StateTold
<1>9. n \in Int
  OBVIOUS
<1>10. StartsPast(Append(q, m), k) /\ StrokesPast(s, k)
  <2>1. IsStart(m) => m.round <= k
    BY <1>1, <1>3
  <2> QED BY <1>1, <1>2, <1>4, <1>9, <2>1, StartsStayPast, StrokesStayPast
<1> QED BY <1>4, <1>6, <1>7, <1>8, <1>10 DEF Knows, RoundsPast, m

\* A closed game, for the moment between round_end and what comes next.
NoRound == [open |-> FALSE]

\* The end of a round and what follows it, when the page knows the players.
LEMMA KnowsRound ==
  ASSUME NEW v, v \in ViewType, NEW q \in Seq(Messages), NEW s \in Seq(StrokeMessages),
         NEW r, r \in RoomType, NEW r2, RoomOK(r2), r.state = "PLAYING",
         \/ r2.state = "FINISHED" /\ ~r2.game.open
         \/ r2.state = "PLAYING" /\ r2.game.open /\ r2.game.round > r.game.round,
         PlayersTold(v, q, r2), RoundsPast(v, q, s, r)
  PROVE  /\ q \o RoundMessages(r2) \in Seq(Messages)
         /\ q \o RoundMessages(r2) =
              Append(Append(q, RoundEnd), IF r2.game.open THEN GameStart(r2) ELSE GameEnd)
         /\ Knows(v, q \o RoundMessages(r2), s, r2)
<1> DEFINE p == Append(q, RoundEnd)
           m == IF r2.game.open THEN GameStart(r2) ELSE GameEnd
           n == r.game.round
<1>1. r2 \in RoomType /\ n \in Nat /\ n \in Int
  BY DEF RoomOK, Good, Base, SeatsTyped, RoomType, GameType
<1>2. RoundEnd \in Messages /\ m \in Messages
  BY <1>1, MessagesTyped DEF RoomOK
<1>3. p \in Seq(Messages)
  BY <1>2, Appended
<1>4. q \o RoundMessages(r2) = Append(p, m) /\ Append(p, m) \in Seq(Messages)
  <2>1. RoundMessages(r2) = <<RoundEnd, m>>
    BY DEF RoundMessages
  <2> HIDE DEF m
  <2>2. q \o <<RoundEnd, m>> = Append(p, m)
    BY <1>2, SentInTurn
  <2> HIDE DEF p
  <2> QED BY <1>2, <1>3, <2>1, <2>2, Appended
<1>5. PlayersTold(v, p, r2)
  BY <1>2, MessageKinds, PlayersStayTold
<1>6. RoundsTold(v, p, NoRound)
  BY <1>2, MessageKinds, SendEnd DEF NoRound
<1>7. v.round <= n /\ StartsPast(p, n) /\ StrokesPast(s, n)
  <2>1. v.round <= n /\ StartsPast(q, n) /\ StrokesPast(s, n)
    BY DEF RoundsPast
  <2>2. ~IsStart(RoundEnd) /\ n <= n
    BY <1>1, MessageKinds
  <2> QED BY <1>1, <1>2, <2>1, <2>2, StartsStayPast
<1> HIDE DEF p
<1>8. CASE r2.state = "PLAYING" /\ r2.game.open /\ r2.game.round > n
  <2>1. ~NoRound.open
    BY DEF NoRound
  <2>2. Knows(v, Append(p, GameStart(r2)), s, r2)
    BY <1>1, <1>3, <1>5, <1>6, <1>7, <1>8, <2>1, KnowsStart
  <2> QED BY <1>4, <1>8, <2>2 DEF p
<1>9. CASE r2.state = "FINISHED" /\ ~r2.game.open
  <2>1. m = GameEnd
    BY <1>9
  <2>2. ~IsPlayers(m) /\ ~IsStart(m) /\ EndsRound(m) /\ ~Starts(m) /\ Stops(m)
    BY <2>1, MessageKinds
  <2> HIDE DEF m
  <2>3. PlayersTold(v, Append(p, m), r2)
    BY <1>2, <1>3, <1>5, <2>2, PlayersStayTold
  <2>4. StateTold(v, Append(p, m), r2)
    BY <1>2, <1>3, <2>2, SendStop
  <2>5. RoundsTold(v, Append(p, m), r2.game)
    BY <1>2, <1>3, <1>9, <2>2, SendEnd
  <2>6. RoundsPast(v, Append(p, m), s, r2)
    BY <1>9 DEF RoundsPast
  <2> QED BY <1>4, <2>3, <2>4, <2>5, <2>6 DEF Knows, p, m
<1> QED BY <1>8, <1>9

\* The game is over and the players are told of each other once more.
LEMMA KnowsCut ==
  ASSUME NEW v, NEW q \in Seq(Messages), NEW s \in Seq(StrokeMessages),
         NEW r2, r2 \in RoomType, r2.state = "FINISHED", ~r2.game.open
  PROVE  Knows(v, Append(Append(q, GameEnd), PlayersUpdate(r2)), s, r2)
<1> DEFINE p == Append(q, GameEnd)
           m == PlayersUpdate(r2)
<1>1. GameEnd \in Messages /\ m \in Messages /\ p \in Seq(Messages)
  BY MessagesTyped, Appended
<1>2. ~EndsRound(m) /\ ~IsStart(m) /\ ~Starts(m)
  BY MessageKinds
<1>3. StateTold(v, p, r2) /\ RoundsTold(v, p, r2.game)
  BY <1>1, MessageKinds, SendStop, SendEnd
<1>4. PlayersTold(v, Append(p, m), r2)
  BY <1>1, SendPlayers
<1> HIDE DEF p, m
<1>5. StateTold(v, Append(p, m), r2) /\ RoundsTold(v, Append(p, m), r2.game)
  BY <1>1, <1>2, <1>3, StateStaysTold, RoundsStayTold
<1> QED BY <1>4, <1>5 DEF Knows, RoundsPast, p, m

-----------------------------------------------------------------------------
(* A message arrives: the page takes it over from the queue.               *)

\* The page after message m, which an opening page only shows if it lists players.
Shown(v, m) ==
  IF v.stage = "mounted" \/ IsPlayers(m) THEN OnMessage(v, m) ELSE v

\* What each handler of the page changes, and what it leaves alone.
LEMMA ShownFields ==
  ASSUME NEW v, v \in ViewType, NEW m \in Messages
  PROVE  LET w == Shown(v, m)
         IN  /\ w \in ViewType /\ w.stage = v.stage
             /\ IsPlayers(m) => w.players = m.players /\ w.active = m.active
                                /\ w.owner = m.owner
             /\ ~IsPlayers(m) => w.players = v.players /\ w.active = v.active
                                 /\ w.owner = v.owner
             /\ v.stage = "mounted" =>
                  /\ IsStart(m) => w.round = m.round /\ w.drawer = m.drawer
                                   /\ w.canvas = <<>>
                  /\ ~IsStart(m) => w.round = v.round /\ w.canvas = Paint(v.canvas, m)
                  /\ EndsRound(m) => w.drawer = NoUser
                  /\ ~IsStart(m) /\ ~EndsRound(m) => w.drawer = v.drawer
                  /\ w.state = "playing" /\ ~Starts(m) => v.state = "playing" /\ ~Stops(m)
             /\ v.stage # "mounted" =>
                  w.round = v.round /\ w.drawer = v.drawer /\ w.canvas = v.canvas
                  /\ w.state = v.state
<1> DEFINE w == Shown(v, m)
<1>0. <<>> \in Canvases /\ v.canvas \in Seq(Lines) /\ v.round \in Nat
  BY EmptySeq DEF Canvases, ViewType
<1>1. CASE m \in PlayersMessages
  <2>1. m.kind = "room_players_update" /\ m.players \in Seq(Users)
        /\ m.active \in Seq(SeatStates) /\ m.owner \in Users \cup {NoUser}
    BY <1>1 DEF PlayersMessages
  <2>2. ~Inked(m)
    BY <2>1, StartTyped
  <2>3. w = [v EXCEPT !.players = m.players, !.active = m.active, !.owner = m.owner]
    BY <2>1 DEF Shown, IsPlayers, OnMessage, OnPlayersUpdate
  <2> HIDE DEF w
  <2>4. w \in ViewType
    BY <2>1, <2>3 DEF ViewType
  <2> QED BY <2>1, <2>2, <2>3, <2>4 DEF IsPlayers, IsStart, EndsRound, Starts, Stops, Paint,
             ViewType, w
<1>2. CASE m \notin PlayersMessages /\ v.stage # "mounted"
  <2>1. m.kind # "room_players_update"
    BY <1>2 DEF Messages, StateMessages, StartMessages, LineMessages, EndMessages
  <2> QED BY <1>2, <2>1 DEF Shown, IsPlayers
<1>3. CASE m \in StateMessages /\ v.stage = "mounted"
  <2>1. m.kind = "room_update" /\ m.state \in RoomStates
    BY <1>3 DEF StateMessages
  <2>2. ~Inked(m)
    BY <2>1, StartTyped
  <2>3. w = [v EXCEPT !.state = CASE m.state = "PLAYING"  -> "playing"
                                  [] m.state = "FINISHED" -> "finished"
                                  [] OTHER                -> "waiting"]
    BY <1>3, <2>1 DEF Shown, OnMessage, OnRoomUpdate
  <2> HIDE DEF w
  <2>4. /\ m.state = "PLAYING" => w = [v EXCEPT !.state = "playing"]
        /\ m.state # "PLAYING" => w = [v EXCEPT !.state = "finished"]
                                  \/ w = [v EXCEPT !.state = "waiting"]
    BY <2>1, <2>3
  <2>5. w \in ViewType
    BY <2>4 DEF ViewType
  <2> QED BY <1>3, <2>1, <2>2, <2>4, <2>5 DEF IsPlayers, IsStart, EndsRound, Starts, Stops, Paint,
             ViewType, w
<1>4. CASE m \in StartMessages /\ v.stage = "mounted"
  <2>1. m.kind = "game_start" /\ m.round \in Nat /\ m.drawer \in Users \cup {NoUser}
    BY <1>4 DEF StartMessages
  <2>2. w = [v EXCEPT !.state = "playing", !.round = m.round, !.drawer = m.drawer,
                      !.canvas = <<>>]
    BY <1>4, <2>1 DEF Shown, OnMessage, OnGameStart
  <2> HIDE DEF w
  <2>3. w \in ViewType
    BY <1>0, <2>1, <2>2 DEF ViewType
  <2> QED BY <1>4, <2>1, <2>2, <2>3 DEF IsPlayers, IsStart, EndsRound, Starts, Stops,
             ViewType, w
<1>5. CASE m \in LineMessages /\ v.stage = "mounted"
  <2>1. m.kind = "draw_broadcast" /\ m.line \in Strokes /\ Inked(m)
    BY <1>5 DEF LineMessages, Inked
  <2>2. w = [v EXCEPT !.canvas = Paint(v.canvas, m)]
    BY <1>5, <2>1 DEF Shown, OnMessage, Paint, ViewType
  <2>3. Paint(v.canvas, m) \in Canvases
    BY <1>0, <2>1, AppendProperties DEF Paint, Drawn, Strokes, Canvases
  <2> HIDE DEF w
  <2>4. w \in ViewType
    BY <2>2, <2>3 DEF ViewType
  <2> QED BY <1>5, <2>1, <2>2, <2>4 DEF IsPlayers, IsStart, EndsRound, Starts, Stops,
             ViewType, w
<1>6. CASE m \in EndMessages /\ v.stage = "mounted"
  <2>1. m.kind \in {"round_end", "game_end"}
    BY <1>6 DEF EndMessages
  <2>2. ~Inked(m)
    BY <2>1, StartTyped
  <2>3. /\ m.kind = "round_end" => w = [v EXCEPT !.drawer = NoUser]
        /\ m.kind = "game_end" => w = [v EXCEPT !.state = "finished", !.drawer = NoUser]
    BY <1>6, <2>1 DEF Shown, OnMessage, OnRoundEnd, OnGameEnd
  <2> HIDE DEF w
  <2>4. w \in ViewType
    BY <2>1, <2>3 DEF ViewType
  <2> QED BY <1>6, <2>1, <2>2, <2>3, <2>4 DEF IsPlayers, IsStart, EndsRound, Starts, Stops, Paint,
             ViewType, w
<1> QED BY <1>1, <1>2, <1>3, <1>4, <1>5, <1>6 DEF Messages

\* What follows message k of a queue follows message k - 1 of its tail.
LEMMA FollowsInTail ==
  ASSUME NEW q \in Seq(Messages), q # <<>>, NEW k \in Nat
  PROVE  /\ StopFollows(Tail(q), k) <=> StopFollows(q, k + 1)
         /\ EndFollows(Tail(q), k) <=> EndFollows(q, k + 1)
         /\ StopFollows(q, 0) => Stops(Head(q)) \/ StopFollows(q, 1)
         /\ EndFollows(q, 0) <=> EndsRound(Head(q)) \/ EndFollows(q, 1)
<1> DEFINE t == Tail(q)
           n == Len(q)
<1>1. /\ n \in Nat /\ n >= 1 /\ Len(t) = n - 1 /\ Head(q) = q[1]
      /\ \A i \in 1..(n - 1) : t[i] = q[i + 1]
  BY TakenOff
<1> HIDE DEF t, n
<1>2. ASSUME NEW M
      PROVE  (\E j \in (k + 1)..Len(t) : t[j] \in M) <=> (\E j \in ((k + 1) + 1)..n : q[j] \in M)
  <2>1. ASSUME NEW j \in (k + 1)..Len(t), t[j] \in M
        PROVE  \E i \in ((k + 1) + 1)..n : q[i] \in M
    <3>1. j + 1 \in ((k + 1) + 1)..n /\ t[j] = q[j + 1]
      BY <1>1
    <3> QED BY <2>1, <3>1
  <2>2. ASSUME NEW j \in ((k + 1) + 1)..n, q[j] \in M
        PROVE  \E i \in (k + 1)..Len(t) : t[i] \in M
    <3>1. j - 1 \in (k + 1)..Len(t) /\ t[j - 1] = q[j]
      BY <1>1
    <3> QED BY <2>2, <3>1
  <2> QED BY <2>1, <2>2
<1>3. ASSUME NEW M
      PROVE  (\E j \in 1..n : q[j] \in M) <=> q[1] \in M \/ (\E j \in 2..n : q[j] \in M)
  <2>1. 1 \in 1..n /\ \A j \in 1..n : j = 1 \/ j \in 2..n
    BY <1>1
  <2>2. \A j \in 2..n : j \in 1..n
    BY <1>1
  <2> QED BY <2>1, <2>2
<1>4. 0 + 1 = 1 /\ 1 + 1 = 2
  OBVIOUS
<1> DEFINE ST == {m \in Messages : Stops(m)}
           EN == {m \in Messages : EndsRound(m)}
<1>5. /\ \A i \in 1..Len(t) : t[i] \in Messages
      /\ \A i \in 1..n : q[i] \in Messages
  BY TakenOff, QueueElement DEF t, n
<1>6. /\ \A i \in 1..Len(t) : /\ t[i] \in ST <=> Stops(t[i])
                              /\ t[i] \in EN <=> EndsRound(t[i])
      /\ \A i \in 1..n : /\ q[i] \in ST <=> Stops(q[i])
                         /\ q[i] \in EN <=> EndsRound(q[i])
  BY <1>5
<1> HIDE DEF ST, EN
<1>7. /\ \A j \in (k + 1)..Len(t) : j \in 1..Len(t)
      /\ \A j \in ((k + 1) + 1)..n : j \in 1..n
      /\ \A j \in 2..n : j \in 1..n
      /\ 1 \in 1..n
  BY <1>1
<1>8. StopFollows(t, k) <=> StopFollows(q, k + 1)
  <2>1. (\E j \in (k + 1)..Len(t) : t[j] \in ST) <=> (\E j \in ((k + 1) + 1)..n : q[j] \in ST)
    BY <1>2
  <2> QED BY <1>6, <1>7, <2>1 DEF StopFollows, n
<1>9. EndFollows(t, k) <=> EndFollows(q, k + 1)
  <2>1. (\E j \in (k + 1)..Len(t) : t[j] \in EN) <=> (\E j \in ((k + 1) + 1)..n : q[j] \in EN)
    BY <1>2
  <2> QED BY <1>6, <1>7, <2>1 DEF EndFollows, n
<1>10. StopFollows(q, 0) <=> Stops(q[1]) \/ StopFollows(q, 1)
  <2>1. (\E j \in 1..n : q[j] \in ST) <=> q[1] \in ST \/ (\E j \in 2..n : q[j] \in ST)
    BY <1>3
  <2> QED BY <1>4, <1>6, <1>7, <2>1 DEF StopFollows, n
<1>11. EndFollows(q, 0) <=> EndsRound(q[1]) \/ EndFollows(q, 1)
  <2>1. (\E j \in 1..n : q[j] \in EN) <=> q[1] \in EN \/ (\E j \in 2..n : q[j] \in EN)
    BY <1>3
  <2> QED BY <1>4, <1>6, <1>7, <2>1 DEF EndFollows, n
<1> QED BY <1>1, <1>8, <1>9, <1>10, <1>11 DEF t

\* The list of players a page was to be told of is shown, or still on its way.
LEMMA PlayersDelivered ==
  ASSUME NEW v, v \in ViewType, NEW q \in Seq(Messages), q # <<>>,
         NEW r, PlayersTold(v, q, r)
  PROVE  PlayersTold(Shown(v, Head(q)), Tail(q), r)
<1> DEFINE t == Tail(q)
           n == Len(q)
           m == Head(q)
           w == Shown(v, m)
<1>1. /\ n \in Nat /\ n >= 1 /\ Len(t) = n - 1 /\ m = q[1] /\ m \in Messages
      /\ \A i \in 1..Len(t) : t[i] = q[i + 1] /\ i + 1 \in 1..n
      /\ 1 \in 1..n /\ \A i \in 1..n : i = 1 \/ i - 1 \in 1..Len(t)
  BY TakenOff
<1>2. /\ IsPlayers(m) => w.players = m.players /\ w.active = m.active /\ w.owner = m.owner
      /\ ~IsPlayers(m) => w.players = v.players /\ w.active = v.active /\ w.owner = v.owner
  BY <1>1, ShownFields
<1> HIDE DEF t, n, m, w
<1>3. ASSUME NEW i \in 1..n, q[i] = PlayersUpdate(r),
             \A j \in (i + 1)..n : ~IsPlayers(q[j])
      PROVE  PlayersTold(w, t, r)
  <2>1. CASE i = 1
    <3>1. \A j \in 1..Len(t) : j + 1 \in (i + 1)..n
      BY <1>1, <2>1
    <3>2. \A j \in 1..Len(t) : ~IsPlayers(t[j])
      BY <1>1, <1>3, <3>1
    <3>3. m = PlayersUpdate(r)
      BY <1>1, <1>3, <2>1
    <3>4. IsPlayers(m) /\ m.players = r.players /\ m.active = r.active /\ m.owner = r.owner
      BY <3>3 DEF PlayersUpdate, IsPlayers
    <3> QED BY <1>2, <3>2, <3>4 DEF PlayersTold
  <2>2. CASE i # 1
    <3>1. i - 1 \in 1..Len(t) /\ t[i - 1] = PlayersUpdate(r)
      BY <1>1, <1>3, <2>2
    <3>2. \A j \in ((i - 1) + 1)..Len(t) : j + 1 \in (i + 1)..n /\ j \in 1..Len(t)
      BY <1>1, <2>2
    <3>3. \A j \in ((i - 1) + 1)..Len(t) : ~IsPlayers(t[j])
      BY <1>1, <1>3, <3>2
    <3> QED BY <3>1, <3>3 DEF PlayersTold
  <2> QED BY <2>1, <2>2
<1>4. ASSUME \A i \in 1..n : ~IsPlayers(q[i]),
             v.players = r.players, v.active = r.active, v.owner = r.owner
      PROVE  PlayersTold(w, t, r)
  <2>1. ~IsPlayers(m) /\ \A i \in 1..Len(t) : ~IsPlayers(t[i])
    BY <1>1, <1>4
  <2> QED BY <1>2, <1>4, <2>1 DEF PlayersTold
<1> QED BY <1>3, <1>4 DEF PlayersTold, t, n, m, w

\* A page that knows its room still does when it has shown one message more.
LEMMA KnowsDelivered ==
  ASSUME NEW v, v \in ViewType, NEW q \in Seq(Messages), q # <<>>, NEW s,
         NEW u, NEW r, RoomOK(r), Knows(v, q, s, r), v.stage # "closed",
         StageOK(v, q, s, r, u)
  PROVE  Knows(Shown(v, Head(q)), Tail(q), s, r)
<1> DEFINE t == Tail(q)
           n == Len(q)
           m == Head(q)
           w == Shown(v, m)
<1>1. /\ n \in Nat /\ n >= 1 /\ Len(t) = n - 1 /\ m = q[1] /\ m \in Messages
      /\ \A i \in 1..Len(t) : t[i] = q[i + 1] /\ i + 1 \in 1..n
      /\ 1 \in 1..n /\ \A i \in 1..n : i = 1 \/ i - 1 \in 1..Len(t)
  BY TakenOff
<1>2. \A k \in Nat : /\ StopFollows(t, k) <=> StopFollows(q, k + 1)
                     /\ EndFollows(t, k) <=> EndFollows(q, k + 1)
  BY FollowsInTail
<1>3. /\ StopFollows(q, 0) => Stops(m) \/ StopFollows(q, 1)
      /\ EndFollows(q, 0) <=> EndsRound(m) \/ EndFollows(q, 1)
  BY FollowsInTail
<1>4. /\ w.stage = v.stage
      /\ IsPlayers(m) => w.players = m.players /\ w.active = m.active /\ w.owner = m.owner
      /\ ~IsPlayers(m) => w.players = v.players /\ w.active = v.active /\ w.owner = v.owner
      /\ v.stage = "mounted" =>
           /\ IsStart(m) => w.round = m.round /\ w.drawer = m.drawer
           /\ ~IsStart(m) => w.round = v.round
           /\ EndsRound(m) => w.drawer = NoUser
           /\ ~IsStart(m) /\ ~EndsRound(m) => w.drawer = v.drawer
           /\ w.state = "playing" /\ ~Starts(m) => v.state = "playing" /\ ~Stops(m)
      /\ v.stage # "mounted" =>
           w.round = v.round /\ w.drawer = v.drawer /\ w.state = v.state
  BY <1>1, ShownFields
<1>5. v.stage = "mounted" \/ (v.state = "waiting" /\ v.round = 0 /\ v.drawer = NoUser)
  BY DEF ViewType, StageOK
<1>6. IsStart(m) => ~EndsRound(m)
  BY DEF IsStart, EndsRound
<1> HIDE DEF t, n, m, w
<1>7. PlayersTold(w, t, r)
  BY PlayersDelivered DEF Knows, w, t, m
<1>8. StateTold(w, t, r)
  <2> SUFFICES ASSUME r.state # "PLAYING"
               PROVE  /\ w.state = "playing" => StopFollows(t, 0)
                      /\ \A i \in 1..Len(t) : Starts(t[i]) => StopFollows(t, i)
    BY DEF StateTold
  <2>1. /\ v.state = "playing" => StopFollows(q, 0)
        /\ \A i \in 1..n : Starts(q[i]) => StopFollows(q, i)
    BY DEF Knows, StateTold, n
  <2>2. StopFollows(t, 0) <=> StopFollows(q, 1)
    <3>1. 0 \in Nat /\ 0 + 1 = 1
      OBVIOUS
    <3> QED BY <1>2, <3>1
  <2>3. w.state = "playing" => StopFollows(t, 0)
    BY <1>1, <1>3, <1>4, <1>5, <2>1, <2>2
  <2>4. \A i \in 1..Len(t) : Starts(t[i]) => StopFollows(t, i)
    BY <1>1, <1>2, <2>1
  <2> QED BY <2>3, <2>4
<1>9. RoundsTold(w, t, r.game)
  <2> DEFINE g == r.game
  <2>1. DrawerTold(v, q, 0, g) /\ \A i \in 1..n : IsStart(q[i]) => DrawerTold(q[i], q, i, g)
    BY DEF Knows, RoundsTold, n
  <2>2. \A k \in Nat : \A x : DrawerTold(x, t, k, g) <=> DrawerTold(x, q, k + 1, g)
    BY <1>2 DEF DrawerTold
  <2>3. \A i \in 1..Len(t) : IsStart(t[i]) => DrawerTold(t[i], t, i, g)
    BY <1>1, <2>1, <2>2
  <2>4. DrawerTold(w, q, 1, g)
    <3>1. CASE v.stage = "mounted" /\ IsStart(m)
      BY <1>1, <1>4, <2>1, <3>1 DEF DrawerTold, Now
    <3>2. CASE v.stage = "mounted" /\ ~IsStart(m)
      BY <1>3, <1>4, <2>1, <3>2 DEF DrawerTold, Now
    <3>3. CASE v.stage # "mounted"
      <4>1. g.open => g.round >= 1
        BY DEF RoomOK
      <4>2. ~Now(w, g) /\ w.drawer = NoUser
        BY <1>4, <1>5, <3>3, <4>1 DEF Now
      <4> QED BY <4>2 DEF DrawerTold
    <3> QED BY <3>1, <3>2, <3>3
  <2>5. DrawerTold(w, t, 0, g)
    <3>1. 0 \in Nat /\ 0 + 1 = 1
      OBVIOUS
    <3> QED BY <2>2, <2>4, <3>1
  <2> QED BY <2>3, <2>5 DEF RoundsTold
<1>10. RoundsPast(w, t, s, r)
  <2> SUFFICES ASSUME Playing(r)
               PROVE  /\ w.round <= r.game.round /\ StartsPast(t, r.game.round)
                      /\ StrokesPast(s, r.game.round)
    BY DEF RoundsPast, Playing
  <2>1. v.round <= r.game.round /\ StartsPast(q, r.game.round) /\ StrokesPast(s, r.game.round)
    BY DEF Knows, RoundsPast, Playing
  <2>2. w.round <= r.game.round
    BY <1>1, <1>4, <2>1 DEF StartsPast, n
  <2>3. StartsPast(t, r.game.round)
    BY <1>1, <2>1 DEF StartsPast, n
  <2> QED BY <2>1, <2>2, <2>3
<1> QED BY <1>7, <1>8, <1>9, <1>10 DEF Knows, t, w, m

-----------------------------------------------------------------------------
(* Whose turn has passed.                                                  *)

\* Going around from i to x, with p on the way: first up to p, then from p on.
LEMMA ByWayOf ==
  ASSUME NEW i \in Int, NEW j \in Int, NEW p \in Int, NEW x \in Int
  PROVE  /\ i # p /\ x # p /\ i # x /\ ~Between(i, x, p) /\ Between(i, j, x)
              => j = p \/ Between(i, j, p) \/ Between(p, j, x)
         /\ j # x /\ j # p /\ x # p => Between(x, j, p) \/ Between(p, j, x)
  BY DEF Between

\* A step within one round that activates nobody and reseats no user.
LEMMA TurnStaysAway ==
  ASSUME NEW v, NEW q, NEW s, NEW v2, NEW q2, NEW s2, NEW u, NEW r, NEW r2,
         SameRound(r, r2), TurnAway(v, q, s, r, u),
         r.game.open /\ HadTurn(v2, q2, s2, r2.game.round, u)
           => HadTurn(v, q, s, r2.game.round, u),
         r.game.open =>
           \A i \in Seats(r2) :
             /\ r2.active[i] = "active" => i \in Seats(r) /\ r.active[i] = "active"
             /\ r2.players[i] = u => i \in Seats(r) /\ r.players[i] = u
  PROVE  TurnAway(v2, q2, s2, r2, u)
<1> SUFFICES ASSUME r2.game.open, HadTurn(v2, q2, s2, r2.game.round, u),
                    NEW i \in Seats(r2), r2.players[i] = u
             PROVE  PassedOver(r2, i)
  BY DEF TurnAway
<1>1. /\ r.game.open /\ r2.game.round = r.game.round
      /\ r2.game.drawer_index = r.game.drawer_index
  BY DEF SameRound
<1>2. i \in Seats(r) /\ r.players[i] = u
  BY <1>1
<1>3. PassedOver(r, i)
  BY <1>1, <1>2 DEF TurnAway
<1> QED BY <1>1, <1>3 DEF PassedOver

\* Something is left of a turn before the new round only if it was left
\* before this one, or if this round is the user's own.
LEMMA TurnsSoFar ==
  ASSUME NEW v, v \in ViewType, NEW q \in Seq(Messages), NEW s \in Seq(StrokeMessages),
         NEW u, NEW r, r \in RoomType, r.state = "PLAYING", r.game.open,
         RoundsTold(v, q, r.game), RoundsPast(v, q, s, r), StrokesNow(v, s, r.game, u),
         NEW k, HadTurn(v, q, s, k, u)
  PROVE  HadTurn(v, q, s, r.game.round, u) \/ u = r.game.drawer
<1> DEFINE n == r.game.round
<1>1. n \in Nat /\ v.round <= n /\ StartsPast(q, n) /\ StrokesPast(s, n) /\ v.round \in Nat
  BY DEF RoundsPast, RoomType, GameType, ViewType
<1>2. ASSUME NEW i \in 1..Len(s)
      PROVE  s[i].round < n \/ u = r.game.drawer
  <2>0. s[i] \in StrokeMessages /\ s[i].round <= n
    BY <1>1, QueueElement DEF StrokesPast
  <2>1. s[i].round <= n /\ s[i].round \in Nat
    BY <2>0 DEF StrokeMessages
  <2>2. CASE s[i].round = n
    BY <2>2 DEF StrokesNow, Now
  <2> QED BY <1>1, <2>1, <2>2
<1>3. ASSUME v.drawer = u  PROVE v.round < n \/ u = r.game.drawer
  <2>1. CASE v.round = n
    BY <1>3, <2>1 DEF RoundsTold, DrawerTold, Now
  <2> QED BY <1>1, <2>1
<1>4. ASSUME NEW i \in 1..Len(q), IsStart(q[i]), q[i].drawer = u
      PROVE  q[i].round < n \/ u = r.game.drawer
  <2>1. q[i].round <= n /\ q[i].round \in Nat
    BY <1>1, <1>4, QueueElement, StartTyped DEF StartsPast
  <2>2. CASE q[i].round = n
    BY <1>4, <2>2 DEF RoundsTold, DrawerTold, Now
  <2> QED BY <1>1, <2>1, <2>2
<1> QED BY <1>2, <1>3, <1>4 DEF HadTurn

\* The turn has moved on from the one user something is left of.
LEMMA TurnMovesAway ==
  ASSUME NEW v, NEW q, NEW s, NEW u, NEW r, NEW r2, Good(r), r.game.open,
         TurnMoved(r, r2), r2.players = r.players,
         HadTurn(v, q, s, r2.game.round, u) => u = r.game.drawer
  PROVE  TurnAway(v, q, s, r2, u)
<1> SUFFICES ASSUME u = r.game.drawer, NEW i \in Seats(r2), r2.players[i] = u
             PROVE  PassedOver(r2, i)
  BY DEF TurnAway
<1>1. i = r.game.drawer_index
  BY DEF Good, DrawerSeated, Base, SeatsDistinct, Seats
<1>2. /\ r2.game.drawer_index # i
      /\ \A j \in Seats(r2) : Between(i, j, r2.game.drawer_index) => r2.active[j] # "active"
  BY <1>1 DEF TurnMoved
<1> QED BY <1>2 DEF PassedOver

\* When the drawer leaves, the turn does not come back to anybody either.
LEMMA TurnKeepsAway ==
  ASSUME NEW v, NEW q, NEW s, NEW v2, NEW q2, NEW s2, NEW u,
         NEW r, NEW r2, Good(r), Good(r2), r.game.open, TurnMoved(r, r2),
         r2.players = r.players, ActiveSeats(r2) \subseteq ActiveSeats(r),
         r2.active[r.game.drawer_index] # "active",
         NEW a \in ActiveSeats(r2), a # r2.game.drawer_index,
         TurnAway(v, q, s, r, u), HadTurn(v, q, s, r.game.round, u)
  PROVE  TurnAway(v2, q2, s2, r2, u) /\ u # r2.game.drawer
<1> DEFINE p == r.game.drawer_index
           x == r2.game.drawer_index
<1>1. /\ p \in Seats(r) /\ x \in Seats(r) /\ Seats(r2) = Seats(r) /\ Seats(r) \subseteq Int
      /\ r2.active[x] = "active" /\ r2.players[x] = r2.game.drawer
  <2>1. r2.game.open
    BY DEF TurnMoved
  <2>2. Seats(r2) = Seats(r)
    BY DEF Seats
  <2>3. Seats(r) \subseteq Int
    BY SeatFacts DEF Good, Base
  <2> QED BY <2>1, <2>2, <2>3 DEF Good, DrawerSeated
<1>2. a \in Seats(r) /\ r2.active[a] = "active" /\ a # p /\ a # x /\ x # p
  BY <1>1 DEF ActiveSeats, TurnMoved
<1>3. \A j \in Seats(r) : r2.active[j] = "active" => r.active[j] = "active"
  BY <1>1 DEF ActiveSeats
<1>4. \A j \in Seats(r) : Between(p, j, x) => r2.active[j] # "active"
  BY <1>1 DEF TurnMoved
<1> HIDE DEF p, x
<1>5. ASSUME NEW i \in Seats(r), r.players[i] = u
      PROVE  i # x /\ \A j \in Seats(r) : Between(i, j, x) => r2.active[j] # "active"
  <2>1. i # p /\ \A j \in Seats(r) : Between(i, j, p) => r2.active[j] # "active"
    BY <1>3, <1>5 DEF TurnAway, PassedOver, p
  <2>2. i # x
    <3> SUFFICES ASSUME i = x  PROVE FALSE
      OBVIOUS
    <3>1. Between(x, a, p) \/ Between(p, a, x)
      BY <1>1, <1>2, ByWayOf
    <3> QED BY <1>2, <1>4, <2>1, <3>1
  <2>3. ~Between(i, x, p)
    BY <1>1, <2>1
  <2>4. ASSUME NEW j \in Seats(r), Between(i, j, x)
        PROVE  r2.active[j] # "active"
    <3>1. j = p \/ Between(i, j, p) \/ Between(p, j, x)
      BY <1>1, <1>2, <2>1, <2>2, <2>3, <2>4, ByWayOf
    <3>2. r2.active[p] # "active"
      BY DEF p
    <3> QED BY <1>4, <2>1, <3>1, <3>2
  <2> QED BY <2>2, <2>4
<1>6. u # r2.game.drawer
  BY <1>1, <1>5
<1>7. TurnAway(v2, q2, s2, r2, u)
  BY <1>1, <1>5 DEF TurnAway, PassedOver, x
<1> QED BY <1>6, <1>7

-----------------------------------------------------------------------------
(* What the messages of a queue, or the strokes on their way, paint.       *)

\* The messages of a queue and the strokes of a drawer both paint lines.
Painting(S) == \A m \in S : Inked(m) => m.line \in Strokes

\* Messages and strokes both paint lines that exist.
LEMMA BothPaint == Painting(Messages) /\ Painting(StrokeMessages)
<1>1. Painting(Messages)
  BY StartTyped DEF Painting
<1>2. Painting(StrokeMessages)
  BY DEF Painting, StrokeMessages
<1> QED BY <1>1, <1>2

\* A painted canvas is a canvas.
LEMMA PaintTyped ==
  ASSUME NEW c \in Canvases, NEW m, Inked(m) => m.line \in Strokes
  PROVE  Paint(c, m) \in Canvases
<1>1. CASE ~Inked(m)
  BY <1>1 DEF Paint
<1>2. CASE Inked(m) /\ m.line = Clear
  BY <1>2, EmptySeq DEF Paint, Drawn, Canvases
<1>3. CASE Inked(m) /\ m.line \in Lines
  BY <1>3, EmptySeq, AppendProperties DEF Paint, Drawn, Canvases
<1> QED BY <1>1, <1>2, <1>3 DEF Strokes

\* Nothing is painted by nothing.
LEMMA RunStarts ==
  ASSUME NEW S, NEW q \in Seq(S), NEW c \in Canvases
  PROVE  Run(c, q, Len(q), c)
<1> DEFINE n == Len(q)
           A == [j \in n..n |-> c]
<1>1. n \in Nat
  BY LenProperties
<1> HIDE DEF n
<1>2. A \in [n..n -> Canvases] /\ A[n] = c /\ (n + 1)..n = {}
  BY <1>1
<1> HIDE DEF A
<1> QED BY <1>2 DEF Run, n

\* One message more paints on.
LEMMA RunGoesOn ==
  ASSUME NEW S, Painting(S), NEW q \in Seq(S), NEW m \in S, NEW k \in 0..Len(q),
         NEW c, NEW x \in Canvases, Run(c, q, k, x)
  PROVE  Run(c, Append(q, m), k, Paint(x, m))
<1> DEFINE t == Append(q, m)
           n == Len(q)
           y == Paint(x, m)
<1>1. /\ n \in Nat /\ Len(t) = n + 1 /\ \A i \in 1..n : t[i] = q[i]
      /\ t[n + 1] = m /\ k \in 0..n
  BY Appended
<1>2. y \in Canvases
  BY PaintTyped DEF Painting
<1>3. PICK A \in [k..n -> Canvases] :
        /\ A[k] = c /\ A[n] = x
        /\ \A j \in (k + 1)..n : A[j] = Paint(A[j - 1], q[j])
  BY DEF Run
<1> DEFINE B == [j \in k..(n + 1) |-> IF j = n + 1 THEN y ELSE A[j]]
<1> HIDE DEF t, n, y
<1>4. B \in [k..(n + 1) -> Canvases]
  BY <1>1, <1>2
<1>5. B[n + 1] = y /\ \A j \in k..n : B[j] = A[j]
  BY <1>1
<1> HIDE DEF B
<1>6. B[k] = c
  BY <1>1, <1>3, <1>5
<1>7. ASSUME NEW j \in (k + 1)..(n + 1)
      PROVE  B[j] = Paint(B[j - 1], t[j])
  <2>1. CASE j = n + 1
    <3>1. n \in k..n /\ j - 1 = n
      BY <1>1, <2>1
    <3>2. B[j - 1] = x /\ t[j] = m
      BY <1>1, <1>3, <1>5, <2>1, <3>1
    <3> QED BY <1>5, <2>1, <3>2 DEF y
  <2>2. CASE j # n + 1
    <3>1. j \in (k + 1)..n /\ j \in k..n /\ j - 1 \in k..n /\ j \in 1..n
      BY <1>1, <2>2
    <3> QED BY <1>1, <1>3, <1>5, <3>1
  <2> QED BY <2>1, <2>2
<1> QED BY <1>1, <1>4, <1>5, <1>6, <1>7 DEF Run, t, y

\* The first message has been taken off: it has painted, or was before k.
LEMMA RunInTail ==
  ASSUME NEW S, NEW q \in Seq(S), q # <<>>, NEW k \in 0..Len(q),
         NEW c, NEW x, Run(c, q, k, x)
  PROVE  /\ k = 0 => Run(Paint(c, Head(q)), Tail(q), 0, x)
         /\ k > 0 => Run(c, Tail(q), k - 1, x)
<1> DEFINE t == Tail(q)
           n == Len(q)
           d == IF k = 0 THEN 1 ELSE k
           e == IF k = 0 THEN Paint(c, Head(q)) ELSE c
<1>1. /\ n \in Nat /\ n >= 1 /\ Len(t) = n - 1 /\ Head(q) = q[1]
      /\ \A i \in 1..(n - 1) : t[i] = q[i + 1]
      /\ k \in 0..n
  BY TakenOff
<1>2. PICK A \in [k..n -> Canvases] :
        /\ A[k] = c /\ A[n] = x
        /\ \A j \in (k + 1)..n : A[j] = Paint(A[j - 1], q[j])
  BY DEF Run
<1> HIDE DEF t, n
<1>3. A[d] = e /\ d \in 1..n /\ \A j \in d..n : j \in k..n
  <2>1. CASE k = 0
    <3>1. 1 \in (k + 1)..n /\ 1 - 1 = k
      BY <1>1, <2>1
    <3>2. A[1] = Paint(A[k], q[1])
      BY <1>2, <3>1
    <3> QED BY <1>1, <1>2, <2>1, <3>2
  <2>2. CASE k # 0
    BY <1>1, <1>2, <2>2
  <2> QED BY <2>1, <2>2
<1> DEFINE B == [j \in (d - 1)..(n - 1) |-> A[j + 1]]
<1>4. \A j \in d..n : j \in (k + 1)..n \/ j = d
  BY <1>1
<1>5. d \in Int
  BY <1>1
<1> HIDE DEF d, e
<1>6. B \in [(d - 1)..(n - 1) -> Canvases]
  <2>1. \A j \in (d - 1)..(n - 1) : j + 1 \in d..n
    BY <1>1, <1>5
  <2> QED BY <1>3, <2>1
<1>7. B[d - 1] = e /\ B[n - 1] = x
  <2>1. d - 1 \in (d - 1)..(n - 1) /\ n - 1 \in (d - 1)..(n - 1)
        /\ (d - 1) + 1 = d /\ (n - 1) + 1 = n
    BY <1>1, <1>3
  <2> QED BY <1>2, <1>3, <2>1
<1>8. \A j \in ((d - 1) + 1)..(n - 1) : B[j] = Paint(B[j - 1], t[j])
  <2> SUFFICES ASSUME NEW j \in ((d - 1) + 1)..(n - 1)
               PROVE  B[j] = Paint(B[j - 1], t[j])
    OBVIOUS
  <2>1. /\ j \in (d - 1)..(n - 1) /\ j - 1 \in (d - 1)..(n - 1) /\ (j - 1) + 1 = j
        /\ (j + 1) - 1 = j /\ j \in 1..(n - 1)
    BY <1>1, <1>3
  <2>2. j + 1 \in (k + 1)..n
    <3>1. j + 1 \in d..n /\ j + 1 # d
      BY <1>1, <1>5
    <3> QED BY <1>4, <3>1
  <2>3. A[j + 1] = Paint(A[j], q[j + 1])
    BY <1>2, <2>1, <2>2
  <2> QED BY <1>1, <2>1, <2>3
<1> HIDE DEF B
<1>9. Run(e, t, d - 1, x)
  BY <1>1, <1>6, <1>7, <1>8 DEF Run
<1> QED BY <1>9 DEF d, e, t

\* When nothing is on its way the canvas stays as it is.
LEMMA RunOfNothing ==
  ASSUME NEW c, NEW x, Run(c, <<>>, 0, x)
  PROVE  x = c
<1>1. Len(<<>>) = 0
  OBVIOUS
<1> QED BY <1>1 DEF Run

\* On the empty canvas everything is visible.
LEMMA VisibleStarts == Visible(<<>>, <<>>)
<1> DEFINE A == [j \in 0..0 |-> <<>>]
<1>1. <<>> \in Canvases
  BY EmptySeq DEF Canvases
<1>2. Len(<<>>) = 0
  OBVIOUS
<1>3. A \in [0..0 -> Canvases] /\ A[0] = <<>> /\ 1..0 = {}
  BY <1>1
<1> HIDE DEF A
<1>4. \E B \in [0..0 -> Canvases] : B[0] = <<>> /\ \A j \in 1..0 : FALSE
  BY <1>3
<1> QED BY <1>2, <1>3 DEF Visible

\* What remains of a canvas is a canvas.
LEMMA VisibleTyped ==
  ASSUME NEW c \in Canvases, NEW y, Visible(y, c)
  PROVE  y \in Canvases
<1>1. Len(c) \in Nat
  BY LenProperties DEF Canvases
<1> QED BY <1>1 DEF Visible

\* One line more is visible if the server accepts it.
LEMMA VisibleGrows ==
  ASSUME NEW c \in Canvases, NEW y, Visible(y, c), NEW line \in Lines
  PROVE  Visible(IF Valid(line) THEN Append(y, line) ELSE y, Append(c, line))
<1> DEFINE t == Append(c, line)
           n == Len(c)
           z == IF Valid(line) THEN Append(y, line) ELSE y
<1>1. /\ n \in Nat /\ Len(t) = n + 1 /\ \A i \in 1..n : t[i] = c[i]
      /\ t[n + 1] = line
  BY Appended DEF Canvases
<1>2. y \in Canvases
  BY VisibleTyped
<1>3. z \in Canvases
  BY <1>2, AppendProperties DEF Canvases
<1>4. PICK A \in [0..n -> Canvases] :
        /\ A[0] = <<>> /\ A[n] = y
        /\ \A j \in 1..n :
             A[j] = IF Valid(c[j]) THEN Append(A[j - 1], c[j]) ELSE A[j - 1]
  BY DEF Visible
<1>5. z = IF Valid(line) THEN Append(y, line) ELSE y
  OBVIOUS
<1> DEFINE B == [j \in 0..(n + 1) |-> IF j = n + 1 THEN z ELSE A[j]]
<1> HIDE DEF t, n, z
<1>6. B \in [0..(n + 1) -> Canvases]
  BY <1>1, <1>3
<1>7. B[n + 1] = z /\ \A j \in 0..n : B[j] = A[j]
  BY <1>1
<1> HIDE DEF B
<1>8. B[0] = <<>>
  BY <1>1, <1>4, <1>7
<1>9. ASSUME NEW j \in 1..(n + 1)
      PROVE  B[j] = IF Valid(t[j]) THEN Append(B[j - 1], t[j]) ELSE B[j - 1]
  <2>1. CASE j = n + 1
    <3>1. n \in 0..n /\ j - 1 = n
      BY <1>1, <2>1
    <3>2. B[j - 1] = y /\ t[j] = line
      BY <1>1, <1>4, <1>7, <2>1, <3>1
    <3> QED BY <1>5, <1>7, <2>1, <3>2
  <2>2. CASE j # n + 1
    <3>1. j \in 1..n /\ j \in 0..n /\ j - 1 \in 0..n
      BY <1>1, <2>2
    <3> QED BY <1>1, <1>4, <1>7, <3>1
  <2> QED BY <2>1, <2>2
<1>10. Visible(z, t)
  BY <1>1, <1>6, <1>7, <1>8, <1>9 DEF Visible
<1> QED BY <1>10 DEF t, z

\* A stroke will be on the canvases if the server accepts it.
LEMMA StrokeInked ==
  ASSUME NEW m \in StrokeMessages
  PROVE  Inked(m) <=> Valid(m.line)
<1>1. m \notin LineMessages
  BY DEF LineMessages, StrokeMessages
<1> QED BY <1>1 DEF Inked

\* A stroke that is drawn becomes visible as it is sent.
LEMMA VisibleDrawn ==
  ASSUME NEW c \in Canvases, NEW y, Visible(y, c), NEW m \in StrokeMessages
  PROVE  Visible(Paint(y, m), Drawn(c, m.line)) /\ Drawn(c, m.line) \in Canvases
<1>1. Inked(m) <=> Valid(m.line)
  BY StrokeInked
<1>2. CASE m.line = Clear
  <2>1. Valid(Clear)
    BY RoomViewAssumption, ClearAssumption DEF Valid
  <2>2. Paint(y, m) = <<>> /\ Drawn(c, m.line) = <<>>
    BY <1>1, <1>2, <2>1 DEF Paint, Drawn
  <2> QED BY <2>2, VisibleStarts, EmptySeq DEF Canvases
<1>3. CASE m.line \in Lines
  <2>1. m.line # Clear
    BY <1>3, ClearAssumption
  <2>2. /\ Paint(y, m) = IF Valid(m.line) THEN Append(y, m.line) ELSE y
        /\ Drawn(c, m.line) = Append(c, m.line)
    BY <1>1, <2>1 DEF Paint, Drawn
  <2> QED BY <1>3, <2>2, VisibleGrows, AppendProperties DEF Canvases
<1> QED BY <1>2, <1>3 DEF StrokeMessages, Strokes

\* What remains of a canvas are the lines the server accepts.
LEMMA VisibleAccepted ==
  ASSUME NEW c \in Canvases, NEW y, Visible(y, c)
  PROVE  y = Accepted(c)
<1> DEFINE n == Len(c)
<1>1. n \in Nat
  BY LenProperties DEF Canvases
<1>2. PICK A \in [0..n -> Canvases] :
        /\ A[0] = <<>> /\ A[n] = y
        /\ \A j \in 1..n :
             A[j] = IF Valid(c[j]) THEN Append(A[j - 1], c[j]) ELSE A[j - 1]
  BY DEF Visible
<1> DEFINE Step(f, j) == IF j = 0 THEN <<>>
                         ELSE IF Valid(c[j]) THEN Append(f[j - 1], c[j])
                         ELSE f[j - 1]
           F == CHOOSE f : f = [j \in 0..n |-> Step(f, j)]
<1>3. A = [j \in 0..n |-> Step(A, j)]
  <2>1. ASSUME NEW j \in 0..n  PROVE A[j] = Step(A, j)
    <3>1. CASE j = 0
      BY <1>2, <3>1
    <3>2. CASE j # 0
      <4>1. j \in 1..n
        BY <1>1, <3>2
      <4> QED BY <1>2, <3>2, <4>1, Zenon
    <3> QED BY <3>1, <3>2
  <2> HIDE DEF Step
  <2> QED BY <1>2, <2>1
<1>4. F = [j \in 0..n |-> Step(F, j)]
  <2> HIDE DEF Step
  <2> QED BY <1>3, Zenon
<1>5. Accepted(c) = F[n]
  BY Zenon DEF Accepted
<1> HIDE DEF F
<1>6. \A j \in 0..n : F[j] = Step(F, j)
  <2> HIDE DEF Step
  <2> QED BY <1>4
<1>7. ASSUME NEW i \in 0..n, F[i] # A[i]  PROVE FALSE
  <2> DEFINE S == {j \in 0..n : F[j] # A[j]}
             k == Min(S)
  <2>1. S \subseteq Nat /\ S # {}
    BY <1>1, <1>7
  <2>2. k \in S /\ \A j \in S : k <= j
    BY <2>1, NatMin
  <2>3. k \in 0..n /\ F[k] # A[k] /\ \A j \in 0..n : F[j] # A[j] => k <= j
    BY <2>2
  <2> HIDE DEF k, S
  <2>4. k # 0
    BY <1>2, <1>6, <2>3
  <2>5. k - 1 \in 0..n /\ k \in 1..n /\ ~(k <= k - 1)
    BY <1>1, <2>3, <2>4
  <2>6. F[k - 1] = A[k - 1]
    BY <2>3, <2>5
  <2> QED BY <1>2, <1>6, <2>3, <2>4, <2>5, <2>6
<1> QED BY <1>1, <1>2, <1>5, <1>7

\* Before the drawer's page sees the round, only the empty canvas is in sight.
LEMMA TargetFresh ==
  ASSUME NEW v, NEW s, NEW g, ~Now(v, g)
  PROVE  Target(v, s, g) = {<<>>}
<1>1. <<>> \in Canvases
  BY EmptySeq DEF Canvases
<1> QED BY <1>1 DEF Target

\* A stroke is drawn: whoever has the drawing will have it with the stroke.
LEMMA TargetDrawn ==
  ASSUME NEW v, v.canvas \in Canvases, NEW s \in Seq(StrokeMessages),
         NEW m \in StrokeMessages, NEW w, w.canvas = Drawn(v.canvas, m.line),
         NEW g, Now(v, g), Now(w, g)
  PROVE  Target(v, s, g) \subseteq Target(w, Append(s, m), g)
<1> SUFFICES ASSUME NEW x \in Target(v, s, g)
             PROVE  x \in Target(w, Append(s, m), g)
  OBVIOUS
<1>1. x \in Canvases
  BY DEF Target
<1>2. PICK y \in Canvases : Run(x, s, 0, y) /\ Visible(y, v.canvas)
  BY DEF Target
<1> DEFINE z == Paint(y, m)
<1>3. Visible(z, w.canvas) /\ w.canvas \in Canvases
  BY <1>2, VisibleDrawn
<1>4. z \in Canvases
  BY <1>3, VisibleTyped
<1>5. 0 \in 0..Len(s)
  BY LenProperties
<1>6. Run(x, Append(s, m), 0, z)
  BY <1>2, <1>5, BothPaint, RunGoesOn
<1> HIDE DEF z
<1> QED BY <1>1, <1>3, <1>4, <1>6 DEF Target

\* A stroke is taken off the drawer's connection: it is on the canvases now.
LEMMA TargetRelayed ==
  ASSUME NEW v, NEW s \in Seq(StrokeMessages), s # <<>>, NEW g, Now(v, g),
         NEW x \in Target(v, s, g)
  PROVE  Paint(x, Head(s)) \in Target(v, Tail(s), g)
<1>1. x \in Canvases
  BY DEF Target
<1>2. PICK y \in Canvases : Run(x, s, 0, y) /\ Visible(y, v.canvas)
  BY DEF Target
<1> DEFINE z == Paint(x, Head(s))
<1>3. 0 \in 0..Len(s) /\ Head(s) \in StrokeMessages
  BY TakenOff
<1>4. Run(z, Tail(s), 0, y)
  BY <1>2, <1>3, RunInTail
<1>5. z \in Canvases
  BY <1>1, <1>3, BothPaint, PaintTyped DEF Painting
<1> HIDE DEF z
<1>6. z \in Target(v, Tail(s), g)
  BY <1>2, <1>4, <1>5 DEF Target
<1> QED BY <1>6 DEF z

\* When no stroke is on its way, the drawing in sight is that of the drawer.
LEMMA TargetReached ==
  ASSUME NEW v, v.canvas \in Canvases, NEW g, Now(v, g), NEW x \in Target(v, <<>>, g)
  PROVE  x = Accepted(v.canvas)
<1>1. PICK y \in Canvases : Run(x, <<>>, 0, y) /\ Visible(y, v.canvas)
  BY DEF Target
<1>2. y = x
  BY <1>1, RunOfNothing
<1> QED BY <1>1, <1>2, VisibleAccepted

-----------------------------------------------------------------------------
(* One message more, or one message less: the drawing on the pages.        *)

\* Nothing is sent and the drawing goes on.
LEMMA DrawingStays ==
  ASSUME NEW v, NEW w, NEW q, NEW u, NEW g, NEW h, NEW T, NEW T2,
         w.stage # "closed" => v.stage # "closed", w.round = v.round,
         ~Now(v, g) \/ u = g.drawer \/ w.canvas = v.canvas,
         u # g.drawer => T \subseteq T2,
         h.open = g.open, h.round = g.round, h.drawer = g.drawer,
         PageDraws(v, q, u, g, T)
  PROVE  PageDraws(w, q, u, h, T2)
<1> SUFFICES ASSUME w.stage # "closed", NEW k \in 0..Len(q), Sees(w, q, k, h)
             PROVE  Follows(w, q, k, u, h, T2)
  BY DEF PageDraws
<1>1. Sees(v, q, k, g)
  BY DEF Sees, Now
<1>2. Follows(v, q, k, u, g, T)
  BY <1>1 DEF PageDraws
<1>3. u # h.drawer => CanvasAt(w, k) = CanvasAt(v, k)
  BY <1>1 DEF Sees, CanvasAt
<1> QED BY <1>2, <1>3 DEF Follows

\* A message is sent that starts no round; to the drawer it brings no line.
LEMMA DrawingGoesOn ==
  ASSUME NEW v, NEW q \in Seq(Messages), NEW m \in Messages, ~IsStart(m),
         NEW u, NEW g, NEW h, NEW T, NEW T2, T \subseteq Canvases,
         u = g.drawer => m.kind # "draw_broadcast",
         \A x \in T : Paint(x, m) \in T2,
         h.open = g.open, h.round = g.round, h.drawer = g.drawer,
         PageDraws(v, q, u, g, T)
  PROVE  PageDraws(v, Append(q, m), u, h, T2)
<1> DEFINE t == Append(q, m)
           n == Len(q)
<1>1. /\ n \in Nat /\ Len(t) = n + 1 /\ \A i \in 1..n : t[i] = q[i]
      /\ t[n + 1] = m
  BY Appended
<1> HIDE DEF t, n
<1> SUFFICES ASSUME v.stage # "closed", NEW k \in 0..(n + 1), Sees(v, t, k, h)
             PROVE  Follows(v, t, k, u, h, T2)
  BY <1>1 DEF PageDraws, t
<1>2. k # n + 1
  BY <1>1 DEF Sees
<1>3. k \in 0..n /\ (k = 0 \/ k \in 1..n)
  BY <1>1, <1>2
<1>4. Sees(v, q, k, g)
  BY <1>1, <1>3 DEF Sees, Now
<1>5. Follows(v, q, k, u, g, T)
  BY <1>3, <1>4 DEF PageDraws, n
<1>6. \A j \in (k + 1)..(n + 1) : j = n + 1 \/ (j \in (k + 1)..n /\ j \in 1..n)
  BY <1>1, <1>3
<1>7. \A j \in (k + 1)..Len(t) : ~IsStart(t[j])
  BY <1>1, <1>5, <1>6 DEF Follows, n
<1>8. u = h.drawer => \A j \in (k + 1)..Len(t) : t[j].kind # "draw_broadcast"
  BY <1>1, <1>5, <1>6 DEF Follows, n
<1>9. ASSUME u # h.drawer
      PROVE  \E x \in T2 : Run(CanvasAt(v, k), t, k, x)
  <2>1. PICK x \in T : Run(CanvasAt(v, k), q, k, x)
    BY <1>5, <1>9 DEF Follows
  <2>2. Run(CanvasAt(v, k), t, k, Paint(x, m))
    BY <1>3, <2>1, BothPaint, RunGoesOn DEF t, n
  <2> QED BY <2>1, <2>2
<1> QED BY <1>7, <1>8, <1>9 DEF Follows

\* A round starts that neither the page nor its queue knew of.
LEMMA DrawingStarts ==
  ASSUME NEW v, NEW q \in Seq(Messages), NEW m \in Messages, IsStart(m),
         NEW u, NEW g, Now(m, g), ~Now(v, g),
         \A i \in 1..Len(q) : IsStart(q[i]) => ~Now(q[i], g),
         NEW T, <<>> \in T
  PROVE  PageDraws(v, Append(q, m), u, g, T)
<1> DEFINE t == Append(q, m)
           n == Len(q)
<1>1. /\ n \in Nat /\ Len(t) = n + 1 /\ \A i \in 1..n : t[i] = q[i]
      /\ t[n + 1] = m /\ t \in Seq(Messages)
  BY Appended
<1>2. \A i \in 1..n : IsStart(q[i]) => ~Now(q[i], g)
  OBVIOUS
<1> HIDE DEF t, n
<1> SUFFICES ASSUME v.stage # "closed", NEW k \in 0..(n + 1), Sees(v, t, k, g)
             PROVE  Follows(v, t, k, u, g, T)
  BY <1>1 DEF PageDraws, t
<1>3. k = n + 1
  <2>1. k # 0
    BY DEF Sees
  <2>2. k \notin 1..n
    BY <1>1, <1>2, <2>1 DEF Sees
  <2> QED BY <1>1, <2>1, <2>2
<1>4. <<>> \in Canvases
  BY EmptySeq DEF Canvases
<1>5. Run(<<>>, t, Len(t), <<>>)
  BY <1>1, <1>4, RunStarts
<1>6. CanvasAt(v, k) = <<>> /\ k = Len(t) /\ (k + 1)..Len(t) = {}
  BY <1>1, <1>3 DEF CanvasAt
<1> QED BY <1>5, <1>6 DEF Follows

\* A page shows one message more and its queue has one less.
LEMMA DrawingDelivered ==
  ASSUME NEW v, v \in ViewType, NEW q \in Seq(Messages), q # <<>>, v.stage # "closed",
         v.stage = "opening" => v.round = 0,
         NEW u, NEW g, g.open => g.round >= 1, NEW T, NEW T2,
         u # g.drawer => T \subseteq T2,
         PageDraws(v, q, u, g, T)
  PROVE  PageDraws(Shown(v, Head(q)), Tail(q), u, g, T2)
<1> DEFINE w == Shown(v, Head(q))
           t == Tail(q)
           n == Len(q)
           m == Head(q)
<1>1. /\ n \in Nat /\ n >= 1 /\ Len(t) = n - 1 /\ m = q[1] /\ m \in Messages
      /\ \A i \in 1..(n - 1) : t[i] = q[i + 1]
  BY TakenOff
<1>2. /\ v.stage = "mounted" =>
            /\ IsStart(m) => w.round = m.round /\ w.canvas = <<>>
            /\ ~IsStart(m) => w.round = v.round /\ w.canvas = Paint(v.canvas, m)
      /\ v.stage # "mounted" => w.round = v.round
  BY <1>1, ShownFields
<1>3. v.stage = "mounted" \/ v.stage = "opening"
  BY DEF ViewType
<1> SUFFICES ASSUME NEW k \in 0..Len(t), Sees(w, t, k, g)
             PROVE  Follows(w, t, k, u, g, T2)
  BY DEF PageDraws
<1> HIDE DEF w, t, n, m
<1> DEFINE d == IF k = 0 /\ ~IsStart(m) THEN 0 ELSE k + 1
<1>4. k \in Nat /\ k \in 0..(n - 1) /\ d \in 0..n /\ d <= k + 1 /\ d \in Nat
  BY <1>1
<1>5. Sees(v, q, d, g) /\ (k = 0 => v.stage = "mounted")
  <2>1. CASE k = 0
    <3>1. Now(w, g)
      BY <2>1 DEF Sees
    <3>2. v.stage = "mounted"
      <4> SUFFICES ASSUME v.stage = "opening"  PROVE FALSE
        BY <1>3
      <4>1. w.round = 0
        BY <1>2
      <4> QED BY <3>1, <4>1 DEF Now
    <3>3. CASE IsStart(m)
      <4>1. d = 1 /\ Now(q[1], g) /\ IsStart(q[1])
        BY <1>1, <1>2, <2>1, <3>1, <3>2, <3>3 DEF Now
      <4> HIDE DEF d
      <4> QED BY <3>2, <4>1 DEF Sees
    <3>4. CASE ~IsStart(m)
      <4>1. d = 0 /\ Now(v, g)
        BY <1>2, <2>1, <3>1, <3>2, <3>4 DEF Now
      <4> HIDE DEF d
      <4> QED BY <3>2, <4>1 DEF Sees
    <3> QED BY <3>3, <3>4
  <2>2. CASE k # 0
    <3>1. IsStart(t[k]) /\ Now(t[k], g) /\ d = k + 1
      BY <2>2 DEF Sees
    <3>2. t[k] = q[d] /\ d # 0
      BY <1>1, <1>4, <2>2, <3>1
    <3> HIDE DEF d
    <3> QED BY <2>2, <3>1, <3>2 DEF Sees
  <2> QED BY <2>1, <2>2
<1>6. Follows(v, q, d, u, g, T)
  BY <1>4, <1>5 DEF PageDraws, n
<1>7. \A j \in (k + 1)..(n - 1) : t[j] = q[j + 1] /\ j + 1 \in (d + 1)..n
  BY <1>1, <1>4
<1>8. \A j \in (k + 1)..Len(t) : ~IsStart(t[j])
  BY <1>1, <1>6, <1>7 DEF Follows, n
<1>9. u = g.drawer => \A j \in (k + 1)..Len(t) : t[j].kind # "draw_broadcast"
  BY <1>1, <1>6, <1>7 DEF Follows, n
<1>10. ASSUME u # g.drawer
       PROVE  \E x \in T2 : Run(CanvasAt(w, k), t, k, x)
  <2>1. PICK x \in T : Run(CanvasAt(v, d), q, d, x)
    BY <1>6, <1>10 DEF Follows
  <2>2. /\ d = 0 => Run(Paint(CanvasAt(v, d), m), t, 0, x)
        /\ d > 0 => Run(CanvasAt(v, d), t, d - 1, x)
    BY <1>4, <2>1, RunInTail DEF t, n, m
  <2>3. Run(CanvasAt(w, k), t, k, x)
    <3>1. CASE k = 0 /\ ~IsStart(m)
      <4>1. d = 0
        BY <3>1
      <4>2. CanvasAt(w, k) = Paint(CanvasAt(v, d), m)
        BY <1>2, <1>5, <3>1, <4>1 DEF CanvasAt
      <4> QED BY <2>2, <3>1, <4>1, <4>2
    <3>2. CASE ~(k = 0 /\ ~IsStart(m))
      <4>1. d = k + 1 /\ d - 1 = k /\ d > 0
        BY <1>4, <3>2
      <4>2. CanvasAt(v, d) = <<>>
        BY <4>1 DEF CanvasAt
      <4>3. CanvasAt(w, k) = <<>>
        BY <1>2, <1>5, <3>2 DEF CanvasAt
      <4> QED BY <2>2, <4>1, <4>2, <4>3
    <3> QED BY <3>1, <3>2
  <2> QED BY <1>10, <2>1, <2>3
<1> QED BY <1>8, <1>9, <1>10 DEF Follows, w, t

\* A page that is in the open round stays in it.
LEMMA RoundStaysSeen ==
  ASSUME NEW v, v \in ViewType, NEW q \in Seq(Messages), q # <<>>, v.stage # "closed",
         NEW u, NEW g, NEW T, PageDraws(v, q, u, g, T), Now(v, g)
  PROVE  LET w == Shown(v, Head(q))
         IN  /\ Now(w, g)
             /\ u = g.drawer => w.canvas = v.canvas
<1> DEFINE w == Shown(v, Head(q))
           m == Head(q)
<1>1. Len(q) \in Nat /\ Len(q) >= 1 /\ m = q[1] /\ m \in Messages
  BY TakenOff
<1>2. 0 \in 0..Len(q) /\ Sees(v, q, 0, g) /\ 1 \in (0 + 1)..Len(q)
  BY <1>1 DEF Sees
<1>3. Follows(v, q, 0, u, g, T)
  BY <1>2 DEF PageDraws
<1>4. ~IsStart(m) /\ (u = g.drawer => m.kind # "draw_broadcast")
  BY <1>1, <1>2, <1>3 DEF Follows
<1>5. m.kind # "draw_broadcast" => Paint(v.canvas, m) = v.canvas
  BY <1>1, StartTyped DEF Paint
<1>6. w.round = v.round /\ (w.canvas = v.canvas \/ w.canvas = Paint(v.canvas, m))
  BY <1>1, <1>4, ShownFields
<1> QED BY <1>4, <1>5, <1>6 DEF Now

\* What the drawer's page shows next takes nothing from the drawing.
LEMMA DrawerDelivered ==
  ASSUME NEW v, v \in ViewType, NEW q \in Seq(Messages), q # <<>>, v.stage # "closed",
         v.stage = "opening" => v.round = 0, NEW s,
         NEW g, g.open => g.round >= 1, NEW T,
         PageDraws(v, q, g.drawer, g, T), DrawerFresh(v, s, g)
  PROVE  LET w == Shown(v, Head(q))
         IN  /\ DrawerFresh(w, s, g)
             /\ Target(v, s, g) \subseteq Target(w, s, g)
<1> DEFINE w == Shown(v, Head(q))
           m == Head(q)
<1>1. m \in Messages
  BY TakenOff
<1>2. CASE Now(v, g)
  <2>1. Now(w, g) /\ w.canvas = v.canvas
    BY <1>2, RoundStaysSeen
  <2> HIDE DEF w
  <2>2. Target(v, s, g) = Target(w, s, g)
    BY <1>2, <2>1 DEF Target
  <2>3. DrawerFresh(w, s, g)
    BY <2>1 DEF DrawerFresh
  <2> QED BY <2>2, <2>3 DEF w
<1>3. CASE ~Now(v, g) /\ ~Now(w, g)
  <2> HIDE DEF w
  <2>1. Target(v, s, g) = Target(w, s, g)
    BY <1>3, TargetFresh
  <2>2. DrawerFresh(w, s, g)
    BY <1>3 DEF DrawerFresh
  <2> QED BY <2>1, <2>2 DEF w
<1>4. CASE ~Now(v, g) /\ Now(w, g)
  <2>1. w.round # v.round
    BY <1>4 DEF Now
  <2>2. IsStart(m) /\ w.canvas = <<>>
    BY <1>1, <2>1, ShownFields
  <2> HIDE DEF w
  <2>3. s = <<>> /\ Len(s) = 0 /\ Target(v, s, g) = {<<>>}
    BY <1>4, TargetFresh DEF DrawerFresh
  <2>4. <<>> \in Canvases /\ s \in Seq(StrokeMessages)
    BY <2>3, EmptySeq DEF Canvases
  <2>5. Run(<<>>, s, 0, <<>>)
    BY <2>3, <2>4, RunStarts
  <2>6. <<>> \in Target(w, s, g)
    BY <1>4, <2>2, <2>4, <2>5, VisibleStarts DEF Target
  <2>7. DrawerFresh(w, s, g)
    BY <1>4 DEF DrawerFresh
  <2> QED BY <2>3, <2>6, <2>7 DEF w
<1> QED BY <1>2, <1>3, <1>4

-----------------------------------------------------------------------------
(* A page after the handler of somebody, possibly its own user, has run.   *)

\* A page that is closed is told nothing and knows nothing.
LEMMA ClosedPage ==
  ASSUME NEW r, NEW u \in Users
  PROVE  PageOK(Blank, <<>>, <<>>, r, u)
<1>1. Blank.stage = "closed" /\ Blank.drawer = NoUser
  BY DEF Blank
<1>2. Len(<<>>) = 0
  OBVIOUS
<1>3. StageOK(Blank, <<>>, <<>>, r, u)
  BY <1>1 DEF StageOK
<1>4. Told(Blank, <<>>, <<>>, r)
  BY <1>1 DEF Told
<1>5. StrokesNow(Blank, <<>>, r.game, u)
  BY <1>2 DEF StrokesNow
<1>6. ~HadTurn(Blank, <<>>, <<>>, r.game.round, u)
  BY <1>1, <1>2, RoomAssumption DEF HadTurn
<1>7. TurnAway(Blank, <<>>, <<>>, r, u)
  BY <1>6 DEF TurnAway
<1> QED BY <1>3, <1>4, <1>5, <1>7 DEF PageOK

\* What a page that is closed looks like.
LEMMA PageClosed ==
  ASSUME NEW v, NEW q, NEW s, NEW r, NEW u, StageOK(v, q, s, r, u), v.stage = "closed"
  PROVE  v = Blank /\ q = <<>> /\ s = <<>>
  BY DEF StageOK

\* A page that is open and stays so while its queue and the room change.
LEMMA PageStaysOpen ==
  ASSUME NEW v, NEW q, NEW s, NEW r, NEW u, StageOK(v, q, s, r, u),
         v.stage # "closed", NEW q2, NEW r2, r2.state # "NONE",
         Live(r2) => HasPlayer(r2, u) /\ PlayersTold(v, q2, r2)
  PROVE  StageOK(v, q2, s, r2, u)
  BY DEF StageOK

\* A page that is open after a step in which its own user did nothing.
LEMMA OpenPage ==
  ASSUME NEW v, NEW q, NEW s, NEW r, NEW u, PageOK(v, q, s, r, u), v.stage # "closed",
         NEW q2, NEW r2, r2.state # "NONE",
         Live(r2) => HasPlayer(r2, u) /\ Knows(v, q2, s, r2),
         StrokesNow(v, s, r2.game, u), TurnAway(v, q2, s, r2, u)
  PROVE  PageOK(v, q2, s, r2, u)
<1>1. StageOK(v, q2, s, r2, u)
  BY DEF PageOK, StageOK, Knows
<1>2. Told(v, q2, s, r2)
  BY DEF Told, Knows
<1> QED BY <1>1, <1>2 DEF PageOK

\* What is known of a room that is live.
LEMMA PageKnows ==
  ASSUME NEW v, NEW q, NEW s, NEW r, NEW u, PageOK(v, q, s, r, u), v.stage # "closed",
         Live(r)
  PROVE  Knows(v, q, s, r)
  BY DEF PageOK, Told, Knows

\* The round goes on: nobody moves, nobody comes into play, no turn is told of.
LEMMA PageStays ==
  ASSUME NEW v, NEW q, NEW s, NEW r, NEW u, PageOK(v, q, s, r, u), v.stage # "closed",
         NEW q2, NEW r2, SameRound(r, r2), Live(r2), HasPlayer(r2, u),
         Knows(v, q2, s, r2),
         HadTurn(v, q2, s, r2.game.round, u) => HadTurn(v, q, s, r2.game.round, u),
         r.game.open =>
           \A i \in Seats(r2) :
             /\ r2.active[i] = "active" => i \in Seats(r) /\ r.active[i] = "active"
             /\ r2.players[i] = u => i \in Seats(r) /\ r.players[i] = u
  PROVE  PageOK(v, q2, s, r2, u)
<1>1. StrokesNow(v, s, r2.game, u)
  BY DEF PageOK, StrokesNow, SameRound, Now
<1>2. TurnAway(v, q, s, r, u)
  BY DEF PageOK
<1>3. TurnAway(v, q2, s, r2, u)
  BY <1>2, TurnStaysAway
<1>4. r2.state # "NONE"
  BY DEF Live
<1> QED BY <1>1, <1>3, <1>4, OpenPage

\* No round is open any more, or none has been before.
LEMMA PageIdle ==
  ASSUME NEW v, NEW q, NEW s, NEW r, NEW u, PageOK(v, q, s, r, u), v.stage # "closed",
         NEW q2, NEW r2, ~r2.game.open, r2.state # "NONE",
         Live(r2) => HasPlayer(r2, u) /\ Knows(v, q2, s, r2)
  PROVE  PageOK(v, q2, s, r2, u)
<1>1. StrokesNow(v, s, r2.game, u)
  BY DEF StrokesNow, Now
<1>2. TurnAway(v, q2, s, r2, u)
  BY DEF TurnAway
<1> QED BY <1>1, <1>2, OpenPage

\* A new round: nothing a page, a queue or the strokes hold belongs to it.
LEMMA NothingIsNow ==
  ASSUME NEW v, v \in ViewType, NEW q \in Seq(Messages), NEW s \in Seq(StrokeMessages),
         NEW n \in Nat, NEW g, g.round \in Nat, g.round > n,
         v.round <= n, StartsPast(q, n), StrokesPast(s, n)
  PROVE  /\ ~Now(v, g)
         /\ \A i \in 1..Len(q) : IsStart(q[i]) => ~Now(q[i], g)
         /\ \A u : StrokesNow(v, s, g, u)
<1>1. v.round \in Nat
  BY DEF ViewType
<1>2. ~Now(v, g)
  BY <1>1 DEF Now
<1>3. \A i \in 1..Len(q) : IsStart(q[i]) => ~Now(q[i], g)
  <2> SUFFICES ASSUME NEW i \in 1..Len(q), IsStart(q[i])
               PROVE  ~Now(q[i], g)
    OBVIOUS
  <2>1. q[i] \in Messages
    BY QueueElement
  <2>2. q[i].round \in Nat /\ q[i].round <= n
    BY <2>1, StartTyped DEF StartsPast
  <2> QED BY <2>2 DEF Now
<1>4. \A i \in 1..Len(s) : ~Now(s[i], g)
  <2> SUFFICES ASSUME NEW i \in 1..Len(s)
               PROVE  ~Now(s[i], g)
    OBVIOUS
  <2>1. s[i] \in StrokeMessages
    BY QueueElement
  <2>2. s[i].round \in Nat /\ s[i].round <= n
    BY <2>1 DEF StrokesPast, StrokeMessages
  <2> QED BY <2>2 DEF Now
<1> QED BY <1>2, <1>3, <1>4 DEF StrokesNow

\* Whoever has the turn has no strokes of an earlier round on their way.
LEMMA FreshTurn ==
  ASSUME NEW v, NEW q, NEW s \in Seq(StrokeMessages), NEW r, Good(r), r.game.open,
         NEW u, TurnAway(v, q, s, r, u), u = r.game.drawer,
         NEW i \in 1..Len(s), s[i].round < r.game.round
  PROVE  FALSE
<1>1. HadTurn(v, q, s, r.game.round, u)
  BY DEF HadTurn
<1>2. r.game.drawer_index \in Seats(r) /\ r.players[r.game.drawer_index] = u
  BY DEF Good, DrawerSeated
<1> QED BY <1>1, <1>2 DEF TurnAway, PassedOver

\* A page after the round has moved on, with p what is sent before the news.
LEMMA PageMoves ==
  ASSUME NEW v, v \in ViewType, NEW q \in Seq(Messages), NEW s \in Seq(StrokeMessages),
         NEW r, RoomOK(r), r.state = "PLAYING", r.game.open,
         NEW u, PageOK(v, q, s, r, u), v.stage # "closed",
         NEW r2, RoomOK(r2), Live(r2), HasPlayer(r2, u), r2.players = r.players,
         NEW p \in Seq(Messages), PlayersTold(v, p, r2),
         \A n : StartsPast(q, n) => StartsPast(p, n),
         \A n : HadTurn(v, p, s, n, u) => HadTurn(v, q, s, n, u),
         \/ r2.state = "FINISHED" /\ ~r2.game.open
         \/ /\ TurnMoved(r, r2)
            /\ HadTurn(v, q, s, r.game.round, u) =>
                 /\ ActiveSeats(r2) \subseteq ActiveSeats(r)
                 /\ r2.active[r.game.drawer_index] # "active"
                 /\ \E a \in ActiveSeats(r2) : a # r2.game.drawer_index
  PROVE  LET t == p \o RoundMessages(r2)
         IN  /\ t \in Seq(Messages)
             /\ PageOK(v, t, s, r2, u)
             /\ r2.game.open =>
                  /\ ~Now(v, r2.game)
                  /\ u = r2.game.drawer => s = <<>>
                  /\ \A T : <<>> \in T => PageDraws(v, t, u, r2.game, T)
<1> DEFINE t == p \o RoundMessages(r2)
           n == r.game.round
           m == GameStart(r2)
<1>1. Knows(v, q, s, r) /\ StrokesNow(v, s, r.game, u) /\ TurnAway(v, q, s, r, u)
  BY PageKnows DEF PageOK, Live
<1>2. Good(r) /\ Good(r2) /\ r \in RoomType /\ r2 \in RoomType
  BY DEF RoomOK, Good, Base, SeatsTyped
<1>3. n \in Nat /\ r2.game.round \in Nat
  BY <1>2 DEF RoomType, GameType
<1>4. v.round <= n /\ StartsPast(q, n) /\ StrokesPast(s, n) /\ StartsPast(p, n)
  BY <1>1 DEF Knows, RoundsPast
<1>5. RoundsPast(v, p, s, r)
  BY <1>4 DEF RoundsPast
<1>6. \/ r2.state = "FINISHED" /\ ~r2.game.open
      \/ r2.state = "PLAYING" /\ r2.game.open /\ r2.game.round > n
  BY DEF TurnMoved
<1>7. /\ t \in Seq(Messages) /\ Knows(v, t, s, r2)
      /\ t = Append(Append(p, RoundEnd), IF r2.game.open THEN m ELSE GameEnd)
  BY <1>2, <1>5, <1>6, KnowsRound
<1> HIDE DEF t, n
<1>8. CASE ~r2.game.open
  <2>1. r2.state # "NONE"
    BY <1>6, <1>8
  <2>2. PageOK(v, t, s, r2, u)
    BY <1>7, <1>8, <2>1, PageIdle
  <2> QED BY <1>7, <1>8, <2>2 DEF t
<1>9. CASE r2.game.open
  <2> DEFINE e == Append(p, RoundEnd)
  <2>1. /\ TurnMoved(r, r2) /\ r2.game.round > n /\ r2.state = "PLAYING"
        /\ HadTurn(v, q, s, n, u) =>
             /\ ActiveSeats(r2) \subseteq ActiveSeats(r)
             /\ r2.active[r.game.drawer_index] # "active"
             /\ \E a \in ActiveSeats(r2) : a # r2.game.drawer_index
    BY <1>6, <1>9 DEF n
  <2>2. RoundEnd \in Messages /\ m \in Messages
    <3>1. r2.game.round >= 1
      BY <1>9 DEF RoomOK
    <3> QED BY <1>2, <3>1, MessagesTyped
  <2>3. /\ ~IsStart(RoundEnd) /\ IsStart(m)
        /\ m.round = r2.game.round /\ Now(m, r2.game)
    BY <1>9, MessageKinds DEF Now
  <2>4. e \in Seq(Messages) /\ t = Append(e, m)
    BY <1>7, <1>9, <2>2, Appended
  <2>5. StartsPast(e, n)
    BY <1>3, <1>4, <2>2, <2>3, StartsStayPast
  <2> HIDE DEF e, m
  <2>6. /\ ~Now(v, r2.game) /\ StrokesNow(v, s, r2.game, u)
        /\ \A i \in 1..Len(e) : IsStart(e[i]) => ~Now(e[i], r2.game)
    BY <1>3, <1>4, <2>1, <2>4, <2>5, NothingIsNow
  <2>7. HadTurn(v, t, s, r2.game.round, u) => HadTurn(v, q, s, r2.game.round, u)
    <3>1. HadTurn(v, t, s, r2.game.round, u) => HadTurn(v, e, s, r2.game.round, u)
      BY <1>3, <2>2, <2>3, <2>4, TurnsSent
    <3>2. HadTurn(v, e, s, r2.game.round, u) => HadTurn(v, p, s, r2.game.round, u)
      BY <2>2, <2>3, TurnsSent DEF e
    <3> QED BY <3>1, <3>2
  <2>8. HadTurn(v, t, s, r2.game.round, u) => HadTurn(v, q, s, n, u) \/ u = r.game.drawer
    BY <1>1, <1>2, <2>7, TurnsSoFar DEF Knows, n
  <2>9. TurnAway(v, t, s, r2, u)
    <3>1. CASE HadTurn(v, q, s, n, u)
      <4>1. PICK a \in ActiveSeats(r2) : a # r2.game.drawer_index
        BY <2>1, <3>1
      <4> QED BY <1>1, <1>2, <2>1, <3>1, <4>1, TurnKeepsAway DEF n
    <3>2. CASE ~HadTurn(v, q, s, n, u)
      BY <1>2, <2>1, <2>8, <3>2, TurnMovesAway
    <3> QED BY <3>1, <3>2
  <2>10. PageOK(v, t, s, r2, u)
    BY <1>7, <2>1, <2>6, <2>9, OpenPage
  <2>11. \A T : <<>> \in T => PageDraws(v, t, u, r2.game, T)
    BY <2>2, <2>3, <2>4, <2>6, DrawingStarts
  <2>12. ASSUME u = r2.game.drawer  PROVE s = <<>>
    <3> SUFFICES ASSUME s # <<>>  PROVE FALSE
      OBVIOUS
    <3>1. 1 \in 1..Len(s) /\ s[1] \in StrokeMessages
      BY TakenOff
    <3>2. s[1].round < r2.game.round
      BY <1>3, <1>4, <2>1, <3>1 DEF StrokesPast, StrokeMessages
    <3> QED BY <1>2, <1>9, <2>9, <2>12, <3>1, <3>2, FreshTurn
  <2> QED BY <1>7, <2>6, <2>10, <2>11, <2>12 DEF t
<1> QED BY <1>8, <1>9

\* A page that is opening has been told nothing yet, and nothing false.
LEMMA FreshPage ==
  ASSUME NEW r, RoomOK(r), NEW u \in Users
  PROVE  /\ Opening \in ViewType /\ Opening.stage = "opening"
         /\ StateTold(Opening, <<>>, r) /\ RoundsTold(Opening, <<>>, r.game)
         /\ RoundsPast(Opening, <<>>, <<>>, r)
         /\ \A n : ~HadTurn(Opening, <<>>, <<>>, n, u)
         /\ \A T : PageDraws(Opening, <<>>, u, r.game, T)
<1>1. /\ Opening.stage = "opening" /\ Opening.state = "waiting" /\ Opening.round = 0
      /\ Opening.drawer = NoUser /\ Opening \in ViewType
  BY EmptySeq DEF Opening, Blank, ViewType, Canvases
<1>2. Len(<<>>) = 0
  OBVIOUS
<1>3. r.game.round \in Nat /\ ~Now(Opening, r.game)
  BY <1>1 DEF RoomOK, Good, Base, SeatsTyped, RoomType, GameType, Now
<1>4. StateTold(Opening, <<>>, r)
  BY <1>1, <1>2 DEF StateTold
<1>5. RoundsTold(Opening, <<>>, r.game)
  BY <1>1, <1>2, <1>3 DEF RoundsTold, DrawerTold
<1>6. RoundsPast(Opening, <<>>, <<>>, r)
  BY <1>1, <1>2, <1>3 DEF RoundsPast, StartsPast, StrokesPast
<1>7. \A n : ~HadTurn(Opening, <<>>, <<>>, n, u)
  BY <1>1, <1>2, RoomAssumption DEF HadTurn
<1>8. \A T : PageDraws(Opening, <<>>, u, r.game, T)
  BY <1>2, <1>3 DEF PageDraws, Sees
<1> QED BY <1>1, <1>4, <1>5, <1>6, <1>7, <1>8

\* A page that is opening after the first news has been sent to it.
LEMMA OpeningPage ==
  ASSUME NEW q, NEW r, Live(r), NEW u \in Users, HasPlayer(r, u),
         Knows(Opening, q, <<>>, r), ~HadTurn(Opening, q, <<>>, r.game.round, u)
  PROVE  PageOK(Opening, q, <<>>, r, u)
<1>1. /\ Opening.stage = "opening" /\ Opening.state = "waiting" /\ Opening.round = 0
      /\ Opening.drawer = NoUser /\ Opening.canvas = <<>>
  BY DEF Opening, Blank
<1>2. r.state # "NONE" /\ Len(<<>>) = 0
  BY DEF Live
<1>3. StageOK(Opening, q, <<>>, r, u)
  BY <1>1, <1>2 DEF StageOK, Knows
<1>4. Told(Opening, q, <<>>, r)
  BY DEF Told, Knows
<1>5. StrokesNow(Opening, <<>>, r.game, u)
  BY <1>2 DEF StrokesNow
<1>6. TurnAway(Opening, q, <<>>, r, u)
  BY DEF TurnAway
<1> QED BY <1>3, <1>4, <1>5, <1>6 DEF PageOK

\* While the round is the same, so is the drawing in sight.
LEMMA SameTarget ==
  ASSUME NEW g, NEW h, h.open = g.open, h.round = g.round, NEW v, NEW s
  PROVE  /\ Target(v, s, h) = Target(v, s, g)
         /\ DrawerFresh(v, s, h) <=> DrawerFresh(v, s, g)
<1>1. Now(v, h) <=> Now(v, g)
  BY DEF Now
<1> QED BY <1>1 DEF Target, DrawerFresh

\* Whoever draws in the open round has a seat in the room.
LEMMA DrawerHasSeat ==
  ASSUME NEW r, RoomOK(r), r.game.open
  PROVE  /\ r.game.drawer \in Users /\ HasPlayer(r, r.game.drawer)
         /\ r.state = "PLAYING" /\ r.game.round \in Nat /\ r.game.round >= 1
<1>1. /\ r.game.drawer_index \in Seats(r) /\ r.game.round \in Nat
      /\ r.players[r.game.drawer_index] = r.game.drawer
  BY DEF RoomOK, Good, DrawerSeated, Base, SeatsTyped, RoomType, GameType
<1>2. r.players[r.game.drawer_index] \in Users
  BY <1>1, SeatFacts DEF RoomOK, Good, Base
<1>3. r.state = "PLAYING"
  BY IdleRound
<1> QED BY <1>1, <1>2, <1>3 DEF HasPlayer, RoomOK

-----------------------------------------------------------------------------
(* The invariant holds at first and is kept by every step.                 *)

\* At first there is no room and every page is closed.
LEMMA ViewInitOK == ViewInit => ViewInv
<1> SUFFICES ASSUME ViewInit  PROVE ViewInv
  OBVIOUS
<1>1. /\ room = NoRoom /\ view = [u \in Users |-> Blank] /\ astray = {}
      /\ inbox = [u \in Users |-> <<>>] /\ strokes = [u \in Users |-> <<>>]
  BY DEF ViewInit, Init
<1>2. /\ NoRoom.state = "NONE" /\ NoRoom.game = NoGame /\ ~NoRoom.game.open
      /\ ~Live(NoRoom)
  BY DEF NoRoom, NoGame, Live
<1>3. RoomOK(room)
  BY <1>1, <1>2, NoRoomGood, IdleSound DEF RoomOK
<1>4. Typed
  <2>1. Blank \in ViewType
    BY EmptySeq DEF Blank, ViewType, Canvases
  <2> QED BY <1>1, <2>1, EmptySeq DEF Typed
<1>5. PagesOK
  BY <1>1, ClosedPage DEF PagesOK
<1>6. DrawingOK
  BY <1>1, <1>2 DEF DrawingOK
<1> QED BY <1>3, <1>4, <1>5, <1>6 DEF ViewInv

\* CREATE_ROOM: the first page is opening and is sent the players.
LEMMA CreateStep ==
  ASSUME ViewInv, NEW u \in Users, NEW m \in RequestedSizes, NEW n \in RequestedRounds,
         CreateAndTell(u, m, n)
  PROVE  ViewInv'
<1> DEFINE pu == PlayersUpdate(room')
<1>1. /\ room.state = "NONE" /\ m \in 2..MaxPlayersPerRoom /\ n \in 1..10
      /\ room' = RoomCreate(u, m, n)
      /\ view' = [view EXCEPT ![u] = Opening]
      /\ inbox' = Broadcast(room', view', <<pu>>)
      /\ strokes' = strokes /\ astray' \subseteq astray \cup {u}
  BY DEF CreateAndTell, Create, OpenPageOf
<1>2. /\ RoomOK(room') /\ Live(room') /\ HasPlayer(room', u)
      /\ ~room'.game.open /\ room'.game.round = 0
  BY <1>1, CreateFacts
<1>3. Typed /\ \A w \in Users : StageOK(view[w], inbox[w], strokes[w], room, w)
  BY DEF ViewInv, PagesOK, PageOK
<1>4. \A w \in Users : view[w] = Blank /\ inbox[w] = <<>> /\ strokes[w] = <<>>
  <2> SUFFICES ASSUME NEW w \in Users
               PROVE  view[w] = Blank /\ inbox[w] = <<>> /\ strokes[w] = <<>>
    OBVIOUS
  <2>1. StageOK(view[w], inbox[w], strokes[w], room, w)
    BY <1>3
  <2>2. view[w].stage = "closed"
    BY <1>1, <2>1 DEF StageOK
  <2> QED BY <2>1, <2>2, PageClosed
<1>5. pu \in Messages /\ ~IsStart(pu)
  BY <1>2, MessagesTyped, MessageKinds DEF RoomOK, Good, Base, SeatsTyped
<1>6. <<pu>> = Append(<<>>, pu) /\ <<>> \o <<pu>> = Append(<<>>, pu)
      /\ Append(<<>>, pu) \in Seq(Messages)
  BY <1>5, SentInTurn, EmptySeq, Appended
<1> HIDE DEF pu
<1>7. Opening \in ViewType /\ Opening.stage = "opening" /\ Blank.stage = "closed"
  BY <1>2, FreshPage DEF Blank
<1>8. ASSUME NEW w \in Users
      PROVE  /\ view'[w] \in ViewType /\ inbox'[w] \in Seq(Messages)
             /\ PageOK(view'[w], inbox'[w], strokes'[w], room', w)
  <2>1. CASE w = u
    <3>1. view'[w] = Opening
      BY <1>1, <1>3, <2>1 DEF Typed
    <3>2. inbox'[w] = Append(<<>>, pu) /\ strokes'[w] = <<>>
      BY <1>1, <1>2, <1>4, <1>6, <1>7, <2>1, <3>1 DEF Broadcast
    <3>3. Knows(Opening, Append(<<>>, pu), <<>>, room')
      BY <1>2, EmptySeq, FreshPage, KnowsPlayers DEF pu, SameRound
    <3>4. ~HadTurn(Opening, Append(<<>>, pu), <<>>, room'.game.round, u)
      BY <1>2, <1>5, EmptySeq, FreshPage, TurnsSent
    <3>5. PageOK(Opening, Append(<<>>, pu), <<>>, room', u)
      BY <1>2, <3>3, <3>4, OpeningPage
    <3> QED BY <1>6, <1>7, <2>1, <3>1, <3>2, <3>5
  <2>2. CASE w # u
    <3>1. view'[w] = Blank
      BY <1>1, <1>3, <1>4, <2>2 DEF Typed
    <3>2. inbox'[w] = <<>> /\ strokes'[w] = <<>>
      BY <1>1, <1>4, <1>7, <3>1 DEF Broadcast
    <3> QED BY <1>3, <1>4, <3>1, <3>2, ClosedPage DEF Typed
  <2> QED BY <2>1, <2>2
<1>9. Typed'
  <2>1. view' = [w \in Users |-> view'[w]]
    BY <1>1, <1>3 DEF Typed
  <2>2. inbox' = [w \in Users |-> inbox'[w]]
    BY <1>1 DEF Broadcast
  <2>3. astray' \subseteq {w \in Users : view'[w].stage # "closed"}
    <3>1. \A w \in Users : view[w].stage = "closed"
      BY <1>4, <1>7
    <3>2. astray' \subseteq {u} /\ view'[u] = Opening
      BY <1>1, <1>3, <3>1 DEF Typed
    <3> QED BY <1>7, <3>2
  <2> QED BY <1>1, <1>3, <1>8, <2>1, <2>2, <2>3 DEF Typed
<1>10. PagesOK'
  BY <1>8 DEF PagesOK, PageOK
<1>11. DrawingOK'
  BY <1>2 DEF DrawingOK
<1> QED BY <1>2, <1>9, <1>10, <1>11 DEF ViewInv

\* What has to be shown of a step.
LEMMA StepOK ==
  ASSUME RoomOK(room'),
         view' = [w \in Users |-> view'[w]], inbox' = [w \in Users |-> inbox'[w]],
         strokes' = [w \in Users |-> strokes'[w]],
         astray' \subseteq {w \in Users : view'[w].stage # "closed"},
         \A w \in Users :
           /\ view'[w] \in ViewType /\ inbox'[w] \in Seq(Messages)
           /\ strokes'[w] \in Seq(StrokeMessages)
           /\ w \in astray' => StageOK(view'[w], inbox'[w], strokes'[w], room', w)
           /\ w \notin astray' => PageOK(view'[w], inbox'[w], strokes'[w], room', w),
         DrawingOK'
  PROVE  ViewInv'
<1>1. Typed'
  BY DEF Typed
<1>2. PagesOK'
  BY DEF PagesOK
<1> QED BY <1>1, <1>2 DEF ViewInv

\* The invariant, as the steps use it.
LEMMA InvFacts ==
  ASSUME ViewInv
  PROVE  /\ RoomOK(room) /\ DrawingOK
         /\ view = [w \in Users |-> view[w]] /\ inbox = [w \in Users |-> inbox[w]]
         /\ strokes = [w \in Users |-> strokes[w]]
         /\ astray \subseteq {w \in Users : view[w].stage # "closed"}
         /\ \A w \in Users :
              /\ view[w] \in ViewType /\ inbox[w] \in Seq(Messages)
              /\ strokes[w] \in Seq(StrokeMessages)
              /\ StageOK(view[w], inbox[w], strokes[w], room, w)
              /\ view[w].stage # "closed" /\ Live(room) =>
                   HasPlayer(room, w) /\ PlayersTold(view[w], inbox[w], room)
              /\ view[w].stage = "closed" =>
                   view[w] = Blank /\ inbox[w] = <<>> /\ strokes[w] = <<>>
         /\ \A w \in Users \ astray :
              /\ PageOK(view[w], inbox[w], strokes[w], room, w)
              /\ view[w].stage # "closed" /\ Live(room) =>
                   Knows(view[w], inbox[w], strokes[w], room)
<1>1. RoomOK(room) /\ DrawingOK /\ Typed
  BY DEF ViewInv
<1>2. /\ view = [w \in Users |-> view[w]] /\ inbox = [w \in Users |-> inbox[w]]
      /\ strokes = [w \in Users |-> strokes[w]]
      /\ astray \subseteq {w \in Users : view[w].stage # "closed"}
  BY <1>1 DEF Typed
<1>3. ASSUME NEW w \in Users
      PROVE  /\ view[w] \in ViewType /\ inbox[w] \in Seq(Messages)
             /\ strokes[w] \in Seq(StrokeMessages)
             /\ StageOK(view[w], inbox[w], strokes[w], room, w)
             /\ view[w].stage # "closed" /\ Live(room) =>
                  HasPlayer(room, w) /\ PlayersTold(view[w], inbox[w], room)
             /\ view[w].stage = "closed" =>
                  view[w] = Blank /\ inbox[w] = <<>> /\ strokes[w] = <<>>
  <2>1. StageOK(view[w], inbox[w], strokes[w], room, w)
    BY DEF ViewInv, PagesOK, PageOK
  <2>2. /\ view[w] \in ViewType /\ inbox[w] \in Seq(Messages)
        /\ strokes[w] \in Seq(StrokeMessages)
    BY <1>1 DEF Typed
  <2>3. view[w].stage # "closed" /\ Live(room) =>
          HasPlayer(room, w) /\ PlayersTold(view[w], inbox[w], room)
    BY <2>1 DEF StageOK
  <2> QED BY <2>1, <2>2, <2>3, PageClosed
<1>4. ASSUME NEW w \in Users \ astray
      PROVE  /\ PageOK(view[w], inbox[w], strokes[w], room, w)
             /\ view[w].stage # "closed" /\ Live(room) =>
                  Knows(view[w], inbox[w], strokes[w], room)
  <2>1. PageOK(view[w], inbox[w], strokes[w], room, w)
    BY DEF ViewInv, PagesOK
  <2> QED BY <2>1, PageKnows
<1> QED BY <1>1, <1>2, <1>3, <1>4

\* A list of players or the state of the room is sent while the drawing goes on.
LEMMA DrawingQuiet ==
  ASSUME NEW v, NEW q \in Seq(Messages), NEW m \in Messages,
         m.kind = "room_players_update" \/ m.kind = "room_update",
         NEW u, NEW g, NEW h, NEW T, T \subseteq Canvases,
         h.open = g.open, h.round = g.round, h.drawer = g.drawer,
         PageDraws(v, q, u, g, T)
  PROVE  PageDraws(v, Append(q, m), u, h, T)
<1>1. ~IsStart(m) /\ m.kind # "draw_broadcast"
  BY DEF IsStart
<1>2. \A x \in T : Paint(x, m) \in T
  BY <1>1, StartTyped DEF Paint
<1> QED BY <1>1, <1>2, DrawingGoesOn

\* JOIN_ROOM: the new page knows nothing, and all are sent players and state.
LEMMA JoinStep ==
  ASSUME ViewInv, NEW u \in Users, JoinAndTell(u)
  PROVE  ViewInv'
<1> DEFINE pu == PlayersUpdate(room')
           ru == RoomUpdate(room')
<1>1. /\ Live(room) /\ ~IsFull(room) /\ ~HasPlayer(room, u)
      /\ room' = EnterRoom(room, u)
      /\ view' = [view EXCEPT ![u] = Opening]
      /\ inbox' = Broadcast(room', view', <<pu, ru>>)
      /\ strokes' = strokes
      /\ astray \subseteq astray' /\ astray' \subseteq astray \cup {u}
  BY DEF JoinAndTell, Join, OpenPageOf
<1>2. /\ RoomOK(room') /\ Live(room') /\ HasPlayer(room', u) /\ SameRound(room, room')
      /\ \A w : HasPlayer(room, w) => HasPlayer(room', w)
      /\ room'.state # "PLAYING" => room.state # "PLAYING"
      /\ Playing(room') => Playing(room)
      /\ room.game.open =>
           LET n == Len(room.players)
           IN  /\ Len(room'.players) = n + 1 /\ room'.players[n + 1] = u
               /\ room'.active[n + 1] # "active"
               /\ \A i \in 1..n : /\ room'.players[i] = room.players[i]
                                  /\ room'.active[i] = room.active[i]
  BY <1>1, InvFacts, EnterFacts DEF Playing
<1>3. view[u] = Blank /\ inbox[u] = <<>> /\ strokes[u] = <<>>
  BY <1>1, InvFacts
<1>4. /\ pu \in Messages /\ ~IsStart(pu) /\ pu.kind = "room_players_update"
      /\ ru \in Messages /\ ~IsStart(ru) /\ ru.kind = "room_update"
  BY <1>2, MessagesTyped, MessageKinds
     DEF RoomOK, Good, Base, SeatsTyped, PlayersUpdate, RoomUpdate
<1> HIDE DEF pu, ru
<1>5. \A q \in Seq(Messages) :
        /\ q \o <<pu, ru>> = Append(Append(q, pu), ru)
        /\ Append(q, pu) \in Seq(Messages)
        /\ Append(Append(q, pu), ru) \in Seq(Messages)
  BY <1>4, SentInTurn, Appended
<1>6. Opening \in ViewType /\ Opening.stage = "opening" /\ Blank.stage = "closed"
  BY <1>2, FreshPage DEF Blank
<1>7. /\ view'[u] = Opening /\ strokes'[u] = <<>>
      /\ inbox'[u] = Append(Append(<<>>, pu), ru)
  BY <1>1, <1>2, <1>3, <1>5, <1>6, InvFacts, EmptySeq DEF Broadcast
<1>8. ASSUME NEW w \in Users, w # u
      PROVE  /\ view'[w] = view[w] /\ strokes'[w] = strokes[w]
             /\ inbox'[w] = IF view[w].stage = "closed" THEN <<>>
                            ELSE Append(Append(inbox[w], pu), ru)
  <2>1. view'[w] = view[w] /\ strokes'[w] = strokes[w]
    BY <1>1, <1>8, InvFacts
  <2>2. view[w].stage # "closed" => HasPlayer(room', w)
    BY <1>1, <1>2, InvFacts
  <2> QED BY <1>1, <1>5, <2>1, <2>2, InvFacts DEF Broadcast
<1>9. PageOK(view'[u], inbox'[u], strokes'[u], room', u)
  <2>1. Knows(Opening, Append(Append(<<>>, pu), ru), <<>>, room')
    BY <1>2, EmptySeq, FreshPage, KnowsJoin DEF SameRound, pu, ru
  <2>2. ~HadTurn(Opening, Append(<<>>, pu), <<>>, room'.game.round, u)
    <3>1. ~HadTurn(Opening, <<>>, <<>>, room'.game.round, u)
      BY <1>2, FreshPage
    <3>2. <<>> \in Seq(Messages)
      BY EmptySeq
    <3> QED BY <1>4, <3>1, <3>2, TurnsSent
  <2>3. ~HadTurn(Opening, Append(Append(<<>>, pu), ru), <<>>, room'.game.round, u)
    BY <1>4, <1>5, <2>2, EmptySeq, TurnsSent
  <2> QED BY <1>2, <1>7, <2>1, <2>3, OpeningPage
<1>10. ASSUME NEW w \in Users, w # u, w \notin astray
       PROVE  PageOK(view'[w], inbox'[w], strokes'[w], room', w)
  <2>1. CASE view[w].stage = "closed"
    BY <1>8, <1>10, <2>1, InvFacts, ClosedPage
  <2>2. CASE view[w].stage # "closed"
    <3> DEFINE q == Append(Append(inbox[w], pu), ru)
    <3>1. /\ HasPlayer(room', w) /\ Knows(view[w], inbox[w], strokes[w], room)
          /\ PageOK(view[w], inbox[w], strokes[w], room, w)
          /\ inbox[w] \in Seq(Messages) /\ strokes[w] \in Seq(StrokeMessages)
      <4>1. w \in Users \ astray
        BY <1>10
      <4> QED BY <1>1, <1>2, <2>2, <4>1, InvFacts
    <3>2. Knows(view[w], q, strokes[w], room')
      BY <1>2, <3>1, KnowsJoin DEF Knows, pu, ru
    <3>3. HadTurn(view[w], q, strokes[w], room'.game.round, w)
            => HadTurn(view[w], inbox[w], strokes[w], room'.game.round, w)
      BY <1>4, <1>5, <3>1, TurnsSent
    <3> HIDE DEF q
    <3>4. room.game.open =>
            \A i \in Seats(room') :
              /\ room'.active[i] = "active" => i \in Seats(room) /\ room.active[i] = "active"
              /\ room'.players[i] = w => i \in Seats(room) /\ room.players[i] = w
      <4>1. Len(room.players) \in Nat
        BY InvFacts, SeatFacts DEF RoomOK, Good, Base
      <4> QED BY <1>2, <1>10, <4>1 DEF Seats
    <3>5. PageOK(view[w], q, strokes[w], room', w)
      BY <1>2, <2>2, <3>1, <3>2, <3>3, <3>4, PageStays
    <3> QED BY <1>8, <1>10, <2>2, <3>5 DEF q
  <2> QED BY <2>1, <2>2
<1>11. ASSUME NEW w \in Users
       PROVE  /\ view'[w] \in ViewType /\ inbox'[w] \in Seq(Messages)
              /\ strokes'[w] \in Seq(StrokeMessages)
  <2>1. view[w] \in ViewType /\ inbox[w] \in Seq(Messages) /\ strokes[w] \in Seq(StrokeMessages)
    BY InvFacts
  <2> QED BY <1>5, <1>6, <1>7, <1>8, <2>1, EmptySeq
<1>12. ASSUME NEW w \in Users, w # u, w \in astray
       PROVE  StageOK(view'[w], inbox'[w], strokes'[w], room', w)
  <2>1. /\ view[w].stage # "closed" /\ inbox[w] \in Seq(Messages)
        /\ StageOK(view[w], inbox[w], strokes[w], room, w) /\ HasPlayer(room', w)
    BY <1>1, <1>2, <1>12, InvFacts
  <2>2. room' \in RoomType /\ ~IsPlayers(ru) /\ room'.state # "NONE"
    BY <1>2, <1>4 DEF RoomOK, Good, Base, SeatsTyped, IsPlayers, Live
  <2>3. PlayersTold(view[w], Append(inbox[w], pu), room')
    BY <2>1, <2>2, SendPlayers DEF pu
  <2>4. PlayersTold(view[w], Append(Append(inbox[w], pu), ru), room')
    BY <1>4, <1>5, <2>1, <2>2, <2>3, PlayersStayTold
  <2> QED BY <1>8, <1>12, <2>1, <2>2, <2>4, PageStaysOpen
<1>13. astray' \subseteq {w \in Users : view'[w].stage # "closed"}
  <2>1. \A w \in astray : w \in Users /\ view[w].stage # "closed"
    BY InvFacts
  <2> QED BY <1>1, <1>6, <1>7, <1>8, <2>1
<1>14. \A w \in Users :
         /\ w \in astray' => StageOK(view'[w], inbox'[w], strokes'[w], room', w)
         /\ w \notin astray' => PageOK(view'[w], inbox'[w], strokes'[w], room', w)
  BY <1>1, <1>9, <1>10, <1>12 DEF PageOK
<1>15. DrawingOK'
  <2> SUFFICES ASSUME room'.game.open, view'[room'.game.drawer].stage # "closed",
                      room'.game.drawer \notin astray'
               PROVE  DrawingOK'
    BY DEF DrawingOK, Ours
  <2> DEFINE g == room.game
             h == room'.game
             d == g.drawer
             T == Target(view[d], strokes[d], g)
  <2>1. h.open = g.open /\ h.round = g.round /\ h.drawer = g.drawer /\ g.open
    BY <1>2 DEF SameRound
  <2>2. d \in Users /\ d # u
    BY <1>1, <2>1, InvFacts, DrawerHasSeat
  <2>3. view'[d] = view[d] /\ strokes'[d] = strokes[d]
    BY <1>8, <2>2
  <2>4. view[d].stage # "closed" /\ d \notin astray
    BY <1>1, <2>1, <2>3
  <2>5. /\ DrawerFresh(view[d], strokes[d], g)
        /\ \A w \in Users \ astray : PageDraws(view[w], inbox[w], w, g, T)
    BY <2>1, <2>4, InvFacts DEF DrawingOK, Ours
  <2> HIDE DEF g, h, d
  <2>6. /\ Target(view[d], strokes[d], h) = T
        /\ DrawerFresh(view[d], strokes[d], h)
    <3>1. \A v, s : /\ Target(v, s, h) = Target(v, s, g)
                    /\ DrawerFresh(v, s, h) <=> DrawerFresh(v, s, g)
      BY <2>1, SameTarget
    <3> QED BY <2>5, <3>1
  <2>7. T \subseteq Canvases
    BY DEF Target
  <2> HIDE DEF T
  <2>8. ASSUME NEW w \in Users \ astray'  PROVE PageDraws(view'[w], inbox'[w], w, h, T)
    <3>1. CASE w = u
      <4>1. PageDraws(Opening, <<>>, w, h, T)
        BY <1>2, FreshPage DEF h
      <4>2. PageDraws(Opening, Append(<<>>, pu), w, h, T)
        BY <1>4, <2>7, <4>1, EmptySeq, DrawingQuiet
      <4>3. PageDraws(Opening, Append(Append(<<>>, pu), ru), w, h, T)
        BY <1>4, <1>5, <2>7, <4>2, EmptySeq, DrawingQuiet
      <4> QED BY <1>7, <3>1, <4>3
    <3>2. CASE w # u /\ view[w].stage = "closed"
      BY <1>8, <3>2 DEF PageDraws
    <3>3. CASE w # u /\ view[w].stage # "closed"
      <4>1. inbox[w] \in Seq(Messages) /\ w \in Users \ astray
        BY <1>1, InvFacts
      <4>2. PageDraws(view[w], Append(inbox[w], pu), w, h, T)
        BY <1>4, <2>1, <2>5, <2>7, <4>1, DrawingQuiet
      <4>3. PageDraws(view[w], Append(Append(inbox[w], pu), ru), w, h, T)
        BY <1>4, <1>5, <2>7, <4>1, <4>2, DrawingQuiet
      <4> QED BY <1>8, <3>3, <4>3
    <3> QED BY <3>1, <3>2, <3>3
  <2>9. d = h.drawer
    BY <2>1 DEF d
  <2> QED BY <2>3, <2>6, <2>8, <2>9 DEF DrawingOK, h
<1>16. /\ view' = [w \in Users |-> view'[w]] /\ inbox' = [w \in Users |-> inbox'[w]]
       /\ strokes' = [w \in Users |-> strokes'[w]]
  BY <1>1, InvFacts DEF Broadcast
<1> QED BY <1>2, <1>11, <1>15, <1>16, <1>13, <1>14, StepOK

\* A page that is closed is in no round.
LEMMA BlankIsIdle ==
  ASSUME NEW r, RoomOK(r)
  PROVE  Blank.stage = "closed" /\ ~Now(Blank, r.game)
  BY DEF Blank, Now, RoomOK

\* A round begins: nothing is drawn yet, and nothing is on its way.
LEMMA DrawingBegins ==
  ASSUME RoomOK(room'), room'.game.open,
         \A w \in Users \ astray' :
           /\ view'[w].stage # "closed" =>
                \A T : <<>> \in T => PageDraws(view'[w], inbox'[w], w, room'.game, T)
           /\ view'[w].stage = "closed" => view'[w] = Blank
           /\ view'[w].stage # "closed" => ~Now(view'[w], room'.game)
           /\ w = room'.game.drawer => strokes'[w] = <<>>
  PROVE  DrawingOK'
<1> DEFINE h == room'.game
           d == h.drawer
           T == Target(view'[d], strokes'[d], h)
<1> SUFFICES ASSUME view'[d].stage # "closed", d \notin astray'
             PROVE  DrawingOK'
  BY DEF DrawingOK, Ours
<1>1. d \in Users \ astray'
  BY DrawerHasSeat
<1>2. strokes'[d] = <<>> /\ ~Now(view'[d], h)
  BY <1>1, BlankIsIdle
<1>3. T = {<<>>} /\ DrawerFresh(view'[d], strokes'[d], h)
  BY <1>2, TargetFresh DEF DrawerFresh
<1> HIDE DEF T
<1>4. \A w \in Users \ astray' : PageDraws(view'[w], inbox'[w], w, h, T)
  <2> SUFFICES ASSUME NEW w \in Users \ astray'
               PROVE  PageDraws(view'[w], inbox'[w], w, h, T)
    OBVIOUS
  <2>1. CASE view'[w].stage = "closed"
    BY <2>1 DEF PageDraws
  <2>2. CASE view'[w].stage # "closed"
    BY <1>3, <2>2
  <2> QED BY <2>1, <2>2
<1> QED BY <1>3, <1>4 DEF DrawingOK, T

\* While the players are the same, so is what a page has been told of them.
LEMMA ListStays ==
  ASSUME NEW v, NEW q, NEW r, NEW r2, SamePlayers(r, r2), PlayersTold(v, q, r)
  PROVE  PlayersTold(v, q, r2)
  BY DEF PlayersTold, SamePlayers, PlayersUpdate

\* The end of a round and what follows it say nothing of the players.
LEMMA RoundKeepsList ==
  ASSUME NEW v, NEW q \in Seq(Messages), NEW r, RoomOK(r), PlayersTold(v, q, r)
  PROVE  /\ q \o RoundMessages(r) \in Seq(Messages)
         /\ PlayersTold(v, q \o RoundMessages(r), r)
<1> DEFINE m == IF r.game.open THEN GameStart(r) ELSE GameEnd
           p == Append(q, RoundEnd)
<1>1. r \in RoomType /\ (r.game.open => r.game.round >= 1)
  BY DEF RoomOK, Good, Base, SeatsTyped
<1>2. RoundEnd \in Messages /\ m \in Messages
  BY <1>1, MessagesTyped
<1>3. ~IsPlayers(RoundEnd) /\ ~IsPlayers(m)
  BY MessageKinds
<1>4. RoundMessages(r) = <<RoundEnd, m>>
  BY DEF RoundMessages
<1> HIDE DEF m
<1>5. p \in Seq(Messages) /\ PlayersTold(v, p, r)
  BY <1>2, <1>3, Appended, PlayersStayTold
<1>6. Append(p, m) \in Seq(Messages) /\ PlayersTold(v, Append(p, m), r)
  BY <1>2, <1>3, <1>5, Appended, PlayersStayTold
<1>7. q \o <<RoundEnd, m>> = Append(p, m)
  BY <1>2, SentInTurn
<1> QED BY <1>4, <1>6, <1>7

\* START_GAME: no list of players is sent, for every seat is active already.
LEMMA StartStep ==
  ASSUME ViewInv, NEW u \in Users, StartAndTell(u)
  PROVE  ViewInv'
<1> DEFINE m == GameStart(room')
           h == room'.game
<1>1. /\ CanStart(room) /\ room' = FirstRound(RoomStartGame(room))
      /\ view' = view /\ strokes' = strokes /\ astray' = astray
      /\ inbox' = Broadcast(room', view, <<m>>)
  BY DEF StartAndTell, Start
<1>2. /\ RoomOK(room') /\ SamePlayers(room, room')
      /\ room'.state = "PLAYING" /\ h.open /\ h.round = 1
  BY <1>1, InvFacts, StartFacts
<1>3. room.state = "WAITING" /\ ~room.game.open /\ room.game.round = 0
  BY <1>1, InvFacts, IdleRound DEF CanStart
<1>4. Live(room) /\ Live(room') /\ \A w : HasPlayer(room, w) => HasPlayer(room', w)
  BY <1>2, <1>3 DEF Live, SamePlayers, HasPlayer, Seats
<1>5. m \in Messages /\ IsStart(m) /\ m.round = 1 /\ Now(m, h)
  <2>1. IsStart(m) /\ m.round = 1 /\ Now(m, h)
    BY <1>2, MessageKinds DEF Now
  <2>2. room' \in RoomType /\ room'.game.round >= 1
    BY <1>2 DEF RoomOK, Good, Base, SeatsTyped
  <2> QED BY <2>1, <2>2, MessagesTyped
<1>6. \A q \in Seq(Messages) : q \o <<m>> = Append(q, m) /\ Append(q, m) \in Seq(Messages)
  BY <1>5, SentInTurn, Appended
<1> HIDE DEF m
<1>7. ASSUME NEW w \in Users
      PROVE  inbox'[w] = IF view[w].stage = "closed" THEN inbox[w] ELSE Append(inbox[w], m)
  <2>1. view[w].stage # "closed" => HasPlayer(room', w)
    BY <1>4, InvFacts
  <2> QED BY <1>1, <1>6, <2>1, InvFacts DEF Broadcast
<1>8. ASSUME NEW w \in Users \ astray, view[w].stage # "closed"
      PROVE  /\ PageOK(view[w], Append(inbox[w], m), strokes[w], room', w)
             /\ strokes[w] = <<>> /\ ~Now(view[w], h)
             /\ \A T : <<>> \in T => PageDraws(view[w], Append(inbox[w], m), w, h, T)
  <2> DEFINE v == view[w]
             q == inbox[w]
             s == strokes[w]
  <2>1. /\ v \in ViewType /\ q \in Seq(Messages) /\ s \in Seq(StrokeMessages)
        /\ PageOK(v, q, s, room, w) /\ HasPlayer(room', w) /\ Knows(v, q, s, room)
    BY <1>4, <1>8, InvFacts
  <2> HIDE DEF v, q, s, h
  <2>2. v.round <= 0 /\ StartsPast(q, 0) /\ StrokesPast(s, 0)
    BY <1>3, <2>1 DEF Knows, RoundsPast
  <2>3. s = <<>>
    <3> SUFFICES ASSUME s # <<>>  PROVE FALSE
      OBVIOUS
    <3>1. 1 \in 1..Len(s) /\ s[1] \in StrokeMessages
      BY <2>1, TakenOff
    <3> QED BY <2>2, <3>1 DEF StrokesPast, StrokeMessages
  <2>4. PlayersTold(v, q, room')
    BY <1>2, <2>1 DEF Knows, PlayersTold, SamePlayers, PlayersUpdate
  <2>5. Knows(v, Append(q, m), s, room')
    BY <1>2, <1>3, <2>1, <2>2, <2>4, KnowsStart DEF Knows, m, h
  <2>6. /\ ~Now(v, h) /\ StrokesNow(v, s, h, w)
        /\ \A i \in 1..Len(q) : IsStart(q[i]) => ~Now(q[i], h)
    BY <1>2, <2>1, <2>2, NothingIsNow
  <2>7. ~HadTurn(v, Append(q, m), s, 1, w)
    <3>1. ~(v.drawer = w /\ v.round < 1)
      BY <2>1, <2>2, RoomAssumption DEF PageOK, StageOK, ViewType
    <3>2. Len(s) = 0
      BY <2>3
    <3>3. \A i \in 1..Len(q) : IsStart(q[i]) => ~(q[i].round < 1)
      <4>1. \A i \in 1..Len(q) : q[i] \in Messages
        BY <2>1, QueueElement
      <4> QED BY <4>1, StartTyped
    <3>4. ~HadTurn(v, q, s, 1, w)
      BY <3>1, <3>2, <3>3 DEF HadTurn
    <3>5. IsStart(m) => ~(m.round < 1)
      BY <1>5
    <3> QED BY <1>5, <2>1, <3>4, <3>5, TurnsSent
  <2>8. TurnAway(v, Append(q, m), s, room', w)
    BY <1>2, <2>7 DEF TurnAway, h
  <2>9. PageOK(v, Append(q, m), s, room', w)
    BY <1>2, <1>8, <2>1, <2>5, <2>6, <2>8, OpenPage DEF h, v
  <2>10. \A T : <<>> \in T => PageDraws(v, Append(q, m), w, h, T)
    BY <1>5, <2>1, <2>6, DrawingStarts
  <2> QED BY <2>3, <2>6, <2>9, <2>10 DEF v, q, s
<1>9. \A w \in Users \ astray : strokes[w] = <<>>
  BY <1>8, InvFacts
<1>10. ASSUME NEW w \in Users
       PROVE  /\ view'[w] \in ViewType /\ inbox'[w] \in Seq(Messages)
              /\ strokes'[w] \in Seq(StrokeMessages)
  BY <1>1, <1>6, <1>7, InvFacts
<1>11. ASSUME NEW w \in astray
       PROVE  StageOK(view'[w], inbox'[w], strokes'[w], room', w)
  <2>1. /\ w \in Users /\ view[w].stage # "closed" /\ inbox[w] \in Seq(Messages)
        /\ StageOK(view[w], inbox[w], strokes[w], room, w)
        /\ HasPlayer(room', w) /\ PlayersTold(view[w], inbox[w], room)
    BY <1>4, InvFacts
  <2>2. PlayersTold(view[w], inbox[w], room') /\ ~IsPlayers(m) /\ room'.state # "NONE"
    BY <1>2, <1>5, <2>1, ListStays DEF IsPlayers, IsStart
  <2>3. PlayersTold(view[w], Append(inbox[w], m), room')
    BY <1>5, <2>1, <2>2, PlayersStayTold
  <2> QED BY <1>1, <1>7, <2>1, <2>2, <2>3, PageStaysOpen
<1>12. ASSUME NEW w \in Users \ astray
       PROVE  PageOK(view'[w], inbox'[w], strokes'[w], room', w)
  <2>1. CASE view[w].stage = "closed"
    BY <1>1, <1>7, <2>1, InvFacts, ClosedPage
  <2>2. CASE view[w].stage # "closed"
    BY <1>1, <1>7, <1>8, <2>2
  <2> QED BY <2>1, <2>2
<1>13. DrawingOK'
  <2>1. \A w \in Users \ astray' :
          /\ view'[w].stage # "closed" =>
               \A T : <<>> \in T => PageDraws(view'[w], inbox'[w], w, room'.game, T)
          /\ view'[w].stage = "closed" => view'[w] = Blank
          /\ view'[w].stage # "closed" => ~Now(view'[w], room'.game)
          /\ w = room'.game.drawer => strokes'[w] = <<>>
    BY <1>1, <1>7, <1>8, <1>9, InvFacts
  <2> QED BY <1>2, <2>1, DrawingBegins
<1>14. /\ view' = [w \in Users |-> view'[w]] /\ inbox' = [w \in Users |-> inbox'[w]]
       /\ strokes' = [w \in Users |-> strokes'[w]]
       /\ astray' \subseteq {w \in Users : view'[w].stage # "closed"}
  BY <1>1, InvFacts DEF Broadcast
<1> QED BY <1>1, <1>2, <1>10, <1>11, <1>12, <1>13, <1>14, StepOK

\* In time, nothing is left of the turns before this one.
LEMMA TimelyTurns ==
  ASSUME ViewInv, Timely, NEW w \in Users \ astray
  PROVE  ~HadTurn(view[w], inbox[w], strokes[w], room.game.round, w)
<1> DEFINE n == room.game.round
           q == inbox[w]
           s == strokes[w]
<1>1. /\ view[w] \in ViewType /\ q \in Seq(Messages) /\ s \in Seq(StrokeMessages)
      /\ n \in Nat
  BY InvFacts DEF RoomOK, Good, Base, SeatsTyped, RoomType, GameType
<1>2. /\ view[w].drawer # NoUser => view[w].round = n
      /\ \A m \in Range(q) : m.kind = "game_start" => m.round = n
      /\ \A m \in Range(s) : m.round >= n
  BY DEF Timely
<1> HIDE DEF n, q, s
<1>3. ~(view[w].drawer = w /\ view[w].round < n)
  BY <1>1, <1>2, RoomAssumption
<1>4. ASSUME NEW i \in 1..Len(s)  PROVE ~(s[i].round < n)
  <2>1. s[i] \in Range(s) /\ s[i] \in StrokeMessages
    BY <1>1, QueueElement DEF Range
  <2> QED BY <1>1, <1>2, <2>1 DEF StrokeMessages
<1>5. ASSUME NEW i \in 1..Len(q), IsStart(q[i])  PROVE ~(q[i].round < n)
  <2>1. q[i] \in Range(q)
    BY <1>1, <1>5 DEF Range
  <2> QED BY <1>1, <1>2, <1>5, <2>1 DEF IsStart
<1>6. ~HadTurn(view[w], q, s, n, w)
  BY <1>3, <1>4, <1>5 DEF HadTurn
<1> QED BY <1>6 DEF q, s, n

\* The round ends in time, with t the room as the guesses have left it.
LEMMA RoundStep ==
  ASSUME ViewInv, Timely, room.state = "PLAYING", room.game.open,
         NEW t, RoomOK(t), SamePlayers(room, t), SameRound(room, t),
         t.state = "PLAYING", room' = NextRound(t),
         inbox' = Broadcast(room, view, RoundMessages(room')),
         view' = view, strokes' = strokes, astray' = astray
  PROVE  ViewInv'
<1> DEFINE msgs == RoundMessages(room')
<1>1. Base(t) /\ Playable(t) /\ SeatsTyped(t) /\ Live(room)
  BY DEF RoomOK, Good, Sound, Base, Live
<1>2. t.game.open /\ t.game.drawer_index \in Seats(t) /\ ActiveCount(t) >= 2
  BY <1>1 DEF RoomOK, Good, DrawerSeated, SameRound, Playable, EnoughActive
<1>3. PICK a \in ActiveSeats(t) : a # t.game.drawer_index
  BY <1>1, <1>2, TwoActive
<1>4. /\ RoomOK(room') /\ Live(room') /\ SamePlayers(t, room')
      /\ \/ room'.state = "FINISHED" /\ ~room'.game.open
         \/ TurnMoved(t, room')
  BY <1>1, <1>2, <1>3, NextFacts
<1>5. SamePlayers(room, room')
  BY <1>4 DEF SamePlayers
<1>6. \/ room'.state = "FINISHED" /\ ~room'.game.open
      \/ TurnMoved(room, room')
  BY <1>2, <1>4 DEF TurnMoved, SameRound
<1>7. \A w : HasPlayer(room, w) => HasPlayer(room', w)
  BY <1>5 DEF SamePlayers, HasPlayer, Seats
<1> HIDE DEF msgs
<1>8. ASSUME NEW w \in Users \ astray, view[w].stage # "closed"
      PROVE  /\ inbox[w] \o msgs \in Seq(Messages)
             /\ PageOK(view[w], inbox[w] \o msgs, strokes[w], room', w)
             /\ room'.game.open =>
                  /\ ~Now(view[w], room'.game)
                  /\ w = room'.game.drawer => strokes[w] = <<>>
                  /\ \A T : <<>> \in T =>
                       PageDraws(view[w], inbox[w] \o msgs, w, room'.game, T)
  <2> DEFINE v == view[w]
             q == inbox[w]
             s == strokes[w]
  <2>1. /\ v \in ViewType /\ q \in Seq(Messages) /\ s \in Seq(StrokeMessages)
        /\ PageOK(v, q, s, room, w) /\ HasPlayer(room', w) /\ Knows(v, q, s, room)
        /\ RoomOK(room)
    BY <1>1, <1>7, <1>8, InvFacts
  <2>2. ~HadTurn(v, q, s, room.game.round, w)
    BY TimelyTurns
  <2>3. v.stage # "closed"
    BY <1>8
  <2> HIDE DEF v, q, s
  <2>4. PlayersTold(v, q, room')
    BY <1>5, <2>1 DEF Knows, PlayersTold, SamePlayers, PlayersUpdate
  <2>5. room'.players = room.players
    BY <1>5 DEF SamePlayers
  <2>6. LET p == q \o RoundMessages(room')
        IN  /\ p \in Seq(Messages) /\ PageOK(v, p, s, room', w)
            /\ room'.game.open =>
                 /\ ~Now(v, room'.game)
                 /\ w = room'.game.drawer => s = <<>>
                 /\ \A T : <<>> \in T => PageDraws(v, p, w, room'.game, T)
    BY <1>4, <1>6, <2>1, <2>2, <2>3, <2>4, <2>5, PageMoves
  <2> QED BY <2>6 DEF v, q, s, msgs
<1>9. ASSUME NEW w \in Users
      PROVE  inbox'[w] = IF view[w].stage = "closed" THEN inbox[w] ELSE inbox[w] \o msgs
  <2>1. view[w].stage # "closed" => HasPlayer(room, w)
    BY <1>1, InvFacts
  <2> QED BY <2>1 DEF Broadcast, msgs
<1>10. ASSUME NEW w \in astray
       PROVE  /\ inbox[w] \o msgs \in Seq(Messages)
              /\ StageOK(view[w], inbox[w] \o msgs, strokes[w], room', w)
  <2>1. /\ w \in Users /\ view[w].stage # "closed" /\ inbox[w] \in Seq(Messages)
        /\ StageOK(view[w], inbox[w], strokes[w], room, w)
        /\ HasPlayer(room', w) /\ PlayersTold(view[w], inbox[w], room)
    BY <1>1, <1>7, InvFacts
  <2>2. PlayersTold(view[w], inbox[w], room')
    BY <1>5, <2>1, ListStays
  <2>3. /\ inbox[w] \o msgs \in Seq(Messages) /\ room'.state # "NONE"
        /\ PlayersTold(view[w], inbox[w] \o msgs, room')
    BY <1>4, <2>1, <2>2, RoundKeepsList DEF msgs, Live
  <2> QED BY <2>1, <2>3, PageStaysOpen
<1>11. ASSUME NEW w \in Users
       PROVE  /\ view'[w] \in ViewType /\ inbox'[w] \in Seq(Messages)
              /\ strokes'[w] \in Seq(StrokeMessages)
              /\ w \in astray' => StageOK(view'[w], inbox'[w], strokes'[w], room', w)
              /\ w \notin astray' => PageOK(view'[w], inbox'[w], strokes'[w], room', w)
  <2>1. CASE view[w].stage = "closed"
    <3>1. w \notin astray
      BY <2>1, InvFacts
    <3> QED BY <1>9, <2>1, <3>1, InvFacts, ClosedPage
  <2>2. CASE view[w].stage # "closed" /\ w \notin astray
    BY <1>8, <1>9, <2>2, InvFacts
  <2>3. CASE view[w].stage # "closed" /\ w \in astray
    BY <1>9, <1>10, <2>3, InvFacts
  <2> QED BY <2>1, <2>2, <2>3
<1>12. DrawingOK'
  <2> SUFFICES ASSUME room'.game.open  PROVE DrawingOK'
    BY DEF DrawingOK
  <2>1. \A w \in Users \ astray' :
          /\ view'[w].stage # "closed" =>
               \A T : <<>> \in T => PageDraws(view'[w], inbox'[w], w, room'.game, T)
          /\ view'[w].stage = "closed" => view'[w] = Blank
          /\ view'[w].stage # "closed" => ~Now(view'[w], room'.game)
          /\ w = room'.game.drawer => strokes'[w] = <<>>
    BY <1>8, <1>9, InvFacts
  <2> QED BY <1>4, <2>1, DrawingBegins
<1>13. /\ view' = [w \in Users |-> view'[w]] /\ inbox' = [w \in Users |-> inbox'[w]]
       /\ strokes' = [w \in Users |-> strokes'[w]]
       /\ astray' \subseteq {w \in Users : view'[w].stage # "closed"}
  BY InvFacts DEF Broadcast
<1> QED BY <1>4, <1>11, <1>12, <1>13, StepOK

\* The time of a round is over.
LEMMA TimeoutStep == ViewInv /\ TimeoutAndTell => ViewInv'
<1> SUFFICES ASSUME ViewInv, TimeoutAndTell  PROVE ViewInv'
  OBVIOUS
<1>1. /\ Timely /\ room.state = "PLAYING" /\ room.game.open /\ room' = NextRound(room)
      /\ inbox' = Broadcast(room, view, RoundMessages(room'))
      /\ view' = view /\ strokes' = strokes /\ astray' = astray
  BY DEF TimeoutAndTell, Timeout
<1>2. RoomOK(room) /\ SamePlayers(room, room) /\ SameRound(room, room)
  BY InvFacts DEF SamePlayers, SameRound
<1> QED BY <1>1, <1>2, RoundStep

\* The round goes on as before and only scores have changed.
LEMMA KnowsStill ==
  ASSUME NEW v, NEW q, NEW s, NEW r, NEW r2, Knows(v, q, s, r),
         SamePlayers(r, r2), SameRound(r, r2), r2.state = r.state
  PROVE  Knows(v, q, s, r2)
<1>1. PlayersTold(v, q, r2)
  BY DEF Knows, PlayersTold, SamePlayers, PlayersUpdate
<1>2. StateTold(v, q, r2) /\ RoundsPast(v, q, s, r2)
  BY DEF Knows, StateTold, RoundsPast, SameRound
<1>3. RoundsTold(v, q, r2.game)
  BY DEF Knows, RoundsTold, DrawerTold, Now, SameRound
<1> QED BY <1>1, <1>2, <1>3 DEF Knows

\* GUESS_WORD: a guess that ends no round changes nothing on the pages.
LEMMA GuessStep ==
  ASSUME ViewInv, NEW u \in Users, GuessAndTell(u)
  PROVE  ViewInv'
<1> DEFINE t == GameHandleGuess(room, u)
<1>1. /\ room.state = "PLAYING" /\ room.game.open /\ HasPlayer(room, u)
      /\ u # room.game.drawer /\ room' = ProcessGuess(room, u)
      /\ AllFound(t) => Timely
      /\ inbox' = IF AllFound(t) THEN Broadcast(room, view, RoundMessages(room')) ELSE inbox
      /\ view' = view /\ strokes' = strokes /\ astray' = astray
  BY DEF GuessAndTell, Guess
<1>2. RoomOK(t) /\ SamePlayers(room, t) /\ SameRound(room, t) /\ t.state = "PLAYING"
  BY <1>1, InvFacts, GuessFacts
<1>3. room' = IF AllFound(t) THEN NextRound(t) ELSE t
  BY <1>1 DEF ProcessGuess
<1> HIDE DEF t
<1>4. CASE AllFound(t)
  BY <1>1, <1>2, <1>3, <1>4, RoundStep
<1>5. CASE ~AllFound(t)
  <2>1. room' = t /\ inbox' = inbox
    BY <1>1, <1>3, <1>5
  <2>2. Live(room) /\ Live(t) /\ t.players = room.players /\ t.active = room.active
    BY <1>1, <1>2 DEF Live, SamePlayers
  <2>3. ASSUME NEW w \in Users \ astray
        PROVE  PageOK(view[w], inbox[w], strokes[w], t, w)
    <3>1. CASE view[w].stage = "closed"
      BY <3>1, InvFacts, ClosedPage
    <3>2. CASE view[w].stage # "closed"
      <4>1. /\ PageOK(view[w], inbox[w], strokes[w], room, w)
            /\ HasPlayer(t, w) /\ Knows(view[w], inbox[w], strokes[w], room)
        BY <2>2, <3>2, InvFacts DEF HasPlayer, Seats
      <4>2. Knows(view[w], inbox[w], strokes[w], t)
        BY <1>1, <1>2, <4>1, KnowsStill
      <4>3. \A i \in Seats(t) :
              /\ t.active[i] = "active" => i \in Seats(room) /\ room.active[i] = "active"
              /\ t.players[i] = w => i \in Seats(room) /\ room.players[i] = w
        BY <2>2 DEF Seats
      <4> QED BY <1>2, <2>2, <3>2, <4>1, <4>2, <4>3, PageStays
    <3> QED BY <3>1, <3>2
  <2>4. ASSUME NEW w \in astray
        PROVE  StageOK(view[w], inbox[w], strokes[w], t, w)
    <3>1. /\ w \in Users /\ view[w].stage # "closed" /\ HasPlayer(t, w)
          /\ StageOK(view[w], inbox[w], strokes[w], room, w)
          /\ PlayersTold(view[w], inbox[w], room) /\ t.state # "NONE"
      BY <2>2, InvFacts DEF HasPlayer, Seats, Live
    <3>2. PlayersTold(view[w], inbox[w], t)
      BY <1>2, <3>1, ListStays
    <3> QED BY <3>1, <3>2, PageStaysOpen
  <2>5. DrawingOK'
    <3> SUFFICES ASSUME view[room'.game.drawer].stage # "closed",
                        room'.game.drawer \notin astray
                 PROVE  DrawingOK'
      BY <1>1 DEF DrawingOK, Ours
    <3> DEFINE g == room.game
               h == room'.game
               d == g.drawer
               T == Target(view[d], strokes[d], g)
    <3>1. h.open = g.open /\ h.round = g.round /\ h.drawer = g.drawer /\ g.open
      BY <1>1, <1>2, <2>1 DEF SameRound
    <3>2. /\ DrawerFresh(view[d], strokes[d], g)
          /\ \A w \in Users \ astray : PageDraws(view[w], inbox[w], w, g, T)
      BY <3>1, InvFacts DEF DrawingOK, Ours
    <3> HIDE DEF g, h, d
    <3>3. \A v, s : /\ Target(v, s, h) = Target(v, s, g)
                    /\ DrawerFresh(v, s, h) <=> DrawerFresh(v, s, g)
      BY <3>1, SameTarget
    <3>4. DrawerFresh(view[d], strokes[d], h) /\ Target(view[d], strokes[d], h) = T
      BY <3>2, <3>3
    <3> HIDE DEF T
    <3>5. \A w \in Users \ astray : PageDraws(view[w], inbox[w], w, h, T)
      BY <3>1, <3>2, DrawingStays
    <3>6. d = h.drawer
      BY <3>1 DEF d
    <3> QED BY <1>1, <2>1, <3>4, <3>5, <3>6 DEF DrawingOK, h
  <2> QED BY <1>1, <1>2, <2>1, <2>3, <2>4, <2>5, InvFacts, StepOK
<1> QED BY <1>4, <1>5

\* The messages about the next round are messages.
LEMMA RoundMessagesTyped ==
  ASSUME NEW r, RoomOK(r)
  PROVE  RoundMessages(r) \in Seq(Messages)
<1>1. r \in RoomType /\ (r.game.open => r.game.round >= 1)
  BY DEF RoomOK, Good, Base, SeatsTyped
<1>2. RoundEnd \in Messages /\ (IF r.game.open THEN GameStart(r) ELSE GameEnd) \in Messages
  BY <1>1, MessagesTyped
<1> QED BY <1>2 DEF RoundMessages

\* A leave, seen by the page of somebody else.
LEMMA LeavePage ==
  ASSUME ViewInv, NEW u \in Users, Live(room), HasPlayer(room, u),
         room' = LeaveRoom(room, u),
         NEW w \in Users \ astray, w # u, view[w].stage # "closed"
  PROVE  LET t == inbox[w] \o LeaveMessages(room, u)
         IN  /\ t \in Seq(Messages) /\ PageOK(view[w], t, strokes[w], room', w)
             /\ DrawerGone(room, u, room', LeaveMessages(room, u)) /\ room'.game.open =>
                  /\ ~Now(view[w], room'.game)
                  /\ w = room'.game.drawer => strokes[w] = <<>>
                  /\ \A T : <<>> \in T => PageDraws(view[w], t, w, room'.game, T)
             /\ SeatGone(room, u, room', LeaveMessages(room, u)) =>
                  t = Append(inbox[w], PlayersUpdate(room'))
<1> DEFINE msgs == LeaveMessages(room, u)
           pu == PlayersUpdate(room')
           v == view[w]
           q == inbox[w]
           s == strokes[w]
           t == q \o msgs
<1>1. /\ RoomOK(room) /\ v \in ViewType /\ q \in Seq(Messages)
      /\ s \in Seq(StrokeMessages) /\ PageOK(v, q, s, room, w)
      /\ HasPlayer(room, w) /\ Knows(v, q, s, room)
  BY InvFacts
<1>2. v.stage # "closed"
  OBVIOUS
<1>3. /\ RoomOK(room') /\ (Live(room') => HasPlayer(room', w))
      /\ \/ RoomGone(room', msgs) \/ GameCut(room, room', msgs)
         \/ DrawerGone(room, u, room', msgs) \/ SeatGone(room, u, room', msgs)
  BY <1>1, LeaveFacts
<1>4. room' \in RoomType /\ room \in RoomType
  BY <1>1, <1>3 DEF RoomOK, Good, Base, SeatsTyped
<1>5. pu \in Messages /\ ~IsStart(pu) /\ GameEnd \in Messages
  BY <1>4, MessagesTyped, MessageKinds
<1>6. /\ q \o <<pu>> = Append(q, pu) /\ Append(q, pu) \in Seq(Messages)
      /\ q \o <<GameEnd, pu>> = Append(Append(q, GameEnd), pu)
      /\ Append(Append(q, GameEnd), pu) \in Seq(Messages)
  BY <1>1, <1>5, SentInTurn, Appended
<1> HIDE DEF v, q, s, msgs
<1>7. CASE RoomGone(room', msgs)
  <2>1. t \in Seq(Messages)
    BY <1>1, <1>7, ConcatProperties DEF RoomGone
  <2>2. ~room'.game.open /\ room'.state # "NONE" /\ ~Live(room')
    BY <1>7 DEF RoomGone, Live
  <2>3. PageOK(v, t, s, room', w)
    BY <1>1, <1>2, <2>2, PageIdle
  <2>4. ~DrawerGone(room, u, room', msgs) /\ ~SeatGone(room, u, room', msgs)
    BY <2>2 DEF DrawerGone, SeatGone
  <2> QED BY <2>1, <2>3, <2>4 DEF v, q, s, msgs
<1>8. CASE GameCut(room, room', msgs)
  <2>1. /\ ~room'.game.open /\ room'.state = "FINISHED" /\ Live(room')
        /\ t = Append(Append(q, GameEnd), pu)
    BY <1>6, <1>8 DEF GameCut
  <2>2. Knows(v, t, s, room')
    BY <1>1, <1>4, <2>1, KnowsCut
  <2>3. PageOK(v, t, s, room', w)
    BY <1>1, <1>2, <1>3, <2>1, <2>2, PageIdle
  <2>4. msgs = <<GameEnd, pu>> /\ Len(<<GameEnd, pu>>) = 2 /\ Len(<<pu>>) = 1
    BY <1>8 DEF GameCut
  <2>5. ~SeatGone(room, u, room', msgs)
    BY <2>4 DEF SeatGone
  <2> QED BY <1>6, <2>1, <2>3, <2>5 DEF v, q, s, msgs
<1>9. CASE DrawerGone(room, u, room', msgs)
  <2> DEFINE p == Append(q, pu)
  <2>1. /\ Live(room') /\ room.state = "PLAYING" /\ room.game.open
        /\ room'.players = room.players /\ ActiveSeats(room') \subseteq ActiveSeats(room)
        /\ room'.active[room.game.drawer_index] # "active"
        /\ \/ room'.state = "FINISHED" /\ ~room'.game.open
           \/ /\ TurnMoved(room, room')
              /\ \E a \in ActiveSeats(room') : a # room'.game.drawer_index
        /\ msgs = <<pu>> \o RoundMessages(room')
    BY <1>9 DEF DrawerGone
  <2>2. t = p \o RoundMessages(room')
    <3>1. <<pu>> \in Seq(Messages) /\ RoundMessages(room') \in Seq(Messages)
      BY <1>3, <1>5, RoundMessagesTyped
    <3>2. (q \o <<pu>>) \o RoundMessages(room') = q \o (<<pu>> \o RoundMessages(room'))
      BY <1>1, <3>1, ConcatAssociative
    <3> QED BY <1>6, <2>1, <3>2
  <2>3. p \in Seq(Messages) /\ PlayersTold(v, p, room')
    BY <1>1, <1>4, <1>6, SendPlayers
  <2>4. \A n : StartsPast(q, n) => StartsPast(p, n)
    <3>1. /\ Len(q) \in Nat /\ Len(p) = Len(q) + 1 /\ p[Len(q) + 1] = pu
          /\ \A i \in 1..Len(q) : p[i] = q[i]
          /\ \A i \in 1..(Len(q) + 1) : i \in 1..Len(q) \/ i = Len(q) + 1
      BY <1>1, <1>5, Appended
    <3> HIDE DEF p, pu
    <3> QED BY <1>5, <3>1 DEF StartsPast
  <2>5. \A n : HadTurn(v, p, s, n, w) => HadTurn(v, q, s, n, w)
    BY <1>1, <1>5, TurnsSent
  <2> HIDE DEF p, pu
  <2>6. /\ p \o RoundMessages(room') \in Seq(Messages)
        /\ PageOK(v, p \o RoundMessages(room'), s, room', w)
        /\ room'.game.open =>
             /\ ~Now(v, room'.game)
             /\ w = room'.game.drawer => s = <<>>
             /\ \A T : <<>> \in T =>
                  PageDraws(v, p \o RoundMessages(room'), w, room'.game, T)
    BY <1>1, <1>2, <1>3, <2>1, <2>3, <2>4, <2>5, PageMoves
  <2>7. ~SeatGone(room, u, room', msgs)
    BY <1>9 DEF SeatGone, DrawerGone
  <2> QED BY <2>2, <2>6, <2>7 DEF v, q, s, msgs
<1>10. CASE SeatGone(room, u, room', msgs)
  <2>1. /\ Live(room') /\ room'.state = room.state /\ SameRound(room, room')
        /\ room.game.open =>
             /\ room.game.drawer # u /\ room'.players = room.players
             /\ ActiveSeats(room') \subseteq ActiveSeats(room)
        /\ t = Append(q, pu)
    BY <1>6, <1>10 DEF SeatGone
  <2>2. Knows(v, t, s, room')
    BY <1>1, <1>3, <2>1, KnowsPlayers DEF Knows, Playing
  <2>3. HadTurn(v, t, s, room'.game.round, w) => HadTurn(v, q, s, room'.game.round, w)
    BY <1>1, <1>5, <2>1, TurnsSent
  <2>4. room.game.open =>
          \A i \in Seats(room') :
            /\ room'.active[i] = "active" => i \in Seats(room) /\ room.active[i] = "active"
            /\ room'.players[i] = w => i \in Seats(room) /\ room.players[i] = w
    BY <2>1 DEF ActiveSeats, Seats
  <2> HIDE DEF t, pu
  <2>5. PageOK(v, t, s, room', w)
    BY <1>1, <1>2, <1>3, <2>1, <2>2, <2>3, <2>4, PageStays
  <2>6. ~DrawerGone(room, u, room', msgs)
    BY <1>10 DEF SeatGone, DrawerGone
  <2>7. t \in Seq(Messages)
    BY <1>6, <2>1 DEF t, pu
  <2> QED BY <2>1, <2>5, <2>6, <2>7 DEF v, q, s, msgs, t, pu
<1> QED BY <1>3, <1>7, <1>8, <1>9, <1>10

\* A leave, as it is told to the page of somebody else, wherever that has a seat.
LEMMA LeaveList ==
  ASSUME ViewInv, NEW u \in Users, Live(room), HasPlayer(room, u),
         room' = LeaveRoom(room, u),
         NEW w \in Users, w # u, view[w].stage # "closed"
  PROVE  LET t == inbox[w] \o LeaveMessages(room, u)
         IN  t \in Seq(Messages) /\ StageOK(view[w], t, strokes[w], room', w)
<1> DEFINE msgs == LeaveMessages(room, u)
           pu == PlayersUpdate(room')
           v == view[w]
           q == inbox[w]
           s == strokes[w]
           t == q \o msgs
<1>1. /\ RoomOK(room) /\ q \in Seq(Messages) /\ StageOK(v, q, s, room, w)
      /\ HasPlayer(room, w) /\ v.stage # "closed"
  BY InvFacts
<1>2. /\ RoomOK(room') /\ (Live(room') => HasPlayer(room', w))
      /\ \/ RoomGone(room', msgs) \/ GameCut(room, room', msgs)
         \/ DrawerGone(room, u, room', msgs) \/ SeatGone(room, u, room', msgs)
  BY <1>1, LeaveFacts
<1>3. room' \in RoomType
  BY <1>2 DEF RoomOK, Good, Base, SeatsTyped
<1>4. pu \in Messages /\ GameEnd \in Messages
  BY <1>3, MessagesTyped
<1>5. /\ q \o <<pu>> = Append(q, pu) /\ Append(q, pu) \in Seq(Messages)
      /\ Append(q, GameEnd) \in Seq(Messages)
      /\ q \o <<GameEnd, pu>> = Append(Append(q, GameEnd), pu)
      /\ Append(Append(q, GameEnd), pu) \in Seq(Messages)
  BY <1>1, <1>4, SentInTurn, Appended
<1>6. /\ PlayersTold(v, Append(q, pu), room')
      /\ PlayersTold(v, Append(Append(q, GameEnd), pu), room')
  BY <1>1, <1>3, <1>5, SendPlayers
<1>7. (t \in Seq(Messages) /\ room'.state # "NONE"
        /\ (Live(room') => PlayersTold(v, t, room')))
      => t \in Seq(Messages) /\ StageOK(v, t, s, room', w)
  <2> HIDE DEF v, q, s, t
  <2> QED BY <1>1, <1>2, PageStaysOpen
<1> HIDE DEF v, q, s, msgs
<1>8. CASE RoomGone(room', msgs)
  <2>1. room'.state # "NONE" /\ ~Live(room') /\ msgs \in Seq(Messages)
    BY <1>8 DEF RoomGone, Live
  <2>2. t \in Seq(Messages)
    BY <1>1, <2>1, ConcatProperties
  <2> QED BY <1>7, <2>1, <2>2 DEF v, q, s, msgs
<1>9. CASE GameCut(room, room', msgs)
  <2>1. room'.state # "NONE" /\ t = Append(Append(q, GameEnd), pu)
    BY <1>5, <1>9 DEF GameCut
  <2> QED BY <1>5, <1>6, <1>7, <2>1 DEF v, q, s, msgs
<1>10. CASE DrawerGone(room, u, room', msgs)
  <2> DEFINE p == Append(q, pu)
  <2>1. Live(room') /\ msgs = <<pu>> \o RoundMessages(room')
    BY <1>10 DEF DrawerGone
  <2>2. t = p \o RoundMessages(room')
    <3>1. <<pu>> \in Seq(Messages) /\ RoundMessages(room') \in Seq(Messages)
      BY <1>2, <1>4, RoundMessagesTyped
    <3>2. (q \o <<pu>>) \o RoundMessages(room') = q \o (<<pu>> \o RoundMessages(room'))
      BY <1>1, <3>1, ConcatAssociative
    <3> QED BY <1>5, <2>1, <3>2
  <2>3. t \in Seq(Messages) /\ PlayersTold(v, t, room')
    <3>1. p \in Seq(Messages) /\ PlayersTold(v, p, room')
      BY <1>5, <1>6
    <3> HIDE DEF p, pu, t
    <3> QED BY <1>2, <2>2, <3>1, RoundKeepsList
  <2> QED BY <1>7, <2>1, <2>3 DEF v, q, s, msgs, Live
<1>11. CASE SeatGone(room, u, room', msgs)
  <2>1. room'.state # "NONE" /\ t = Append(q, pu)
    BY <1>5, <1>11 DEF SeatGone, Live
  <2> QED BY <1>5, <1>6, <1>7, <2>1 DEF v, q, s, msgs
<1> QED BY <1>2, <1>8, <1>9, <1>10, <1>11

\* LEAVE_ROOM: the page is closed; the others are told what is left.
LEMMA LeaveStep ==
  ASSUME ViewInv, NEW u \in Users, LeaveAndTell(u)
  PROVE  ViewInv'
<1> DEFINE msgs == LeaveMessages(room, u)
           pu == PlayersUpdate(room')
<1>1. /\ Live(room) /\ HasPlayer(room, u) /\ room' = LeaveRoom(room, u)
      /\ view' = [view EXCEPT ![u] = Blank]
      /\ inbox' = [Broadcast(RoomRemovePlayer(room, u), view', msgs) EXCEPT ![u] = <<>>]
      /\ strokes' = [strokes EXCEPT ![u] = <<>>] /\ astray' = astray \ {u}
  BY DEF LeaveAndTell, Leave, ClosePageOf
<1>2. /\ RoomOK(room')
      /\ \A w : w # u /\ HasPlayer(room, w) => HasPlayer(RoomRemovePlayer(room, u), w)
      /\ \/ RoomGone(room', msgs) \/ GameCut(room, room', msgs)
         \/ DrawerGone(room, u, room', msgs) \/ SeatGone(room, u, room', msgs)
  BY <1>1, InvFacts, LeaveFacts
<1> HIDE DEF msgs
<1>3. view'[u] = Blank /\ inbox'[u] = <<>> /\ strokes'[u] = <<>>
  BY <1>1, InvFacts DEF Broadcast
<1>4. ASSUME NEW w \in Users, w # u
      PROVE  /\ view'[w] = view[w] /\ strokes'[w] = strokes[w]
             /\ inbox'[w] = IF view[w].stage = "closed" THEN inbox[w]
                            ELSE inbox[w] \o msgs
  <2>1. view'[w] = view[w] /\ strokes'[w] = strokes[w]
    BY <1>1, <1>4, InvFacts
  <2>2. view[w].stage # "closed" => HasPlayer(RoomRemovePlayer(room, u), w)
    BY <1>1, <1>2, <1>4, InvFacts
  <2> QED BY <1>1, <1>4, <2>1, <2>2 DEF Broadcast
<1>5. ASSUME NEW w \in Users \ astray, w # u, view[w].stage # "closed"
      PROVE  /\ inbox[w] \o msgs \in Seq(Messages)
             /\ PageOK(view[w], inbox[w] \o msgs, strokes[w], room', w)
             /\ DrawerGone(room, u, room', msgs) /\ room'.game.open =>
                  /\ ~Now(view[w], room'.game)
                  /\ w = room'.game.drawer => strokes[w] = <<>>
                  /\ \A T : <<>> \in T =>
                       PageDraws(view[w], inbox[w] \o msgs, w, room'.game, T)
             /\ SeatGone(room, u, room', msgs) =>
                  inbox[w] \o msgs = Append(inbox[w], pu)
  BY <1>1, <1>5, LeavePage DEF msgs
<1>6. ASSUME NEW w \in Users
      PROVE  /\ view'[w] \in ViewType /\ inbox'[w] \in Seq(Messages)
             /\ strokes'[w] \in Seq(StrokeMessages)
             /\ w \in astray' => StageOK(view'[w], inbox'[w], strokes'[w], room', w)
             /\ w \notin astray' => PageOK(view'[w], inbox'[w], strokes'[w], room', w)
  <2>1. CASE w = u
    <3>1. Blank \in ViewType
      BY EmptySeq DEF Blank, ViewType, Canvases
    <3>2. w \notin astray' /\ view'[w] = Blank /\ inbox'[w] = <<>> /\ strokes'[w] = <<>>
      BY <1>1, <1>3, <2>1
    <3>3. PageOK(Blank, <<>>, <<>>, room', w)
      BY ClosedPage
    <3> QED BY <3>1, <3>2, <3>3, EmptySeq
  <2>2. CASE w # u /\ view[w].stage = "closed"
    <3>1. w \notin astray /\ w \notin astray'
      BY <1>1, <2>2, InvFacts
    <3> QED BY <1>4, <2>2, <3>1, InvFacts, ClosedPage
  <2>3. CASE w # u /\ view[w].stage # "closed" /\ w \notin astray
    <3>1. w \in Users \ astray /\ w \notin astray'
      BY <1>1, <2>3
    <3> QED BY <1>4, <1>5, <2>3, <3>1, InvFacts
  <2>4. CASE w # u /\ view[w].stage # "closed" /\ w \in astray
    <3>1. /\ inbox[w] \o msgs \in Seq(Messages)
          /\ StageOK(view[w], inbox[w] \o msgs, strokes[w], room', w)
      BY <1>1, <2>4, LeaveList DEF msgs
    <3> QED BY <1>1, <1>4, <2>4, <3>1, InvFacts
  <2> QED BY <2>1, <2>2, <2>3, <2>4
<1>7. Blank.stage = "closed"
  BY DEF Blank
<1>8. DrawingOK'
  <2> SUFFICES ASSUME room'.game.open, view'[room'.game.drawer].stage # "closed",
                      room'.game.drawer \notin astray'
               PROVE  DrawingOK'
    BY DEF DrawingOK, Ours
  <2>1. DrawerGone(room, u, room', msgs) \/ SeatGone(room, u, room', msgs)
    BY <1>2 DEF RoomGone, GameCut
  <2>2. CASE DrawerGone(room, u, room', msgs)
    <3>1. ASSUME NEW w \in Users \ astray'
          PROVE  /\ view'[w].stage # "closed" =>
                      \A T : <<>> \in T => PageDraws(view'[w], inbox'[w], w, room'.game, T)
                 /\ view'[w].stage = "closed" => view'[w] = Blank
                 /\ view'[w].stage # "closed" => ~Now(view'[w], room'.game)
                 /\ w = room'.game.drawer => strokes'[w] = <<>>
      <4>1. CASE w = u
        BY <1>3, <1>7, <4>1
      <4>2. CASE w # u /\ view[w].stage = "closed"
        BY <1>4, <4>2, InvFacts
      <4>3. CASE w # u /\ view[w].stage # "closed"
        <5>1. w \in Users \ astray
          BY <1>1, <4>3
        <5> QED BY <1>4, <1>5, <2>2, <4>3, <5>1
      <4> QED BY <4>1, <4>2, <4>3
    <3> QED BY <1>2, <3>1, DrawingBegins
  <2>3. CASE SeatGone(room, u, room', msgs)
    <3> DEFINE g == room.game
               h == room'.game
               d == g.drawer
               T == Target(view[d], strokes[d], g)
    <3>1. h.open = g.open /\ h.round = g.round /\ h.drawer = g.drawer /\ g.open /\ d # u
      BY <2>3 DEF SeatGone, SameRound
    <3>2. d \in Users
      BY <3>1, InvFacts, DrawerHasSeat
    <3>3. view'[d] = view[d] /\ strokes'[d] = strokes[d]
      BY <1>4, <3>1, <3>2
    <3>4. /\ DrawerFresh(view[d], strokes[d], g)
          /\ \A w \in Users \ astray : PageDraws(view[w], inbox[w], w, g, T)
      <4>1. view[d].stage # "closed" /\ d \notin astray
        BY <1>1, <3>1, <3>3
      <4> QED BY <3>1, <4>1, InvFacts DEF DrawingOK, Ours
    <3> HIDE DEF g, h, d
    <3>5. /\ Target(view[d], strokes[d], h) = T
          /\ DrawerFresh(view[d], strokes[d], h)
      <4>1. \A v, s : /\ Target(v, s, h) = Target(v, s, g)
                      /\ DrawerFresh(v, s, h) <=> DrawerFresh(v, s, g)
        BY <3>1, SameTarget
      <4> QED BY <3>4, <4>1
    <3>6. T \subseteq Canvases
      BY DEF Target
    <3> HIDE DEF T
    <3>7. pu \in Messages /\ pu.kind = "room_players_update"
      BY <1>2, MessagesTyped DEF RoomOK, Good, Base, SeatsTyped, PlayersUpdate
    <3> HIDE DEF pu
    <3>8. ASSUME NEW w \in Users \ astray'  PROVE PageDraws(view'[w], inbox'[w], w, h, T)
      <4>1. CASE w = u
        BY <1>3, <1>7, <4>1 DEF PageDraws
      <4>2. CASE w # u /\ view[w].stage = "closed"
        BY <1>4, <4>2 DEF PageDraws
      <4>3. CASE w # u /\ view[w].stage # "closed"
        <5>1. inbox[w] \in Seq(Messages) /\ w \in Users \ astray
          BY <1>1, <4>3, InvFacts
        <5>2. PageDraws(view[w], Append(inbox[w], pu), w, h, T)
          BY <3>1, <3>4, <3>6, <3>7, <5>1, DrawingQuiet
        <5> QED BY <1>4, <1>5, <2>3, <4>3, <5>1, <5>2
      <4> QED BY <4>1, <4>2, <4>3
    <3>9. d = h.drawer
      BY <3>1 DEF d
    <3> QED BY <3>3, <3>5, <3>8, <3>9 DEF DrawingOK, h
  <2> QED BY <2>1, <2>2, <2>3
<1>9. /\ view' = [w \in Users |-> view'[w]] /\ inbox' = [w \in Users |-> inbox'[w]]
      /\ strokes' = [w \in Users |-> strokes'[w]]
  BY <1>1, InvFacts DEF Broadcast
<1>10. astray' \subseteq {w \in Users : view'[w].stage # "closed"}
  <2>1. \A w \in astray : w \in Users /\ view[w].stage # "closed"
    BY InvFacts
  <2> QED BY <1>1, <1>4, <2>1
<1> QED BY <1>2, <1>6, <1>8, <1>9, <1>10, StepOK

\* A line on its way to a page tells it nothing of the room.
LEMMA KnowsLine ==
  ASSUME NEW v, NEW q \in Seq(Messages), NEW s, NEW r, Knows(v, q, s, r), r \in RoomType,
         NEW line \in Strokes
  PROVE  Knows(v, Append(q, DrawBroadcast(line)), s, r)
<1> DEFINE m == DrawBroadcast(line)
<1>1. m \in Messages
  BY DEF DrawBroadcast, LineMessages, Messages
<1>2. ~IsPlayers(m) /\ ~IsStart(m) /\ ~EndsRound(m) /\ ~Starts(m)
  BY DEF DrawBroadcast, IsPlayers, IsStart, EndsRound, Starts
<1> HIDE DEF m
<1>3. PlayersTold(v, Append(q, m), r)
  BY <1>1, <1>2, PlayersStayTold DEF Knows
<1>4. StateTold(v, Append(q, m), r)
  BY <1>1, <1>2, StateStaysTold DEF Knows
<1>5. RoundsTold(v, Append(q, m), r.game)
  BY <1>1, <1>2, RoundsStayTold DEF Knows
<1>6. RoundsPast(v, Append(q, m), s, r)
  <2>1. r.game.round \in Nat
    BY DEF RoomType, GameType
  <2> QED BY <1>1, <1>2, <2>1, StartsStayPast DEF Knows, RoundsPast
<1>7. Knows(v, Append(q, m), s, r)
  BY <1>3, <1>4, <1>5, <1>6 DEF Knows
<1> QED BY <1>7 DEF m

\* The page of a user of whom a stroke has been taken off the connection.
LEMMA StrokeTaken ==
  ASSUME NEW v, NEW q, NEW s \in Seq(StrokeMessages), s # <<>>, NEW r, NEW u,
         PageOK(v, q, s, r, u)
  PROVE  PageOK(v, q, Tail(s), r, u)
<1> DEFINE t == Tail(s)
<1>1. /\ Len(s) \in Nat /\ Len(s) >= 1 /\ Len(t) = Len(s) - 1
      /\ \A i \in 1..Len(t) : t[i] = s[i + 1]
  BY TakenOff
<1> HIDE DEF t
<1>2. \A i \in 1..Len(t) : i + 1 \in 1..Len(s) /\ t[i] = s[i + 1]
  BY <1>1
<1>3. v.stage # "closed" /\ StageOK(v, q, t, r, u)
  BY DEF PageOK, StageOK
<1>4. \A n : StrokesPast(s, n) => StrokesPast(t, n)
  BY <1>2 DEF StrokesPast
<1>5. Told(v, q, t, r)
  BY <1>4 DEF PageOK, Told, RoundsPast
<1>6. StrokesNow(v, t, r.game, u)
  BY <1>2 DEF PageOK, StrokesNow
<1>7. HadTurn(v, q, t, r.game.round, u) => HadTurn(v, q, s, r.game.round, u)
  BY <1>2 DEF HadTurn
<1>8. TurnAway(v, q, t, r, u)
  BY <1>7 DEF PageOK, TurnAway
<1>9. PageOK(v, q, t, r, u)
  BY <1>3, <1>5, <1>6, <1>8 DEF PageOK
<1> QED BY <1>9 DEF t

\* A stroke that is relayed belongs to the open round.
LEMMA RelayedNow ==
  ASSUME ViewInv, NEW u \in Users \ astray, strokes[u] # <<>>, room.state = "PLAYING",
         room.game.drawer = u
  PROVE  room.game.open /\ Now(Head(strokes[u]), room.game) /\ Now(view[u], room.game)
<1> DEFINE s == strokes[u]
           v == view[u]
           q == inbox[u]
           g == room.game
           m == Head(s)
<1>1. /\ RoomOK(room) /\ s \in Seq(StrokeMessages)
      /\ PageOK(v, q, s, room, u) /\ Knows(v, q, s, room)
  BY InvFacts DEF Live
<1>2. 1 \in 1..Len(s) /\ m = s[1] /\ m \in StrokeMessages
  BY <1>1, TakenOff
<1>3. m.round \in Nat /\ m.round >= 1 /\ m.round <= g.round /\ g.round \in Nat
  BY <1>1, <1>2
     DEF Knows, RoundsPast, StrokesPast, StrokeMessages, RoomOK, Good, Base, SeatsTyped,
         RoomType, GameType
<1>4. g.open
  BY <1>1, <1>3 DEF RoomOK, Sound, RoundOpen
<1>5. ~(m.round < g.round)
  <2>1. TurnAway(v, q, s, room, u) /\ Good(room)
    BY <1>1 DEF PageOK, RoomOK
  <2> QED BY <1>1, <1>2, <1>4, <2>1, FreshTurn
<1>6. Now(m, g)
  BY <1>3, <1>4, <1>5 DEF Now
<1>7. v.round = g.round
  BY <1>1, <1>2, <1>6 DEF PageOK, StrokesNow
<1> QED BY <1>4, <1>6, <1>7 DEF Now

\* A line is sent to an open page.
LEMMA LineSent ==
  ASSUME ViewInv, room.state = "PLAYING", NEW line \in Strokes,
         NEW w \in Users, view[w].stage # "closed"
  PROVE  LET q == Append(inbox[w], DrawBroadcast(line))
         IN  /\ q \in Seq(Messages)
             /\ StageOK(view[w], q, strokes[w], room, w)
             /\ w \notin astray => PageOK(view[w], q, strokes[w], room, w)
<1> DEFINE m == DrawBroadcast(line)
           q == Append(inbox[w], m)
<1>1. m \in Messages /\ ~IsStart(m) /\ ~IsPlayers(m)
  BY DEF DrawBroadcast, LineMessages, Messages, IsStart, IsPlayers
<1>2. /\ inbox[w] \in Seq(Messages) /\ Live(room) /\ HasPlayer(room, w)
      /\ PlayersTold(view[w], inbox[w], room)
      /\ StageOK(view[w], inbox[w], strokes[w], room, w)
  BY InvFacts DEF Live
<1>3. q \in Seq(Messages)
  BY <1>1, <1>2, Appended
<1>4. PlayersTold(view[w], q, room)
  <2> HIDE DEF m
  <2> QED BY <1>1, <1>2, PlayersStayTold
<1>5. StageOK(view[w], q, strokes[w], room, w)
  <2> HIDE DEF q
  <2> QED BY <1>2, <1>4, PageStaysOpen
<1>6. ASSUME w \notin astray  PROVE PageOK(view[w], q, strokes[w], room, w)
  <2>1. /\ PageOK(view[w], inbox[w], strokes[w], room, w)
        /\ Knows(view[w], inbox[w], strokes[w], room)
    <3>1. w \in Users \ astray
      BY <1>6
    <3> QED BY <1>2, <3>1, InvFacts
  <2>2. Knows(view[w], q, strokes[w], room)
    BY <1>2, <2>1, InvFacts, KnowsLine DEF RoomOK, Good, Base, SeatsTyped
  <2>3. HadTurn(view[w], q, strokes[w], room.game.round, w)
          => HadTurn(view[w], inbox[w], strokes[w], room.game.round, w)
    <3> HIDE DEF m
    <3> QED BY <1>1, <1>2, TurnsSent
  <2> HIDE DEF q
  <2>4. SameRound(room, room)
    BY DEF SameRound
  <2> QED BY <1>2, <2>1, <2>2, <2>3, <2>4, PageStays
<1> QED BY <1>3, <1>5, <1>6

\* DRAW_DATA: a stroke moves from the way up to the ways down, or is dropped.
LEMMA RelayStep ==
  ASSUME ViewInv, NEW u \in Users, Relay(u)
  PROVE  ViewInv'
<1> DEFINE s == strokes[u]
           line == Head(s).line
           m == DrawBroadcast(line)
           told == room.state = "PLAYING" /\ room.game.drawer = u /\ Valid(line)
           g == room.game
           d == g.drawer
           T == Target(view[d], strokes[d], g)
           T2 == Target(view[d], strokes'[d], g)
<1>1. /\ s # <<>> /\ strokes' = [strokes EXCEPT ![u] = Tail(s)]
      /\ inbox' = IF told THEN Broadcast(room, [view EXCEPT ![u] = Blank], <<m>>) ELSE inbox
      /\ room' = room /\ view' = view /\ astray' = astray
  BY DEF Relay
<1>2. /\ s \in Seq(StrokeMessages) /\ Head(s) \in StrokeMessages
      /\ Tail(s) \in Seq(StrokeMessages) /\ line \in Strokes
  <2>1. s \in Seq(StrokeMessages)
    BY InvFacts
  <2> HIDE DEF s
  <2>2. Head(s) \in StrokeMessages /\ Tail(s) \in Seq(StrokeMessages)
    BY <1>1, <2>1, TakenOff
  <2>3. \A x \in StrokeMessages : x.line \in Strokes
    BY DEF StrokeMessages
  <2> QED BY <2>1, <2>2, <2>3
<1>3. m \in Messages /\ m.kind = "draw_broadcast" /\ ~IsStart(m) /\ m.line = line
  BY <1>2 DEF DrawBroadcast, LineMessages, Messages, IsStart
<1>4. \A q \in Seq(Messages) : q \o <<m>> = Append(q, m) /\ Append(q, m) \in Seq(Messages)
  BY <1>3, SentInTurn, Appended
<1>5. /\ told => Live(room) /\ d = u
      /\ told /\ u \notin astray => g.open /\ Now(view[u], g)
  <2>1. told => Live(room) /\ d = u
    BY DEF Live
  <2>2. ASSUME told, u \notin astray  PROVE g.open /\ Now(view[u], g)
    <3>1. u \in Users \ astray
      BY <2>2
    <3> QED BY <1>1, <2>2, <3>1, RelayedNow
  <2> QED BY <2>1, <2>2
<1>6. Blank.stage = "closed"
  BY DEF Blank
<1>7. ASSUME NEW w \in Users
      PROVE  /\ strokes'[w] = IF w = u THEN Tail(s) ELSE strokes[w]
             /\ inbox'[w] = IF told /\ w # u /\ view[w].stage # "closed"
                            THEN Append(inbox[w], m) ELSE inbox[w]
  <2>1. told /\ view[w].stage # "closed" => HasPlayer(room, w)
    BY <1>5, InvFacts
  <2>2. [view EXCEPT ![u] = Blank][w] = IF w = u THEN Blank ELSE view[w]
    BY InvFacts
  <2>3. inbox[w] \o <<m>> = Append(inbox[w], m)
    BY <1>4, InvFacts
  <2> HIDE DEF told, m, s
  <2> QED BY <1>1, <1>6, <2>1, <2>2, <2>3, InvFacts DEF Broadcast
<1> HIDE DEF told, m
<1>8. ASSUME NEW w \in Users
      PROVE  /\ view'[w] \in ViewType /\ inbox'[w] \in Seq(Messages)
             /\ strokes'[w] \in Seq(StrokeMessages)
             /\ w \in astray' => StageOK(view'[w], inbox'[w], strokes'[w], room', w)
             /\ w \notin astray' => PageOK(view'[w], inbox'[w], strokes'[w], room', w)
  <2>1. /\ view'[w] \in ViewType /\ inbox'[w] \in Seq(Messages)
        /\ strokes'[w] \in Seq(StrokeMessages)
    <3>1. inbox[w] \in Seq(Messages) /\ strokes[w] \in Seq(StrokeMessages)
      BY InvFacts
    <3>2. inbox'[w] \in Seq(Messages)
      BY <1>4, <1>7, <3>1
    <3>3. strokes'[w] \in Seq(StrokeMessages)
      BY <1>2, <1>7, <3>1
    <3> QED BY <1>1, <3>2, <3>3, InvFacts
  <2>2. /\ StageOK(view[w], inbox[w], strokes[w], room, w)
        /\ w \notin astray => PageOK(view[w], inbox[w], strokes[w], room, w)
    <3>1. w \notin astray => w \in Users \ astray
      OBVIOUS
    <3> QED BY <3>1, InvFacts
  <2>3. /\ StageOK(view'[w], inbox'[w], strokes'[w], room', w)
        /\ w \notin astray => PageOK(view'[w], inbox'[w], strokes'[w], room', w)
    <3>1. CASE w = u
      <4>1. view'[w] = view[w] /\ inbox'[w] = inbox[w] /\ strokes'[w] = Tail(strokes[w])
        BY <1>1, <1>7, <3>1
      <4>2. strokes[w] \in Seq(StrokeMessages) /\ strokes[w] # <<>>
        BY <1>1, <1>2, <3>1
      <4>3. StageOK(view[w], inbox[w], Tail(strokes[w]), room, w)
        BY <2>2, <4>2 DEF StageOK
      <4>4. w \notin astray => PageOK(view[w], inbox[w], Tail(strokes[w]), room, w)
        BY <2>2, <4>2, StrokeTaken
      <4> QED BY <1>1, <4>1, <4>3, <4>4
    <3>2. CASE w # u /\ told /\ view[w].stage # "closed"
      <4>1. room.state = "PLAYING"
        BY <3>2 DEF told
      <4> QED BY <1>1, <1>2, <1>7, <3>2, <4>1, LineSent DEF m
    <3>3. CASE w # u /\ ~(told /\ view[w].stage # "closed")
      BY <1>1, <1>7, <2>2, <3>3
    <3> QED BY <3>1, <3>2, <3>3
  <2> QED BY <1>1, <2>1, <2>3
<1>9. DrawingOK'
  <2> SUFFICES ASSUME g.open, view[d].stage # "closed", d \notin astray
               PROVE  /\ DrawerFresh(view[d], strokes'[d], g)
                      /\ \A w \in Users \ astray : PageDraws(view[w], inbox'[w], w, g, T2)
    BY <1>1 DEF DrawingOK, Ours
  <2>1. d \in Users
    BY InvFacts, DrawerHasSeat
  <2>2. /\ DrawerFresh(view[d], strokes[d], g)
        /\ \A w \in Users \ astray : PageDraws(view[w], inbox[w], w, g, T)
    BY InvFacts DEF DrawingOK, Ours
  <2>3. d = u => Now(view[d], g)
    BY <1>1, <2>2 DEF DrawerFresh
  <2>4. DrawerFresh(view[d], strokes'[d], g)
    BY <1>7, <2>1, <2>2, <2>3 DEF DrawerFresh
  <2>5. \A x \in T : (IF d = u THEN Paint(x, Head(s)) ELSE x) \in T2
    <3>1. CASE d = u
      <4>1. strokes'[d] = Tail(s) /\ strokes[d] = s
        BY <1>7, <2>1, <3>1
      <4> HIDE DEF s, g
      <4> QED BY <1>1, <1>2, <2>3, <3>1, <4>1, TargetRelayed
    <3>2. CASE d # u
      <4>1. strokes'[d] = strokes[d]
        BY <1>7, <2>1, <3>2
      <4> QED BY <3>2, <4>1
    <3> QED BY <3>1, <3>2
  <2>6. Inked(Head(s)) <=> Valid(line)
    BY <1>2, StrokeInked
  <2>7. T \subseteq Canvases
    BY DEF Target
  <2>8. Inked(m)
    BY <1>3, StartTyped
  <2> HIDE DEF T, T2, g
  <2>9. ASSUME NEW w \in Users \ astray
        PROVE  PageDraws(view[w], inbox'[w], w, g, T2)
    <3>1. inbox[w] \in Seq(Messages) /\ PageDraws(view[w], inbox[w], w, g, T)
      BY <2>2, InvFacts
    <3>2. CASE told /\ w # u /\ view[w].stage # "closed"
      <4>1. d = u /\ Valid(line)
        BY <1>5, <3>2 DEF told
      <4>2. \A x \in T : Paint(x, m) \in T2
        BY <1>3, <2>5, <2>6, <2>8, <4>1 DEF Paint
      <4>3. PageDraws(view[w], Append(inbox[w], m), w, g, T2)
        BY <1>3, <2>7, <3>1, <3>2, <4>1, <4>2, DrawingGoesOn
      <4> QED BY <1>7, <3>2, <4>3
    <3>3. CASE view[w].stage = "closed"
      BY <3>3 DEF PageDraws
    <3>4. CASE ~(told /\ w # u) /\ view[w].stage # "closed"
      <4>1. inbox'[w] = inbox[w]
        BY <1>7, <3>4
      <4>2. w # d => T \subseteq T2
        <5> SUFFICES ASSUME w # d  PROVE T \subseteq T2
          OBVIOUS
        <5>1. CASE d # u
          BY <2>5, <5>1
        <5>2. CASE d = u
          <6>1. room.state = "PLAYING" /\ room.game.drawer = u
            BY <5>2, InvFacts, DrawerHasSeat DEF g
          <6>2. ~Valid(line)
            BY <3>4, <5>2, <6>1 DEF told
          <6> QED BY <2>5, <2>6, <5>2, <6>2 DEF Paint
        <5> QED BY <5>1, <5>2
      <4> HIDE DEF d
      <4>3. PageDraws(view[w], inbox[w], w, g, T2)
        BY <3>1, <4>2, DrawingStays DEF d
      <4> QED BY <4>1, <4>3
    <3> QED BY <3>2, <3>3, <3>4
  <2> QED BY <2>4, <2>9
<1>10. /\ view' = [w \in Users |-> view'[w]] /\ inbox' = [w \in Users |-> inbox'[w]]
       /\ strokes' = [w \in Users |-> strokes'[w]]
  BY <1>1, InvFacts DEF Broadcast
<1>11. RoomOK(room')
  BY <1>1, InvFacts
<1>12. astray' \subseteq {w \in Users : view'[w].stage # "closed"}
  BY <1>1, InvFacts
<1> QED BY <1>8, <1>9, <1>10, <1>11, <1>12, StepOK

\* The page of the user a message is delivered to, wherever it came from.
LEMMA DeliveredStage ==
  ASSUME NEW v, v \in ViewType, NEW q \in Seq(Messages), q # <<>>,
         NEW s, NEW r, NEW u \in Users, StageOK(v, q, s, r, u)
  PROVE  StageOK(Shown(v, Head(q)), Tail(q), s, r, u)
<1> DEFINE m == Head(q)
           w == Shown(v, m)
           t == Tail(q)
<1>1. v.stage # "closed"
  BY DEF StageOK
<1>2. m \in Messages
  BY TakenOff
<1>3. /\ w.stage = v.stage
      /\ v.stage = "mounted" =>
           /\ IsStart(m) => w.round = m.round /\ w.drawer = m.drawer
           /\ ~IsStart(m) => w.round = v.round
           /\ EndsRound(m) => w.drawer = NoUser
           /\ ~IsStart(m) /\ ~EndsRound(m) => w.drawer = v.drawer
      /\ v.stage # "mounted" =>
           w.round = v.round /\ w.drawer = v.drawer /\ w.canvas = v.canvas
           /\ w.state = v.state
  BY <1>2, ShownFields
<1>4. IsStart(m) => m.round >= 1
  BY <1>2, StartTyped
<1>5. PlayersTold(v, q, r) => PlayersTold(w, t, r)
  BY PlayersDelivered
<1> HIDE DEF w, m, t
<1>6. w.drawer # NoUser => w.round >= 1
  BY <1>1, <1>3, <1>4 DEF StageOK, IsStart, EndsRound
<1>7. StageOK(w, t, s, r, u)
  BY <1>1, <1>3, <1>5, <1>6 DEF StageOK
<1> QED BY <1>7 DEF w, m, t

\* The same page, when its user has a seat in this room only.
LEMMA DeliveredPage ==
  ASSUME NEW v, v \in ViewType, NEW q \in Seq(Messages), q # <<>>,
         NEW s, NEW r, RoomOK(r), NEW u \in Users, PageOK(v, q, s, r, u),
         NEW T, u = r.game.drawer /\ r.game.open => PageDraws(v, q, u, r.game, T)
  PROVE  PageOK(Shown(v, Head(q)), Tail(q), s, r, u)
<1> DEFINE m == Head(q)
           w == Shown(v, m)
           t == Tail(q)
           n == r.game.round
<1>1. v.stage # "closed" /\ StageOK(v, q, s, r, u)
  BY DEF PageOK, StageOK
<1>2. /\ Len(q) \in Nat /\ Len(q) >= 1 /\ m = q[1] /\ m \in Messages
      /\ Len(t) = Len(q) - 1 /\ \A i \in 1..Len(t) : t[i] = q[i + 1]
  BY TakenOff
<1>3. /\ w.stage = v.stage
      /\ v.stage = "mounted" =>
           /\ IsStart(m) => w.round = m.round /\ w.drawer = m.drawer
           /\ ~IsStart(m) => w.round = v.round
           /\ EndsRound(m) => w.drawer = NoUser
           /\ ~IsStart(m) /\ ~EndsRound(m) => w.drawer = v.drawer
      /\ v.stage # "mounted" =>
           w.round = v.round /\ w.drawer = v.drawer /\ w.canvas = v.canvas
           /\ w.state = v.state
  BY <1>2, ShownFields
<1>4. Live(r) => Knows(w, t, s, r)
  BY <1>1, PageKnows, KnowsDelivered
<1>5. ASSUME Now(v, r.game), u = r.game.drawer  PROVE Now(w, r.game)
  <2>1. PageDraws(v, q, u, r.game, T)
    BY <1>5 DEF Now
  <2> QED BY <1>1, <1>5, <2>1, RoundStaysSeen
<1>6. StageOK(w, t, s, r, u)
  BY <1>1, DeliveredStage
<1> HIDE DEF w, m, t
<1>7. Told(w, t, s, r)
  BY <1>4 DEF Told, Knows
<1>8. StrokesNow(w, s, r.game, u)
  <2> SUFFICES ASSUME NEW i \in 1..Len(s), Now(s[i], r.game)
               PROVE  w.round = r.game.round /\ u = r.game.drawer
    BY DEF StrokesNow
  <2>1. v.round = r.game.round /\ u = r.game.drawer /\ r.game.open
    BY DEF PageOK, StrokesNow, Now
  <2> QED BY <1>5, <2>1 DEF Now
<1>9. HadTurn(w, t, s, n, u) => HadTurn(v, q, s, n, u)
  <2>1. \A i \in 1..Len(t) : i + 1 \in 1..Len(q) /\ t[i] = q[i + 1]
    BY <1>2
  <2>2. 1 \in 1..Len(q)
    BY <1>2
  <2>3. w.drawer = u /\ w.round < n => HadTurn(v, q, s, n, u)
    BY <1>2, <1>3, <2>2, RoomAssumption DEF HadTurn
  <2> QED BY <2>1, <2>3 DEF HadTurn
<1>10. TurnAway(w, t, s, r, u)
  BY <1>9 DEF PageOK, TurnAway, n
<1>11. PageOK(w, t, s, r, u)
  BY <1>6, <1>7, <1>8, <1>10 DEF PageOK
<1> QED BY <1>11 DEF w, m, t

\* A message reaches a page.
LEMMA DeliverStep ==
  ASSUME ViewInv, NEW u \in Users, Deliver(u)
  PROVE  ViewInv'
<1> DEFINE v == view[u]
           q == inbox[u]
           s == strokes[u]
           x == Shown(v, Head(q))
           g == room.game
           d == g.drawer
           T == Target(view[d], strokes[d], g)
           T2 == Target(view'[d], strokes[d], g)
<1>1. /\ RoomOK(room) /\ v \in ViewType /\ q \in Seq(Messages) /\ q # <<>>
      /\ s \in Seq(StrokeMessages) /\ StageOK(v, q, s, room, u)
  BY InvFacts DEF Deliver
<1>2. /\ room' = room /\ strokes' = strokes /\ astray' = astray
      /\ inbox' = [inbox EXCEPT ![u] = Tail(q)]
      /\ view' = [view EXCEPT ![u] = x]
  BY InvFacts DEF Deliver, Shown, IsPlayers
<1>3. v.stage # "closed" /\ (v.stage = "opening" => v.round = 0)
  BY <1>1 DEF StageOK
<1>4. x \in ViewType /\ Tail(q) \in Seq(Messages)
  BY <1>1, TakenOff, ShownFields
<1>5. /\ view'[u] = x /\ inbox'[u] = Tail(q) /\ strokes'[u] = s
      /\ \A w \in Users : w # u => /\ view'[w] = view[w] /\ inbox'[w] = inbox[w]
                                   /\ strokes'[w] = strokes[w]
  BY <1>2, InvFacts
<1>6. g.open /\ view[d].stage # "closed" /\ d \notin astray =>
        /\ DrawerFresh(view[d], strokes[d], g)
        /\ \A w \in Users \ astray : PageDraws(view[w], inbox[w], w, g, T)
  BY InvFacts DEF DrawingOK, Ours
<1>7. g.open => g.round >= 1
  BY <1>1 DEF RoomOK
<1>8. StageOK(x, Tail(q), s, room, u) /\ (u \notin astray => PageOK(x, Tail(q), s, room, u))
  <2>1. StageOK(x, Tail(q), s, room, u)
    BY <1>1, DeliveredStage
  <2>2. ASSUME u \notin astray  PROVE PageOK(x, Tail(q), s, room, u)
    <3>1. u \in Users \ astray
      BY <2>2
    <3>2. u = g.drawer /\ g.open => PageDraws(v, q, u, g, T)
      BY <1>3, <1>6, <3>1
    <3>3. PageOK(v, q, s, room, u)
      BY <3>1, InvFacts
    <3> HIDE DEF T
    <3> QED BY <1>1, <3>2, <3>3, DeliveredPage
  <2> QED BY <2>1, <2>2
<1> HIDE DEF x
<1>9. ASSUME NEW w \in Users
      PROVE  /\ view'[w] \in ViewType /\ inbox'[w] \in Seq(Messages)
             /\ strokes'[w] \in Seq(StrokeMessages)
             /\ w \in astray' => StageOK(view'[w], inbox'[w], strokes'[w], room', w)
             /\ w \notin astray' => PageOK(view'[w], inbox'[w], strokes'[w], room', w)
  <2>1. CASE w = u
    BY <1>1, <1>2, <1>4, <1>5, <1>8, <2>1
  <2>2. CASE w # u
    <3>1. w \notin astray => w \in Users \ astray
      OBVIOUS
    <3> QED BY <1>2, <1>5, <2>2, <3>1, InvFacts
  <2> QED BY <2>1, <2>2
<1>10. DrawingOK'
  <2> SUFFICES ASSUME g.open, view'[d].stage # "closed", d \notin astray
               PROVE  /\ DrawerFresh(view'[d], strokes[d], g)
                      /\ \A w \in Users \ astray : PageDraws(view'[w], inbox'[w], w, g, T2)
    BY <1>2 DEF DrawingOK, Ours
  <2>1. d \in Users /\ view[d].stage # "closed"
    <3>1. d \in Users
      BY InvFacts, DrawerHasSeat
    <3> HIDE DEF d
    <3> QED BY <1>3, <1>5, <3>1
  <2>2. DrawerFresh(view'[d], strokes[d], g) /\ T \subseteq T2
    <3>1. CASE d = u
      <4>1. PageDraws(v, q, g.drawer, g, T) /\ DrawerFresh(v, s, g)
        BY <1>6, <2>1, <3>1
      <4>2. view'[d] = Shown(v, Head(q)) /\ view[d] = v /\ strokes[d] = s
        BY <1>5, <3>1 DEF x
      <4>3. DrawerFresh(Shown(v, Head(q)), s, g)
            /\ Target(v, s, g) \subseteq Target(Shown(v, Head(q)), s, g)
        <5> HIDE DEF g, T, v, q, s
        <5> QED BY <1>1, <1>3, <1>7, <4>1, DrawerDelivered
      <4> HIDE DEF v, q, s, g, d
      <4> QED BY <4>2, <4>3
    <3>2. CASE d # u
      BY <1>5, <1>6, <2>1, <3>2
    <3> QED BY <3>1, <3>2
  <2> HIDE DEF T, T2, d, g
  <2>3. ASSUME NEW w \in Users \ astray
        PROVE  PageDraws(view'[w], inbox'[w], w, g, T2)
    <3>1. PageDraws(view[w], inbox[w], w, g, T)
      BY <1>6, <2>1
    <3>2. CASE w = u
      <4>1. PageDraws(x, Tail(q), u, g, T2)
        <5> HIDE DEF v, q
        <5>1. PageDraws(v, q, u, g, T)
          BY <3>1, <3>2 DEF v, q
        <5> QED BY <1>1, <1>3, <1>7, <2>2, <5>1, DrawingDelivered DEF x
      <4> QED BY <1>5, <3>2, <4>1
    <3>3. CASE w # u
      <4>1. PageDraws(view[w], inbox[w], w, g, T2)
        BY <2>2, <3>1, DrawingStays
      <4> QED BY <1>5, <3>3, <4>1
    <3> QED BY <3>2, <3>3
  <2> QED BY <2>2, <2>3
<1>11. /\ view' = [w \in Users |-> view'[w]] /\ inbox' = [w \in Users |-> inbox'[w]]
       /\ strokes' = [w \in Users |-> strokes'[w]]
  BY <1>2, InvFacts
<1>12. RoomOK(room')
  BY <1>1, <1>2
<1>13. astray' \subseteq {w \in Users : view'[w].stage # "closed"}
  <2>1. x.stage = v.stage
    <3>1. Head(q) \in Messages
      BY <1>1, TakenOff
    <3> QED BY <1>1, <3>1, ShownFields DEF x
  <2> QED BY <1>2, <1>3, <1>5, <2>1, InvFacts
<1> QED BY <1>9, <1>10, <1>11, <1>12, <1>13, StepOK

\* A page knows its room by what it shows of it, mounted or not.
LEMMA SamePage ==
  ASSUME NEW v, NEW w, NEW q, NEW r,
         w.players = v.players, w.active = v.active, w.owner = v.owner,
         w.state = v.state, w.round = v.round, w.drawer = v.drawer
  PROVE  /\ PlayersTold(v, q, r) => PlayersTold(w, q, r)
         /\ StateTold(v, q, r) => StateTold(w, q, r)
         /\ RoundsTold(v, q, r.game) => RoundsTold(w, q, r.game)
<1>1. PlayersTold(v, q, r) => PlayersTold(w, q, r)
  BY DEF PlayersTold
<1>2. StateTold(v, q, r) => StateTold(w, q, r)
  BY DEF StateTold
<1>3. DrawerTold(v, q, 0, r.game) => DrawerTold(w, q, 0, r.game)
  BY DEF DrawerTold, Now
<1>4. RoundsTold(v, q, r.game) => RoundsTold(w, q, r.game)
  BY <1>3 DEF RoundsTold
<1> QED BY <1>1, <1>2, <1>4

\* A page that was opening subscribes to all messages.
LEMMA MountStep ==
  ASSUME ViewInv, NEW u \in Users, Mount(u)
  PROVE  ViewInv'
<1> DEFINE v == view[u]
           q == inbox[u]
           s == strokes[u]
           x == [v EXCEPT !.stage = "mounted"]
           g == room.game
           d == g.drawer
           T == Target(view[d], strokes[d], g)
<1>1. /\ room' = room /\ strokes' = strokes /\ inbox' = inbox /\ astray' = astray
      /\ view' = [view EXCEPT ![u] = x] /\ v.stage = "opening"
  BY DEF Mount
<1>2. /\ RoomOK(room) /\ v \in ViewType /\ StageOK(v, q, s, room, u)
  BY InvFacts
<1>3. /\ x \in ViewType /\ x.stage = "mounted"
      /\ x.players = v.players /\ x.active = v.active /\ x.owner = v.owner
      /\ x.state = v.state /\ x.round = v.round /\ x.drawer = v.drawer
      /\ x.canvas = v.canvas
  BY <1>2 DEF ViewType
<1>4. view'[u] = x /\ \A w \in Users : w # u => view'[w] = view[w]
  BY <1>1, InvFacts
<1> HIDE DEF x
<1>5. /\ StageOK(x, q, s, room, u)
      /\ u \notin astray => PageOK(x, q, s, room, u)
  <2> HIDE DEF v, q, s
  <2>1. StageOK(x, q, s, room, u)
    <3>1. PlayersTold(v, q, room) => PlayersTold(x, q, room)
      BY <1>3, SamePage
    <3> QED BY <1>1, <1>2, <1>3, <3>1 DEF StageOK
  <2> SUFFICES ASSUME u \notin astray  PROVE PageOK(x, q, s, room, u)
    BY <2>1
  <2>2. PageOK(v, q, s, room, u)
    <3>1. u \in Users \ astray
      OBVIOUS
    <3> QED BY <3>1, InvFacts DEF v, q, s
  <2>3. Told(x, q, s, room)
    <3>1. Live(room) => Knows(v, q, s, room)
      BY <1>1, <2>2, PageKnows
    <3>2. RoundsPast(v, q, s, room) => RoundsPast(x, q, s, room)
      BY <1>3 DEF RoundsPast
    <3> QED BY <1>3, <3>1, <3>2, SamePage DEF Told, Knows
  <2>4. StrokesNow(x, s, room.game, u)
    BY <1>3, <2>2 DEF PageOK, StrokesNow
  <2>5. HadTurn(x, q, s, room.game.round, u) => HadTurn(v, q, s, room.game.round, u)
    BY <1>3 DEF HadTurn
  <2>6. TurnAway(x, q, s, room, u)
    BY <2>2, <2>5 DEF PageOK, TurnAway
  <2> QED BY <2>1, <2>3, <2>4, <2>6 DEF PageOK
<1>6. ASSUME NEW w \in Users
      PROVE  /\ view'[w] \in ViewType /\ inbox'[w] \in Seq(Messages)
             /\ strokes'[w] \in Seq(StrokeMessages)
             /\ w \in astray' => StageOK(view'[w], inbox'[w], strokes'[w], room', w)
             /\ w \notin astray' => PageOK(view'[w], inbox'[w], strokes'[w], room', w)
  <2>1. CASE w = u
    BY <1>1, <1>3, <1>4, <1>5, <2>1, InvFacts
  <2>2. CASE w # u
    <3>1. w \notin astray => w \in Users \ astray
      OBVIOUS
    <3> QED BY <1>1, <1>4, <2>2, <3>1, InvFacts
  <2> QED BY <2>1, <2>2
<1>7. DrawingOK'
  <2> SUFFICES ASSUME g.open, view'[d].stage # "closed", d \notin astray
               PROVE  /\ DrawerFresh(view'[d], strokes[d], g)
                      /\ \A w \in Users \ astray :
                           PageDraws(view'[w], inbox[w], w, g, Target(view'[d], strokes[d], g))
    BY <1>1 DEF DrawingOK, Ours
  <2>1. d \in Users
    BY InvFacts, DrawerHasSeat
  <2>2. \A w \in Users : /\ view'[w].round = view[w].round
                         /\ view'[w].canvas = view[w].canvas
                         /\ view'[w].stage # "closed" => view[w].stage # "closed"
    BY <1>1, <1>3, <1>4
  <2>3. /\ DrawerFresh(view[d], strokes[d], g)
        /\ \A w \in Users \ astray : PageDraws(view[w], inbox[w], w, g, T)
    BY <2>1, <2>2, InvFacts DEF DrawingOK, Ours
  <2>4. Now(view'[d], g) <=> Now(view[d], g)
    BY <2>1, <2>2 DEF Now
  <2>5. Target(view'[d], strokes[d], g) = T
    BY <2>1, <2>2, <2>4 DEF Target
  <2>6. DrawerFresh(view'[d], strokes[d], g)
    BY <2>3, <2>4 DEF DrawerFresh
  <2> HIDE DEF T, d, g
  <2>7. \A w \in Users \ astray : PageDraws(view'[w], inbox[w], w, g, T)
    BY <2>2, <2>3, DrawingStays
  <2> QED BY <2>5, <2>6, <2>7
<1>8. /\ view' = [w \in Users |-> view'[w]] /\ inbox' = [w \in Users |-> inbox'[w]]
      /\ strokes' = [w \in Users |-> strokes'[w]]
  BY <1>1, InvFacts
<1>9. RoomOK(room')
  BY <1>1, <1>2
<1>10. astray' \subseteq {w \in Users : view'[w].stage # "closed"}
  <2>1. \A w \in astray : w \in Users /\ view[w].stage # "closed"
    BY InvFacts
  <2> QED BY <1>1, <1>3, <1>4, <2>1
<1> QED BY <1>6, <1>7, <1>8, <1>9, <1>10, StepOK

\* The drawn line is on the canvas, or the canvas has been wiped.
LEMMA DrawnTyped ==
  ASSUME NEW c \in Canvases, NEW line \in Strokes
  PROVE  Drawn(c, line) \in Canvases
<1>1. line # Clear => Append(c, line) \in Canvases
  BY AppendProperties DEF Canvases, Strokes
<1> QED BY <1>1, EmptySeq DEF Drawn, Canvases

\* The page of the user who has drawn a stroke in the round it shows.
LEMMA DrawnPage ==
  ASSUME NEW r, RoomOK(r), NEW u \in Users, NEW v, v \in ViewType, NEW q,
         NEW s \in Seq(StrokeMessages), PageOK(v, q, s, r, u),
         v.stage = "mounted", v.drawer = u,
         NEW w, w \in ViewType, w.stage = v.stage, w.players = v.players,
         w.active = v.active, w.owner = v.owner, w.state = v.state,
         w.round = v.round, w.drawer = v.drawer,
         NEW m \in StrokeMessages, m.round = v.round
  PROVE  /\ PageOK(w, q, Append(s, m), r, u)
         /\ r.game.open => (Now(v, r.game) <=> u = r.game.drawer)
<1> DEFINE t == Append(s, m)
           g == r.game
<1>1. /\ Len(s) \in Nat /\ Len(t) = Len(s) + 1 /\ t[Len(t)] = m
      /\ \A i \in 1..Len(s) : t[i] = s[i]
  BY AppendProperties, LenProperties
<1>2. \A i \in 1..Len(t) : t[i] = m \/ (i \in 1..Len(s) /\ t[i] = s[i])
  BY <1>1
<1> HIDE DEF t
<1>3. u # NoUser /\ v.round \in Nat /\ g.round \in Nat
  BY RoomAssumption DEF ViewType, RoomOK, Good, Base, SeatsTyped, RoomType, GameType
<1>4. Live(r) => Knows(v, q, s, r)
  BY PageKnows
<1>5. g.open => Live(r) /\ r.state = "PLAYING"
  BY IdleRound DEF RoomOK, Live
<1>6. ASSUME g.open, Now(v, g)  PROVE u = g.drawer
  BY <1>4, <1>5, <1>6 DEF Knows, RoundsTold, DrawerTold
<1>7. ASSUME g.open, ~Now(v, g)  PROVE HadTurn(v, q, s, g.round, u) /\ u # g.drawer
  <2>1. v.round < g.round
    BY <1>3, <1>4, <1>5, <1>7 DEF Knows, RoundsPast, Now
  <2>2. HadTurn(v, q, s, g.round, u)
    BY <2>1 DEF HadTurn
  <2>3. g.drawer_index \in Seats(r) /\ r.players[g.drawer_index] = g.drawer
    BY <1>7 DEF RoomOK, Good, DrawerSeated
  <2>4. TurnAway(v, q, s, r, u)
    BY DEF PageOK
  <2>5. u # g.drawer
    BY <1>7, <2>2, <2>3, <2>4 DEF TurnAway, PassedOver
  <2> QED BY <2>2, <2>5
<1>8. StageOK(w, q, t, r, u)
  <2>1. PlayersTold(v, q, r) => PlayersTold(w, q, r)
    BY SamePage
  <2> QED BY <2>1 DEF PageOK, StageOK
<1>9. Told(w, q, t, r)
  <2> SUFFICES ASSUME Live(r)
               PROVE  Knows(w, q, t, r)
    BY DEF Told, Knows
  <2>1. Knows(v, q, s, r)
    BY <1>4
  <2>2. PlayersTold(w, q, r) /\ StateTold(w, q, r) /\ RoundsTold(w, q, g)
    BY <2>1, SamePage DEF Knows
  <2>3. RoundsPast(w, q, t, r)
    BY <1>2, <2>1 DEF Knows, RoundsPast, StrokesPast
  <2> QED BY <2>2, <2>3 DEF Knows
<1>10. StrokesNow(w, t, g, u)
  <2> SUFFICES ASSUME NEW i \in 1..Len(t), Now(t[i], g)
               PROVE  w.round = g.round /\ u = g.drawer
    BY DEF StrokesNow
  <2>1. CASE t[i] = m
    BY <1>6, <2>1 DEF Now
  <2>2. CASE i \in 1..Len(s) /\ t[i] = s[i]
    BY <2>2 DEF PageOK, StrokesNow
  <2> QED BY <1>2, <2>1, <2>2
<1>11. TurnAway(w, q, t, r, u)
  <2> SUFFICES ASSUME g.open, HadTurn(w, q, t, g.round, u)
               PROVE  HadTurn(v, q, s, g.round, u)
    BY DEF PageOK, TurnAway
  <2>1. CASE Now(v, g)
    <3>1. ~(m.round < g.round)
      BY <1>3, <2>1 DEF Now
    <3> QED BY <1>2, <3>1 DEF HadTurn
  <2>2. CASE ~Now(v, g)
    BY <1>7, <2>2
  <2> QED BY <2>1, <2>2
<1>12. PageOK(w, q, t, r, u)
  BY <1>8, <1>9, <1>10, <1>11 DEF PageOK
<1> QED BY <1>6, <1>7, <1>12 DEF t

\* Whoever takes himself for the drawer draws a stroke.
LEMMA DrawStep ==
  ASSUME ViewInv, NEW u \in Users, NEW line \in Strokes, Draw(u, line)
  PROVE  ViewInv'
<1> DEFINE v == view[u]
           q == inbox[u]
           s == strokes[u]
           m == [line |-> line, round |-> v.round]
           x == [v EXCEPT !.canvas = Drawn(@, line)]
           t == Append(s, m)
           g == room.game
           d == g.drawer
           T == Target(view[d], strokes[d], g)
           T2 == Target(view'[d], strokes'[d], g)
<1>1. /\ room' = room /\ inbox' = inbox /\ astray' = astray
      /\ view' = [view EXCEPT ![u] = x] /\ strokes' = [strokes EXCEPT ![u] = t]
      /\ v.state = "playing" /\ v.drawer = u
  BY DEF Draw, CanDraw
<1>2. /\ RoomOK(room) /\ v \in ViewType /\ s \in Seq(StrokeMessages)
      /\ StageOK(v, q, s, room, u)
  BY InvFacts
<1>3. v.stage = "mounted" /\ v.round >= 1 /\ v.round \in Nat /\ v.canvas \in Canvases
  <2>1. Blank.state # "playing"
    BY DEF Blank
  <2> QED BY <1>1, <1>2, <2>1, RoomAssumption DEF StageOK, ViewType
<1>4. m \in StrokeMessages /\ m.line = line /\ m.round = v.round
  BY <1>3 DEF StrokeMessages
<1>5. Drawn(v.canvas, line) \in Canvases
  BY <1>3, DrawnTyped
<1>6. /\ x \in ViewType /\ x.stage = v.stage
      /\ x.players = v.players /\ x.active = v.active /\ x.owner = v.owner
      /\ x.state = v.state /\ x.round = v.round /\ x.drawer = v.drawer
      /\ x.canvas = Drawn(v.canvas, m.line)
  BY <1>2, <1>5 DEF ViewType
<1> HIDE DEF x, m
<1>7. t \in Seq(StrokeMessages)
  BY <1>2, <1>4, AppendProperties
<1>8. /\ StageOK(x, q, t, room, u)
      /\ u \notin astray => PageOK(x, q, t, room, u) /\ (g.open => (Now(v, g) <=> u = d))
  <2>1. StageOK(x, q, t, room, u)
    <3> HIDE DEF v, q, s, t
    <3>1. PlayersTold(v, q, room) => PlayersTold(x, q, room)
      BY <1>6, SamePage
    <3> QED BY <1>2, <1>3, <1>6, <3>1 DEF StageOK
  <2>2. u \notin astray => PageOK(v, q, s, room, u)
    <3>1. u \notin astray => u \in Users \ astray
      OBVIOUS
    <3> QED BY <3>1, InvFacts
  <2> HIDE DEF v, q, s
  <2> QED BY <1>1, <1>2, <1>3, <1>4, <1>6, <2>1, <2>2, DrawnPage
<1>9. /\ view'[u] = x /\ strokes'[u] = t
      /\ \A w \in Users : w # u => view'[w] = view[w] /\ strokes'[w] = strokes[w]
  BY <1>1, InvFacts
<1>10. ASSUME NEW w \in Users
       PROVE  /\ view'[w] \in ViewType /\ inbox'[w] \in Seq(Messages)
              /\ strokes'[w] \in Seq(StrokeMessages)
              /\ w \in astray' => StageOK(view'[w], inbox'[w], strokes'[w], room', w)
              /\ w \notin astray' => PageOK(view'[w], inbox'[w], strokes'[w], room', w)
  <2>1. CASE w = u
    BY <1>1, <1>6, <1>7, <1>8, <1>9, <2>1, InvFacts
  <2>2. CASE w # u
    <3>1. w \notin astray => w \in Users \ astray
      OBVIOUS
    <3> QED BY <1>1, <1>9, <2>2, <3>1, InvFacts
  <2> QED BY <2>1, <2>2
<1>11. DrawingOK'
  <2> SUFFICES ASSUME g.open, view'[d].stage # "closed", d \notin astray
               PROVE  /\ DrawerFresh(view'[d], strokes'[d], g)
                      /\ \A w \in Users \ astray : PageDraws(view'[w], inbox[w], w, g, T2)
    BY <1>1 DEF DrawingOK, Ours
  <2>1. d \in Users /\ view[d].stage # "closed"
    <3>1. d \in Users
      BY InvFacts, DrawerHasSeat
    <3> HIDE DEF d
    <3> QED BY <1>6, <1>9, <3>1
  <2>2. /\ DrawerFresh(view[d], strokes[d], g)
        /\ \A w \in Users \ astray : PageDraws(view[w], inbox[w], w, g, T)
    BY <2>1, InvFacts DEF DrawingOK, Ours
  <2>3. DrawerFresh(view'[d], strokes'[d], g) /\ T \subseteq T2
    <3>1. CASE d = u
      <4>1. view'[d] = x /\ strokes'[d] = t /\ view[d] = v /\ strokes[d] = s
        BY <1>9, <3>1
      <4>2. Now(v, g) /\ Now(x, g)
        <5>1. u \notin astray
          BY <3>1
        <5>2. Now(v, g)
          BY <1>8, <3>1, <5>1
        <5> QED BY <1>6, <5>2 DEF Now
      <4>3. Target(v, s, g) \subseteq Target(x, t, g)
        <5> HIDE DEF v, s, g
        <5> QED BY <1>2, <1>3, <1>4, <1>6, <4>2, TargetDrawn
      <4> HIDE DEF v, s, g, d, t
      <4> QED BY <4>1, <4>2, <4>3 DEF DrawerFresh
    <3>2. CASE d # u
      BY <1>9, <2>1, <2>2, <3>2
    <3> QED BY <3>1, <3>2
  <2>4. \A w \in Users \ astray :
                         /\ view'[w].round = view[w].round
                         /\ ~Now(view[w], g) \/ w = d \/ view'[w].canvas = view[w].canvas
                         /\ view'[w].stage # "closed" => view[w].stage # "closed"
    <3> SUFFICES ASSUME NEW w \in Users \ astray
                 PROVE  /\ view'[w].round = view[w].round
                        /\ ~Now(view[w], g) \/ w = d \/ view'[w].canvas = view[w].canvas
                        /\ view'[w].stage # "closed" => view[w].stage # "closed"
      OBVIOUS
    <3>1. CASE w = u
      BY <1>6, <1>8, <1>9, <3>1
    <3>2. CASE w # u
      BY <1>9, <3>2
    <3> QED BY <3>1, <3>2
  <2>5. \A w \in Users \ astray : PageDraws(view'[w], inbox[w], w, g, T2)
    <3> SUFFICES ASSUME NEW w \in Users \ astray
                 PROVE  PageDraws(view'[w], inbox[w], w, g, T2)
      OBVIOUS
    <3>1. ~Now(view[w], g) \/ w = g.drawer \/ view'[w].canvas = view[w].canvas
      BY <2>4
    <3> HIDE DEF T, T2, d, g
    <3> QED BY <2>2, <2>3, <2>4, <3>1, DrawingStays
  <2> QED BY <2>3, <2>5
<1>12. /\ view' = [w \in Users |-> view'[w]] /\ inbox' = [w \in Users |-> inbox'[w]]
       /\ strokes' = [w \in Users |-> strokes'[w]]
  BY <1>1, InvFacts
<1>13. RoomOK(room')
  BY <1>1, <1>2
<1>14. astray' \subseteq {w \in Users : view'[w].stage # "closed"}
  <2>1. \A w \in astray : w \in Users /\ view[w].stage # "closed"
    BY InvFacts
  <2> QED BY <1>1, <1>6, <1>9, <2>1
<1> QED BY <1>10, <1>11, <1>12, <1>13, <1>14, StepOK

-----------------------------------------------------------------------------
(* The steps of other rooms: they touch only pages of users who are astray *)
(* or, when the drawer of this room is elsewhere, no drawing that counts.  *)

\* A message of another room, which is no list of players.
LEMMA ElsewhereTold ==
  ASSUME ViewInv, NEW u \in astray, NEW m \in Messages, ~IsPlayers(m),
         inbox' = [inbox EXCEPT ![u] = Append(@, m)],
         room' = room, view' = view, strokes' = strokes, astray' = astray
  PROVE  ViewInv'
<1>1. u \in Users /\ view[u].stage # "closed"
  BY InvFacts
<1>2. /\ inbox'[u] = Append(inbox[u], m)
      /\ \A w \in Users : w # u => inbox'[w] = inbox[w]
  BY <1>1, InvFacts
<1>3. /\ Append(inbox[u], m) \in Seq(Messages)
      /\ StageOK(view[u], Append(inbox[u], m), strokes[u], room, u)
  <2>1. /\ inbox[u] \in Seq(Messages) /\ StageOK(view[u], inbox[u], strokes[u], room, u)
    BY <1>1, InvFacts
  <2>2. Live(room) => PlayersTold(view[u], Append(inbox[u], m), room)
    BY <1>1, <2>1, InvFacts, PlayersStayTold
  <2>3. Append(inbox[u], m) \in Seq(Messages)
    BY <2>1, Appended
  <2> QED BY <1>1, <2>1, <2>2, <2>3 DEF StageOK
<1>4. ASSUME NEW w \in Users
      PROVE  /\ view'[w] \in ViewType /\ inbox'[w] \in Seq(Messages)
             /\ strokes'[w] \in Seq(StrokeMessages)
             /\ w \in astray' => StageOK(view'[w], inbox'[w], strokes'[w], room', w)
             /\ w \notin astray' => PageOK(view'[w], inbox'[w], strokes'[w], room', w)
  <2>1. CASE w = u
    BY <1>1, <1>2, <1>3, <2>1, InvFacts
  <2>2. CASE w # u
    <3>1. w \notin astray => w \in Users \ astray
      OBVIOUS
    <3> QED BY <1>2, <2>2, <3>1, InvFacts
  <2> QED BY <2>1, <2>2
<1>5. DrawingOK'
  <2> SUFFICES ASSUME room.game.open, Ours(room.game.drawer)
               PROVE  LET g == room.game
                          d == g.drawer
                      IN  /\ DrawerFresh(view[d], strokes[d], g)
                          /\ \A w \in Users \ astray :
                               PageDraws(view[w], inbox'[w], w, g, Target(view[d], strokes[d], g))
    BY DEF DrawingOK, Ours
  <2>1. \A w \in Users \ astray : inbox'[w] = inbox[w]
    BY <1>2
  <2> QED BY <2>1, InvFacts DEF DrawingOK
<1>6. /\ view' = [w \in Users |-> view'[w]] /\ inbox' = [w \in Users |-> inbox'[w]]
      /\ strokes' = [w \in Users |-> strokes'[w]]
      /\ astray' \subseteq {w \in Users : view'[w].stage # "closed"} /\ RoomOK(room')
  BY InvFacts
<1> QED BY <1>4, <1>5, <1>6, StepOK

\* The game of another room goes on.
LEMMA NewsStep ==
  ASSUME ViewInv, NEW u \in Users, NewsFromElsewhere(u)
  PROVE  ViewInv'
<1>1. /\ u \in astray /\ room' = room /\ view' = view /\ strokes' = strokes
      /\ astray' = astray
  BY DEF NewsFromElsewhere
<1>2. PICK m \in {RoundEnd, GameEnd} \cup
                  [kind : {"game_start"}, round : OtherRounds, drawer : Users] :
        inbox' = [inbox EXCEPT ![u] = Append(@, m)]
  BY DEF NewsFromElsewhere
<1>3. m \in Messages /\ ~IsPlayers(m)
  <2>1. CASE m \in {RoundEnd, GameEnd}
    BY <2>1 DEF RoundEnd, GameEnd, EndMessages, Messages, IsPlayers
  <2>2. CASE m \in [kind : {"game_start"}, round : OtherRounds, drawer : Users]
    BY <2>2, RoomViewAssumption DEF StartMessages, Messages, IsPlayers
  <2> QED BY <2>1, <2>2
<1> QED BY <1>1, <1>2, <1>3, ElsewhereTold

\* Somebody draws in another room.
LEMMA StrokeStep ==
  ASSUME ViewInv, NEW u \in Users, NEW line \in Strokes, StrokeFromElsewhere(u, line)
  PROVE  ViewInv'
<1>1. /\ u \in astray /\ room' = room /\ view' = view /\ strokes' = strokes
      /\ astray' = astray /\ inbox' = [inbox EXCEPT ![u] = Append(@, DrawBroadcast(line))]
  BY DEF StrokeFromElsewhere
<1>2. DrawBroadcast(line) \in Messages /\ ~IsPlayers(DrawBroadcast(line))
  BY DEF DrawBroadcast, LineMessages, Messages, IsPlayers
<1> QED BY <1>1, <1>2, ElsewhereTold

\* A stroke of a user who is astray goes to the other room.
LEMMA RelayElsewhereStep ==
  ASSUME ViewInv, NEW u \in Users, RelayElsewhere(u)
  PROVE  ViewInv'
<1>1. /\ u \in astray /\ strokes[u] # <<>> /\ room' = room /\ view' = view
      /\ inbox' = inbox /\ astray' = astray
      /\ strokes' = [strokes EXCEPT ![u] = Tail(@)]
  BY DEF RelayElsewhere
<1>2. /\ strokes'[u] = Tail(strokes[u])
      /\ \A w \in Users : w # u => strokes'[w] = strokes[w]
  BY <1>1, InvFacts
<1>3. /\ Tail(strokes[u]) \in Seq(StrokeMessages)
      /\ StageOK(view[u], inbox[u], Tail(strokes[u]), room, u)
  <2>1. /\ strokes[u] \in Seq(StrokeMessages) /\ view[u].stage # "closed"
        /\ StageOK(view[u], inbox[u], strokes[u], room, u)
    BY <1>1, InvFacts
  <2>2. Tail(strokes[u]) \in Seq(StrokeMessages)
    BY <1>1, <2>1, TakenOff
  <2> QED BY <2>1, <2>2 DEF StageOK
<1>4. ASSUME NEW w \in Users
      PROVE  /\ view'[w] \in ViewType /\ inbox'[w] \in Seq(Messages)
             /\ strokes'[w] \in Seq(StrokeMessages)
             /\ w \in astray' => StageOK(view'[w], inbox'[w], strokes'[w], room', w)
             /\ w \notin astray' => PageOK(view'[w], inbox'[w], strokes'[w], room', w)
  <2>1. CASE w = u
    BY <1>1, <1>2, <1>3, <2>1, InvFacts
  <2>2. CASE w # u
    <3>1. w \notin astray => w \in Users \ astray
      OBVIOUS
    <3> QED BY <1>1, <1>2, <2>2, <3>1, InvFacts
  <2> QED BY <2>1, <2>2
<1>5. DrawingOK'
  <2> DEFINE d == room.game.drawer
  <2> SUFFICES ASSUME room.game.open, view[d].stage # "closed", d \notin astray
               PROVE  DrawingOK'
    BY <1>1 DEF DrawingOK, Ours
  <2>1. d \in Users /\ d # u
    BY <1>1, InvFacts, DrawerHasSeat
  <2>2. strokes'[d] = strokes[d]
    BY <1>2, <2>1
  <2> QED BY <1>1, <2>2, InvFacts DEF DrawingOK, Ours
<1>6. /\ view' = [w \in Users |-> view'[w]] /\ inbox' = [w \in Users |-> inbox'[w]]
      /\ strokes' = [w \in Users |-> strokes'[w]]
      /\ astray' \subseteq {w \in Users : view'[w].stage # "closed"} /\ RoomOK(room')
  BY <1>1, InvFacts
<1> QED BY <1>4, <1>5, <1>6, StepOK

\* The drawer of this room draws on the page of another one.
LEMMA DrawElsewhereStep ==
  ASSUME ViewInv, NEW u \in Users, NEW line \in Strokes, DrawFromElsewhere(u, line)
  PROVE  ViewInv'
<1> DEFINE m == DrawBroadcast(line)
<1>1. /\ view[u].stage = "closed" /\ room.state = "PLAYING" /\ room.game.drawer = u
      /\ inbox' = Broadcast(room, view, <<m>>)
      /\ room' = room /\ view' = view /\ strokes' = strokes /\ astray' = astray
  BY DEF DrawFromElsewhere
<1>2. ASSUME NEW w \in Users
      PROVE  inbox'[w] = IF view[w].stage = "closed" THEN inbox[w] ELSE Append(inbox[w], m)
  <2>1. view[w].stage # "closed" => HasPlayer(room, w)
    BY <1>1, InvFacts DEF Live
  <2>2. m \in Messages /\ inbox[w] \in Seq(Messages)
    BY InvFacts DEF DrawBroadcast, LineMessages, Messages
  <2> HIDE DEF m
  <2>3. inbox[w] \o <<m>> = Append(inbox[w], m)
    BY <2>2, SentInTurn
  <2> QED BY <1>1, <2>1, <2>3 DEF Broadcast
<1>3. ASSUME NEW w \in Users
      PROVE  /\ view'[w] \in ViewType /\ inbox'[w] \in Seq(Messages)
             /\ strokes'[w] \in Seq(StrokeMessages)
             /\ w \in astray' => StageOK(view'[w], inbox'[w], strokes'[w], room', w)
             /\ w \notin astray' => PageOK(view'[w], inbox'[w], strokes'[w], room', w)
  <2>1. CASE view[w].stage = "closed"
    <3>1. w \in Users \ astray
      BY <2>1, InvFacts
    <3> QED BY <1>1, <1>2, <2>1, <3>1, InvFacts
  <2>2. CASE view[w].stage # "closed"
    BY <1>1, <1>2, <2>2, LineSent, InvFacts
  <2> QED BY <2>1, <2>2
<1>4. DrawingOK'
  BY <1>1 DEF DrawingOK, Ours
<1>5. /\ view' = [w \in Users |-> view'[w]] /\ inbox' = [w \in Users |-> inbox'[w]]
      /\ strokes' = [w \in Users |-> strokes'[w]]
      /\ astray' \subseteq {w \in Users : view'[w].stage # "closed"} /\ RoomOK(room')
  BY <1>1, InvFacts DEF Broadcast
<1> QED BY <1>3, <1>4, <1>5, StepOK

\* A user who is astray vacates the other room and closes the page.
LEMMA GoneStep ==
  ASSUME ViewInv, NEW u \in Users, GoneElsewhere(u)
  PROVE  ViewInv'
<1>1. /\ room' = room /\ view' = [view EXCEPT ![u] = Blank]
      /\ inbox' = [inbox EXCEPT ![u] = <<>>] /\ strokes' = [strokes EXCEPT ![u] = <<>>]
      /\ astray' = astray \ {u}
  BY DEF GoneElsewhere, ClosePageOf
<1>2. /\ view'[u] = Blank /\ inbox'[u] = <<>> /\ strokes'[u] = <<>> /\ u \notin astray'
      /\ \A w \in Users : w # u =>
           /\ view'[w] = view[w] /\ inbox'[w] = inbox[w] /\ strokes'[w] = strokes[w]
           /\ w \in astray' <=> w \in astray
  BY <1>1, InvFacts
<1>3. Blank \in ViewType /\ Blank.stage = "closed"
  BY EmptySeq DEF Blank, ViewType, Canvases
<1>4. ASSUME NEW w \in Users
      PROVE  /\ view'[w] \in ViewType /\ inbox'[w] \in Seq(Messages)
             /\ strokes'[w] \in Seq(StrokeMessages)
             /\ w \in astray' => StageOK(view'[w], inbox'[w], strokes'[w], room', w)
             /\ w \notin astray' => PageOK(view'[w], inbox'[w], strokes'[w], room', w)
  <2>1. CASE w = u
    <3>1. PageOK(Blank, <<>>, <<>>, room', w)
      BY ClosedPage
    <3> QED BY <1>2, <1>3, <2>1, <3>1, EmptySeq
  <2>2. CASE w # u
    <3>1. w \notin astray => w \in Users \ astray
      OBVIOUS
    <3> QED BY <1>1, <1>2, <2>2, <3>1, InvFacts
  <2> QED BY <2>1, <2>2
<1>5. DrawingOK'
  <2> DEFINE g == room.game
             d == g.drawer
             T == Target(view[d], strokes[d], g)
  <2> SUFFICES ASSUME g.open, view'[d].stage # "closed", d \notin astray'
               PROVE  DrawingOK'
    BY <1>1 DEF DrawingOK, Ours
  <2>1. d \in Users /\ d # u
    BY <1>2, <1>3, InvFacts, DrawerHasSeat
  <2>2. view'[d] = view[d] /\ strokes'[d] = strokes[d] /\ d \notin astray
    BY <1>2, <2>1
  <2>3. /\ DrawerFresh(view[d], strokes[d], g)
        /\ \A w \in Users \ astray : PageDraws(view[w], inbox[w], w, g, T)
    BY <2>2, InvFacts DEF DrawingOK, Ours
  <2> HIDE DEF T
  <2>4. ASSUME NEW w \in Users \ astray'
        PROVE  PageDraws(view'[w], inbox'[w], w, g, T)
    <3>1. CASE w = u
      BY <1>2, <1>3, <3>1 DEF PageDraws
    <3>2. CASE w # u
      <4>1. w \in Users \ astray
        BY <1>2, <3>2
      <4> QED BY <1>2, <2>3, <3>2, <4>1
    <3> QED BY <3>1, <3>2
  <2> QED BY <1>1, <2>2, <2>3, <2>4 DEF DrawingOK, T
<1>6. /\ view' = [w \in Users |-> view'[w]] /\ inbox' = [w \in Users |-> inbox'[w]]
      /\ strokes' = [w \in Users |-> strokes'[w]] /\ RoomOK(room')
      /\ astray' \subseteq {w \in Users : view'[w].stage # "closed"}
  <2>1. \A w \in astray : w \in Users /\ view[w].stage # "closed"
    BY InvFacts
  <2> QED BY <1>1, <1>2, <2>1, InvFacts
<1> QED BY <1>4, <1>5, <1>6, StepOK

-----------------------------------------------------------------------------
\* The whole of it: every step of the room and of its pages.
LEMMA ViewNextOK == ViewInv /\ [ViewNext]_viewVars => ViewInv'
<1> SUFFICES ASSUME ViewInv, [ViewNext]_viewVars  PROVE ViewInv'
  OBVIOUS
<1>1. CASE \E u \in Users, m \in RequestedSizes, n \in RequestedRounds :
             CreateAndTell(u, m, n)
  BY <1>1, CreateStep
<1>2. CASE \E u \in Users : JoinAndTell(u)
  BY <1>2, JoinStep
<1>3. CASE \E u \in Users : StartAndTell(u)
  BY <1>3, StartStep
<1>4. CASE \E u \in Users : GuessAndTell(u)
  BY <1>4, GuessStep
<1>5. CASE \E u \in Users : LeaveAndTell(u)
  BY <1>5, LeaveStep
<1>6. CASE TimeoutAndTell
  BY <1>6, TimeoutStep
<1>7. CASE \E u \in Users : Relay(u)
  BY <1>7, RelayStep
<1>8. CASE \E u \in Users : Deliver(u)
  BY <1>8, DeliverStep
<1>9. CASE \E u \in Users : Mount(u)
  BY <1>9, MountStep
<1>10. CASE \E u \in Users, line \in Lines \cup {Clear} : Draw(u, line)
  BY <1>10, DrawStep DEF Strokes
<1>11. CASE \E u \in Users : NewsFromElsewhere(u)
  BY <1>11, NewsStep
<1>12. CASE \E u \in Users, line \in Lines \cup {Clear} : StrokeFromElsewhere(u, line)
  BY <1>12, StrokeStep DEF Strokes
<1>13. CASE \E u \in Users : RelayElsewhere(u)
  BY <1>13, RelayElsewhereStep
<1>14. CASE \E u \in Users, line \in Lines \cup {Clear} : DrawFromElsewhere(u, line)
  BY <1>14, DrawElsewhereStep DEF Strokes
<1>15. CASE \E u \in Users : GoneElsewhere(u)
  BY <1>15, GoneStep
<1>16. CASE UNCHANGED viewVars
  <2>1. /\ room' = room /\ view' = view /\ inbox' = inbox /\ strokes' = strokes
        /\ astray' = astray
    BY <1>16 DEF viewVars
  <2> QED BY <2>1 DEF ViewInv, Typed, PagesOK, DrawingOK, Ours
<1> QED BY <1>1, <1>2, <1>3, <1>4, <1>5, <1>6, <1>7, <1>8, <1>9, <1>10, <1>11, <1>12,
           <1>13, <1>14, <1>15, <1>16 DEF ViewNext

(***************************************************************************)
(* The inductive invariant: whatever any page shows of the players is true *)
(* of its room, or a message on its way will put it right.  So is all that *)
(* is shown by the page of a user who has a seat in this room only; if he  *)
(* may still send strokes of an earlier round, he is not the next to draw; *)
(* and if the drawer is such a user too, his page and its queue are on the *)
(* way to what the strokes under way make of the drawing.                  *)
(***************************************************************************)
THEOREM ViewInvariance == ViewSpec => []ViewInv
<1> QED BY ViewInitOK, ViewNextOK, PTL DEF ViewSpec

(***************************************************************************)
(* The room whose pages are told of every change is the room of GameRoom:  *)
(* every theorem about that module holds here too.                         *)
(***************************************************************************)
THEOREM ViewedRoomIsGameRoom == ViewSpec => SafeSpec
<1>1. ViewInit => Init
  BY DEF ViewInit
<1>2. [ViewNext]_viewVars => [Next]_room
  <2> SUFFICES ASSUME [ViewNext]_viewVars  PROVE [Next]_room
    OBVIOUS
  <2>1. CASE \E u \in Users, m \in RequestedSizes, n \in RequestedRounds :
               CreateAndTell(u, m, n)
    BY <2>1 DEF CreateAndTell, Next
  <2>2. CASE \E u \in Users : JoinAndTell(u)
    BY <2>2 DEF JoinAndTell, Next
  <2>3. CASE \E u \in Users : StartAndTell(u)
    BY <2>3 DEF StartAndTell, Next
  <2>4. CASE \E u \in Users : GuessAndTell(u)
    BY <2>4 DEF GuessAndTell, Next
  <2>5. CASE \E u \in Users : LeaveAndTell(u)
    BY <2>5 DEF LeaveAndTell, Next
  <2>6. CASE TimeoutAndTell
    BY <2>6 DEF TimeoutAndTell, Next
  <2>7. CASE UNCHANGED room
    BY <2>7
  <2>8. CASE \E u \in Users : Relay(u) \/ Deliver(u) \/ Mount(u)
    BY <2>8 DEF Relay, Deliver, Mount
  <2>9. CASE \E u \in Users, line \in Lines \cup {Clear} : Draw(u, line)
    BY <2>9 DEF Draw
  <2>10. CASE \E u \in Users : NewsFromElsewhere(u) \/ RelayElsewhere(u) \/ GoneElsewhere(u)
    BY <2>10 DEF NewsFromElsewhere, RelayElsewhere, GoneElsewhere
  <2>11. CASE \E u \in Users, line \in Lines \cup {Clear} :
                StrokeFromElsewhere(u, line) \/ DrawFromElsewhere(u, line)
    BY <2>11 DEF StrokeFromElsewhere, DrawFromElsewhere
  <2> QED BY <2>1, <2>2, <2>3, <2>4, <2>5, <2>6, <2>7, <2>8, <2>9, <2>10, <2>11
          DEF ViewNext, viewVars
<1> QED BY <1>1, <1>2, PTL DEF ViewSpec, SafeSpec

\* Strokes from round 1 on are strokes of some round.
LEMMA StrokesTyped ==
  ASSUME NEW s \in Seq(StrokeMessages)
  PROVE  s \in Seq([line : Lines \cup {Clear}, round : Nat])
<1>1. StrokeMessages \subseteq [line : Lines \cup {Clear}, round : Nat]
  BY DEF StrokeMessages, Strokes
<1> QED BY <1>1, SeqMonotonic

(***************************************************************************)
(* Pages, queues and strokes keep their types; a page that is closed shows *)
(* and is sent nothing, and one that is opening shows only the players.    *)
(***************************************************************************)
THEOREM ViewTypes == ViewSpec => []ViewTypeOK
<1>1. ViewInv => ViewTypeOK
  <2> SUFFICES ASSUME ViewInv  PROVE ViewTypeOK
    OBVIOUS
  <2>1. TypeOK
    BY InvFacts DEF RoomOK, Good, Base, SeatsTyped, TypeOK
  <2>2. view \in [Users -> ViewType]
    BY DEF ViewInv, Typed
  <2>3. ASSUME NEW u \in Users
        PROVE  /\ \A m \in Range(inbox[u]) : m.kind \in Kinds
               /\ strokes[u] \in Seq([line : Lines \cup {Clear}, round : Nat])
               /\ view[u].stage = "closed" => view[u] = Blank /\ inbox[u] = <<>>
               /\ view[u].stage = "opening" =>
                    [view[u] EXCEPT !.players = <<>>, !.active = <<>>, !.owner = NoUser]
                      = Opening
    <3>1. /\ view[u] \in ViewType /\ inbox[u] \in Seq(Messages)
          /\ strokes[u] \in Seq(StrokeMessages)
          /\ StageOK(view[u], inbox[u], strokes[u], room, u)
          /\ view[u].stage = "closed" => view[u] = Blank /\ inbox[u] = <<>>
      BY InvFacts
    <3>2. \A m \in Messages : m.kind \in Kinds
      BY DEF Messages, PlayersMessages, StateMessages, StartMessages, LineMessages,
             EndMessages, Kinds
    <3>3. Range(inbox[u]) \subseteq Messages
      BY <3>1, ElementOfSeq, LenProperties DEF Range
    <3>4. strokes[u] \in Seq([line : Lines \cup {Clear}, round : Nat])
      BY <3>1, StrokesTyped
    <3>5. view[u].stage = "opening" =>
            [view[u] EXCEPT !.players = <<>>, !.active = <<>>, !.owner = NoUser] = Opening
      <4> DEFINE x == [view[u] EXCEPT !.players = <<>>, !.active = <<>>, !.owner = NoUser]
      <4> SUFFICES ASSUME view[u].stage = "opening"  PROVE x = Opening
        OBVIOUS
      <4>1. /\ x.stage = "opening" /\ x.state = "waiting" /\ x.players = <<>>
            /\ x.active = <<>> /\ x.owner = NoUser /\ x.round = 0
            /\ x.drawer = NoUser /\ x.canvas = <<>>
        BY <3>1 DEF StageOK, ViewType
      <4>2. x \in ViewType
        BY <3>1, EmptySeq DEF ViewType
      <4>3. /\ Opening.stage = "opening" /\ Opening.state = "waiting"
            /\ Opening.players = <<>> /\ Opening.active = <<>>
            /\ Opening.owner = NoUser /\ Opening.round = 0
            /\ Opening.drawer = NoUser /\ Opening.canvas = <<>>
            /\ Opening \in ViewType
        BY EmptySeq DEF Opening, Blank, ViewType, Canvases
      <4> HIDE DEF x
      <4> QED BY <4>1, <4>2, <4>3 DEF ViewType
    <3> QED BY <3>1, <3>2, <3>3, <3>4, <3>5
  <2>4. astray \subseteq {u \in Users : view[u].stage # "closed"}
    BY InvFacts
  <2> QED BY <2>1, <2>2, <2>3, <2>4 DEF ViewTypeOK
<1> QED BY <1>1, ViewInvariance, PTL

(***************************************************************************)
(* A page that has been told everything shows the players and the owner of *)
(* its room; and, unless its user has a seat in another room too, a game   *)
(* only while one is played, and the drawer of the round that is open: no  *)
(* order of joins, leaves, rounds and mounting loses the broadcast that    *)
(* would have said so.                                                     *)
(***************************************************************************)
THEOREM ScreensStayTrue == ViewSpec => []ScreensAgree
<1>1. ViewInv => ScreensAgree
  <2> SUFFICES ASSUME ViewInv, NEW u \in Users, Live(room), UpToDate(u)
               PROVE  LET v == view[u]
                      IN  /\ v.players = room.players /\ v.active = room.active
                          /\ v.owner = room.owner
                          /\ u \notin astray =>
                               /\ v.state = "playing" => room.state = "PLAYING"
                               /\ v.drawer # NoUser =>
                                    room.game.open /\ v.round = room.game.round
                               /\ room.game.open /\ v.round = room.game.round =>
                                    v.drawer = room.game.drawer
    BY DEF ScreensAgree
  <2>1. view[u].stage # "closed" /\ inbox[u] = <<>> /\ Len(<<>>) = 0
    BY DEF UpToDate
  <2>2. PlayersTold(view[u], <<>>, room)
    BY <2>1, InvFacts
  <2>3. /\ view[u].players = room.players /\ view[u].active = room.active
        /\ view[u].owner = room.owner
    BY <2>1, <2>2 DEF PlayersTold
  <2>4. ASSUME u \notin astray
        PROVE  /\ view[u].state = "playing" => room.state = "PLAYING"
               /\ view[u].drawer # NoUser =>
                    room.game.open /\ view[u].round = room.game.round
               /\ room.game.open /\ view[u].round = room.game.round =>
                    view[u].drawer = room.game.drawer
    <3>1. Knows(view[u], <<>>, strokes[u], room)
      <4>1. u \in Users \ astray
        BY <2>4
      <4> QED BY <2>1, <4>1, InvFacts
    <3>2. view[u].state = "playing" => room.state = "PLAYING"
      BY <2>1, <3>1 DEF Knows, StateTold, StopFollows
    <3>3. DrawerTold(view[u], <<>>, 0, room.game) /\ ~EndFollows(<<>>, 0)
      BY <2>1, <3>1 DEF Knows, RoundsTold, EndFollows
    <3> QED BY <3>2, <3>3 DEF DrawerTold, Now
  <2> QED BY <2>3, <2>4
<1> QED BY <1>1, ViewInvariance, PTL

(***************************************************************************)
(* When nothing is on its way, every page that shows the drawer has the    *)
(* drawing of the drawer's own canvas, line by line and in its order,      *)
(* without the lines the server rejects, whatever users with a seat in two *)
(* rooms do, as long as neither of the two pages is one of theirs.         *)
(***************************************************************************)
THEOREM DrawingIsSeen == ViewSpec => []EveryoneSeesTheDrawing
<1>1. ViewInv => EveryoneSeesTheDrawing
  <2> DEFINE g == room.game
             d == g.drawer
             T == Target(view[d], strokes[d], g)
  <2> SUFFICES ASSUME ViewInv, g.open, NEW u \in Users \ astray, d \notin astray,
                      UpToDate(u), UpToDate(d),
                      strokes[d] = <<>>, view[u].drawer = d, view[d].drawer = d, u # d
               PROVE  view[u].canvas = Accepted(view[d].canvas)
    BY DEF EveryoneSeesTheDrawing
  <2>1. d \in Users /\ d # NoUser /\ Live(room)
    BY InvFacts, DrawerHasSeat, RoomAssumption DEF Live
  <2>2. Len(<<>>) = 0
    OBVIOUS
  <2>3. ASSUME NEW w \in Users \ astray, UpToDate(w), view[w].drawer = d
        PROVE  Now(view[w], g)
    <3>1. Knows(view[w], <<>>, strokes[w], room)
      BY <2>1, <2>3, InvFacts DEF UpToDate
    <3>2. DrawerTold(view[w], <<>>, 0, g) /\ ~EndFollows(<<>>, 0)
      BY <2>2, <3>1 DEF Knows, RoundsTold, EndFollows
    <3> QED BY <2>1, <2>3, <3>2 DEF DrawerTold
  <2>4. Now(view[u], g) /\ Now(view[d], g)
    BY <2>1, <2>3
  <2>5. view[u].stage = "mounted" /\ inbox[u] = <<>> /\ PageDraws(view[u], <<>>, u, g, T)
    BY InvFacts DEF DrawingOK, Ours, UpToDate
  <2>6. view[d].canvas \in Canvases
    BY <2>1, InvFacts DEF ViewType
  <2> HIDE DEF d, g
  <2>7. PICK x \in T : Run(view[u].canvas, <<>>, 0, x)
    <3>1. Follows(view[u], <<>>, 0, u, g, T)
      BY <2>2, <2>4, <2>5 DEF PageDraws, Sees
    <3> QED BY <3>1 DEF Follows, CanvasAt, d
  <2>8. x = view[u].canvas
    BY <2>7, RunOfNothing
  <2> QED BY <2>4, <2>6, <2>7, <2>8, TargetReached
<1> QED BY <1>1, ViewInvariance, PTL

(***************************************************************************)
(* A stroke that the server passes on was drawn in the round that is open  *)
(* now, on the page of its drawer, which still is in that round, unless    *)
(* its user has a seat in another room, whose game may have shown the page *)
(* another round: DRAW_DATA names neither room nor round, so this rests on *)
(* when strokes, turns and leaves meet.                                    *)
(***************************************************************************)
RelayedInItsRound ==
  [][\A u \in Users \ astray : Relay(u) /\ inbox' # inbox =>
       /\ room.game.open /\ Head(strokes[u]).round = room.game.round
       /\ view[u].round = room.game.round /\ view[u].drawer = u]_viewVars

\* No stroke of an earlier round is ever relayed, whatever happens meanwhile
\* in this room or in others, as long as its user has a seat in this one only.
THEOREM StrokesKeepTheirRound == ViewSpec => RelayedInItsRound
<1> DEFINE Kept(u) ==
      Relay(u) /\ inbox' # inbox =>
        /\ room.game.open /\ Head(strokes[u]).round = room.game.round
        /\ view[u].round = room.game.round /\ view[u].drawer = u
<1>1. ASSUME ViewInv, NEW u \in Users \ astray, Relay(u), inbox' # inbox
      PROVE  /\ room.game.open /\ Head(strokes[u]).round = room.game.round
             /\ view[u].round = room.game.round /\ view[u].drawer = u
  <2>1. strokes[u] # <<>> /\ room.state = "PLAYING" /\ room.game.drawer = u
    BY <1>1 DEF Relay
  <2>2. room.game.open /\ Now(Head(strokes[u]), room.game) /\ Now(view[u], room.game)
    BY <1>1, <2>1, RelayedNow
  <2>3. DrawerTold(view[u], inbox[u], 0, room.game)
    <3>1. view[u].stage # "closed"
      BY <1>1, <2>1, InvFacts
    <3>2. Knows(view[u], inbox[u], strokes[u], room)
      BY <1>1, <2>1, <3>1, InvFacts DEF Live
    <3> QED BY <3>2 DEF Knows, RoundsTold
  <2> QED BY <2>1, <2>2, <2>3 DEF DrawerTold, Now
<1>2. ViewInv /\ [ViewNext]_viewVars => [\A u \in Users \ astray : Kept(u)]_viewVars
  BY <1>1
<1> QED BY <1>2, ViewInvariance, PTL DEF ViewSpec, RelayedInItsRound
=============================================================================
