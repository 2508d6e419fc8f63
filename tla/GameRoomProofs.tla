--------------------------- MODULE GameRoomProofs ---------------------------
(***************************************************************************)
(* What holds of GameRoom for every set of users and all bounds.  The      *)
(* lemmas of RoomLemmas say what each operator does to a good room, and    *)
(* the step of each action cites them.                                     *)
(***************************************************************************)
EXTENDS GameRoom, RoomLemmas

\* The inductive invariant: the seats are in order, and so is the game.
IInv == Good(room) /\ Sound(room)

-----------------------------------------------------------------------------
\* The inductive invariant holds of the room that does not exist yet.
LEMMA InitGood == Init => IInv
<1>1. Sound(NoRoom)
  BY IdleSound DEF NoRoom, Live
<1> QED BY <1>1, NoRoomGood DEF Init, IInv

\* A room that is created is to play at least one round.
LEMMA CreateSound ==
  ASSUME NEW u, NEW m, NEW n \in 1..10
  PROVE  Sound(RoomCreate(u, m, n))
  BY IdleSound DEF RoomCreate

\* Every action, and a step that changes nothing, keeps the inductive invariant.
LEMMA NextGood == IInv /\ [Next]_room => IInv'
<1> SUFFICES ASSUME Good(room), Sound(room), [Next]_room
             PROVE  Good(room') /\ Sound(room')
  BY DEF IInv
<1>1. ASSUME NEW u \in Users, NEW m \in RequestedSizes, NEW n \in RequestedRounds,
             Create(u, m, n)
      PROVE  Good(room') /\ Sound(room')
  BY <1>1, RoomCreateGood, CreateSound DEF Create
<1>2. ASSUME NEW u \in Users, Join(u)  PROVE Good(room') /\ Sound(room')
  BY <1>2, EnterRoomGood, EnterRoomSound DEF Join
<1>3. ASSUME NEW u \in Users, Start(u)  PROVE Good(room') /\ Sound(room')
  BY <1>3, FirstRoundGood DEF Start
<1>4. ASSUME NEW u \in Users, Guess(u)  PROVE Good(room') /\ Sound(room')
  BY <1>4, ProcessGuessGood, ProcessGuessSound DEF Guess
<1>5. ASSUME NEW u \in Users, Leave(u)  PROVE Good(room') /\ Sound(room')
  BY <1>5, LeaveRoomGood, LeaveRoomSound DEF Leave
<1>6. CASE Timeout
  BY <1>6, NextRoundGood, NextRoundSound DEF Timeout, Good, Sound
<1>7. CASE UNCHANGED room
  BY <1>7
<1> QED BY <1>1, <1>2, <1>3, <1>4, <1>5, <1>6, <1>7 DEF Next

\* The inductive invariant holds in every state GameRoom can reach.
THEOREM Invariance == SafeSpec => []IInv
<1>1. Init => IInv
  BY InitGood
<1>2. IInv /\ [Next]_room => IInv'
  BY NextGood
<1> QED BY <1>1, <1>2, PTL DEF SafeSpec

(***************************************************************************)
(* Every handler keeps the fields of the room and of its game within their *)
(* types and players[] and active_players[] of one length, for any number  *)
(* of users and any sizes.                                                 *)
(***************************************************************************)
THEOREM TypeCorrect == SafeSpec => []TypeOK
<1>1. IInv => TypeOK
  BY DEF IInv, Good, Base, SeatsTyped, TypeOK
<1> QED BY <1>1, Invariance, PTL

(***************************************************************************)
(* No sequence of joins, starts, rounds and leaves gives a user two seats  *)
(* or fills more seats than max_players.                                   *)
(***************************************************************************)
THEOREM OneSeat == SafeSpec => []OneSeatPerUser
<1>1. IInv => OneSeatPerUser
  BY DEF IInv, Good, Base, SeatsDistinct, OneSeatPerUser
<1> QED BY <1>1, Invariance, PTL

(***************************************************************************)
(* A room that exists always has an owner who is active in it, so that its *)
(* game can be started and its seats are never all abandoned.              *)
(***************************************************************************)
THEOREM OwnerStaysActive == SafeSpec => []OwnerIsActive
<1>1. IInv => OwnerIsActive
  BY DEF IInv, Good, Base, OwnerActive, OwnerIsActive
<1> QED BY <1>1, Invariance, PTL

(***************************************************************************)
(* An open round always has its drawer in the seat drawer_index, active,   *)
(* whoever joins, leaves or guesses and whenever the time runs out.        *)
(***************************************************************************)
THEOREM DrawerStays == SafeSpec => []DrawerIsPlaying
<1>1. IInv => DrawerIsPlaying
  BY DEF IInv, Good, DrawerSeated, DrawerIsPlaying
<1> QED BY <1>1, Invariance, PTL

-----------------------------------------------------------------------------
(***************************************************************************)
(* A game that is running never has fewer than two active players: the     *)
(* leave code ends it in the handler that would leave one.                 *)
(***************************************************************************)
THEOREM TwoPlayersPlay == SafeSpec => []GameHasTwoPlayers
<1>1. IInv => GameHasTwoPlayers
  BY DEF IInv, Sound, Playable, EnoughActive, GameHasTwoPlayers
<1> QED BY <1>1, Invariance, PTL

(***************************************************************************)
(* Between two handlers a game whose first round has begun has an open     *)
(* round, and a game state is allocated exactly while the room plays.      *)
(***************************************************************************)
THEOREM RoundStaysOpen == SafeSpec => []RoundAlwaysOpen
<1>1. IInv => RoundAlwaysOpen
  <2> SUFFICES ASSUME IInv  PROVE RoundAlwaysOpen
    OBVIOUS
  <2>1. NoGame.total = 0
    BY DEF NoGame
  <2>2. room.state = "PLAYING" => room.game # NoGame
    BY <2>1 DEF IInv, Sound, Playable, RoundsCounted
  <2>3. room.state # "PLAYING" => room.game = NoGame
    BY DEF IInv, Good, Base, GameOnlyInPlay
  <2>4. (room.state = "PLAYING") = (room.game # NoGame)
    BY <2>2, <2>3
  <2> QED BY <2>4 DEF IInv, Sound, RoundOpen, RoundAlwaysOpen
<1> QED BY <1>1, Invariance, PTL

(***************************************************************************)
(* Nobody is paid twice for one word: those who have found it are distinct *)
(* players with a seat, none of them the drawer, and all who are paid have *)
(* an entry in the score table, rebuilt or not.                            *)
(***************************************************************************)
THEOREM NobodyPaidTwice == SafeSpec => []PaidOncePerRound
<1>1. IInv => PaidOncePerRound
  <2> SUFFICES ASSUME IInv, room.game.open
               PROVE  room.game.scores[room.game.drawer] # NoEntry
    BY DEF IInv, Sound, FindersListed, PaidOncePerRound
  <2>1. room.state = "PLAYING"
    BY DEF IInv, Good, Base, GameOnlyInPlay, NoGame
  <2>2. /\ room.game.drawer_index \in ActiveSeats(room)
        /\ room.players[room.game.drawer_index] = room.game.drawer
    BY DEF IInv, Good, DrawerSeated, ActiveSeats
  <2> QED BY <2>1, <2>2 DEF IInv, Sound, Playable, ActiveScored
<1> QED BY <1>1, Invariance, PTL

(***************************************************************************)
(* No game plays more rounds than were fixed when it started, however many *)
(* seats are passed over.                                                  *)
(***************************************************************************)
THEOREM RoundsStayBounded == SafeSpec => []RoundsBounded
<1>1. IInv => RoundsBounded
  BY DEF IInv, Sound, Playable, RoundsCounted, RoundsBounded
<1> QED BY <1>1, Invariance, PTL

-----------------------------------------------------------------------------
\* The turn that NextRound passes on goes to the nearest active seat.
LEMMA NextRoundTurn ==
  ASSUME NEW r, Base(r), r.state = "PLAYING"
  PROVE  LET s == NextRound(r)
             k == s.game.round - r.game.round
         IN  s.game.open =>
               /\ k > 0
               /\ s.game.drawer_index = SeatAfter(r, k)
               /\ s.active = r.active
               /\ \A j \in 1..(k - 1) : r.active[SeatAfter(r, j)] # "active"
<1> DEFINE s == NextRound(r)
           d == s.game.round - r.game.round
           Turn == /\ d > 0
                   /\ s.game.drawer_index = SeatAfter(r, d)
                   /\ s.active = r.active
                   /\ \A j \in 1..(d - 1) : r.active[SeatAfter(r, j)] # "active"
<1>1. r \in RoomType /\ r.game.round \in Nat /\ r.game.total \in Nat
      /\ Len(r.players) \in Nat
  BY SeatFacts DEF Base, SeatsTyped, RoomType, GameType
<1>2. s = RoomEndGame(r) => ~s.game.open
  BY <1>1 DEF RoomEndGame, NoGame, RoomType
<1>3. ASSUME NEW k \in Attempts(r), \A j \in Attempts(r) : k <= j,
             s = OpenRound(r, r.game.round + k, SeatAfter(r, k))
      PROVE  Turn
  <2>1. /\ s.game.round = r.game.round + k
        /\ s.game.drawer_index = SeatAfter(r, k) /\ s.active = r.active
    BY <1>1, <1>3, OpenRoundFields
  <2>2. k \in 1..RoundsLeft(r) /\ k <= Len(r.players) + 1 /\ RoundsLeft(r) \in Int
    BY <1>1 DEF Attempts, RoundsLeft
  <2>3. ASSUME NEW j \in 1..(k - 1)  PROVE r.active[SeatAfter(r, j)] # "active"
    <3>1. j \in 1..RoundsLeft(r) /\ j <= Len(r.players) + 1 /\ ~(k <= j)
      BY <1>1, <2>2
    <3> QED BY <1>3, <3>1 DEF Attempts
  <2>4. d = k /\ k > 0
    <3> HIDE DEF s
    <3> QED BY <1>1, <2>1, <2>2
  <2> HIDE DEF s, d
  <2> QED BY <2>1, <2>3, <2>4
<1>4. s = RoomEndGame(r) \/ Turn
  <2> HIDE DEF Turn
  <2> QED BY <1>3, NextRoundCases
<1> QED BY <1>2, <1>4

\* The turn is in order when a round ends in a room that had the same game.
LEMMA TurnOfSameGame ==
  ASSUME NEW r, NEW s, Base(s), s.state = "PLAYING",
         s.players = r.players, s.game.round = r.game.round,
         s.game.drawer_index = r.game.drawer_index
  PROVE  TurnInOrder(r, NextRound(s))
<1>1. \A k : SeatAfter(s, k) = SeatAfter(r, k)
  BY DEF SeatAfter
<1> QED BY <1>1, NextRoundTurn DEF TurnInOrder

\* A step that leaves the number of the round alone, or has no open round.
LEMMA NoTurn ==
  ASSUME NEW r, NEW s, s.game.round \in Nat,
         s.game.round = r.game.round \/ ~r.game.open \/ ~s.game.open
  PROVE  TurnInOrder(r, s)
<1>1. CASE s.game.round = r.game.round
  <2>1. s.game.round - r.game.round = 0
    BY <1>1
  <2> QED BY <2>1 DEF TurnInOrder
<1>2. CASE ~r.game.open \/ ~s.game.open
  BY <1>2, Zenon DEF TurnInOrder
<1> QED BY <1>1, <1>2

\* A leave passes the turn on in order, when it is the drawer who goes.
LEMMA LeaveTurn ==
  ASSUME NEW r, Good(r), Live(r), NEW u \in Users, HasPlayer(r, u)
  PROVE  TurnInOrder(r, LeaveRoom(r, u))
<1> DEFINE s == RoomRemovePlayer(r, u)
           endGame == r.state = "PLAYING" /\ TooFewToPlay(s)
           kept == EnsureActiveOwner(IF endGame THEN RoomEndGame(s) ELSE s)
<1>1. LeaveRoom(r, u) = IF ActiveSeats(s) = {} THEN Destroyed
                        ELSE IF RoundOfDrawer(r, u) /\ ~endGame THEN NextRound(kept)
                        ELSE kept
  BY DEF LeaveRoom
<1>2. CASE ActiveSeats(s) = {}
  <2>1. Destroyed.game.round = 0 /\ ~Destroyed.game.open
    BY DEF Destroyed, NoRoom, NoGame
  <2> QED BY <1>1, <1>2, <2>1, NoTurn
<1>3. CASE ActiveSeats(s) # {}
  <2>1. /\ Base(s) /\ IsActive(s, s.owner) /\ s.state = r.state /\ s.game = r.game
        /\ r.state = "PLAYING" => s.players = r.players
    BY <1>3, RemovePlayerBase
  <2>2. r.game.round \in Nat /\ s \in RoomType
    BY <2>1 DEF Good, Base, SeatsTyped, RoomType, GameType
  <2> HIDE DEF s
  <2>3. CASE endGame
    <3>1. IsActive(RoomEndGame(s), RoomEndGame(s).owner)
      BY <2>1, EndGameGood
    <3>2. kept = RoomEndGame(s)
      BY <2>3, <3>1 DEF EnsureActiveOwner
    <3>3. RoomEndGame(s).game = NoGame
      BY <2>2 DEF RoomEndGame, RoomType
    <3> QED BY <1>1, <1>3, <2>3, <3>2, <3>3, NoTurn DEF NoGame
  <2>4. CASE ~endGame
    <3>1. kept = s
      BY <2>1, <2>4 DEF EnsureActiveOwner
    <3>2. CASE RoundOfDrawer(r, u)
      <4>1. s.state = "PLAYING" /\ s.players = r.players
        BY <2>1, <3>2 DEF RoundOfDrawer
      <4> QED BY <1>1, <1>3, <2>1, <2>4, <3>1, <3>2, <4>1, TurnOfSameGame
    <3>3. CASE ~RoundOfDrawer(r, u)
      BY <1>1, <1>3, <2>1, <2>2, <2>4, <3>1, <3>3, NoTurn
    <3> QED BY <3>2, <3>3
  <2> QED BY <2>3, <2>4
<1> QED BY <1>2, <1>3

(***************************************************************************)
(* Whatever ends a round (its time, the last guess, or the drawer leaving, *)
(* which marks a seat in the same handler), the turn goes to the nearest   *)
(* following seat that is active, and each seat passed over costs a round. *)
(***************************************************************************)
THEOREM TurnsInOrder == SafeSpec => TurnPassesInOrder
<1>1. IInv /\ [Next]_room => [TurnInOrder(room, room')]_room
  <2> SUFFICES ASSUME Good(room), Next  PROVE TurnInOrder(room, room')
    BY DEF IInv
  <2>1. room.game.open => room.state = "PLAYING"
    BY DEF Good, Base, GameOnlyInPlay, NoGame
  <2>2. room \in RoomType /\ room.game.round \in Nat
    BY DEF Good, Base, SeatsTyped, RoomType, GameType
  <2>3. ASSUME NEW u \in Users, NEW m, NEW n, Create(u, m, n)
        PROVE  TurnInOrder(room, room')
    BY <2>1, <2>3, NoTurn DEF Create, RoomCreate, NoGame
  <2>4. ASSUME NEW u \in Users, Join(u)  PROVE TurnInOrder(room, room')
    <3>1. CASE room.state = "PLAYING"
      <4>1. room' = RoomAddPlayer(room, u) /\ room'.game = room.game
        <5>1. RoomAddPlayer(room, u).state = "PLAYING"
              /\ RoomAddPlayer(room, u).game = room.game
          BY <3>1, AddPlayerSeats DEF Good, Base
        <5> QED BY <2>4, <5>1 DEF Join, EnterRoom, CanStart
      <4> QED BY <2>2, <4>1, NoTurn
    <3>2. CASE room.state # "PLAYING"
      BY <2>1, <3>2 DEF TurnInOrder
    <3> QED BY <3>1, <3>2
  <2>5. ASSUME NEW u \in Users, Start(u)  PROVE TurnInOrder(room, room')
    BY <2>1, <2>5 DEF Start, CanStart, TurnInOrder
  <2>6. ASSUME NEW u \in Users, Guess(u)  PROVE TurnInOrder(room, room')
    <3> DEFINE s == GameHandleGuess(room, u)
    <3>1. /\ Good(s) /\ s.state = "PLAYING" /\ s.players = room.players
          /\ s.game.round = room.game.round
          /\ s.game.drawer_index = room.game.drawer_index
      BY <2>6, HandleGuessGood, HandleGuessFields DEF Guess
    <3>2. room' = IF AllFound(s) THEN NextRound(s) ELSE s
      BY <2>6 DEF Guess, ProcessGuess
    <3> HIDE DEF s
    <3> QED BY <2>2, <3>1, <3>2, TurnOfSameGame, NoTurn DEF Good
  <2>7. ASSUME NEW u \in Users, Leave(u)  PROVE TurnInOrder(room, room')
    BY <2>7, LeaveTurn DEF Leave
  <2>8. CASE Timeout
    BY <2>8, TurnOfSameGame DEF Timeout, Good
  <2> QED BY <2>3, <2>4, <2>5, <2>6, <2>7, <2>8 DEF Next
<1> QED BY <1>1, Invariance, PTL DEF SafeSpec, TurnPassesInOrder


-----------------------------------------------------------------------------
\* What a round that ends leaves of the game: the scores, or nothing.
LEMMA NextRoundScores ==
  ASSUME NEW r, Base(r)
  PROVE  NextRound(r).state = "PLAYING" => NextRound(r).game.scores = r.game.scores
<1>1. r \in RoomType
  BY DEF Base, SeatsTyped
<1>2. RoomEndGame(r).state = "FINISHED"
  BY <1>1 DEF RoomEndGame, RoomType
<1>3. ASSUME NEW k, NextRound(r) = OpenRound(r, r.game.round + k, SeatAfter(r, k))
      PROVE  NextRound(r).game.scores = r.game.scores
  BY <1>1, <1>3, OpenRoundFields
<1> QED BY <1>2, <1>3, NextRoundCases

\* A step after which the score table is what it was.
LEMMA SameScores ==
  ASSUME NEW r, NEW s, Base(r),
         s.state = "PLAYING" => s.game.scores = r.game.scores
  PROVE  KeepsScores(r, s)
<1>1. \A u \in Users : r.game.scores[u] \in Int
  BY DEF Base, SeatsTyped, RoomType, GameType, ScoreTables, NoEntry
<1> QED BY <1>1 DEF KeepsScores

(***************************************************************************)
(* Points are never lost while a game goes on, unless an award rebuilds    *)
(* the score table, which then gets an entry that it did not have.         *)
(***************************************************************************)
THEOREM PointsAreKept == SafeSpec => ScoresGrow
<1>1. IInv /\ [Next]_room => [KeepsScores(room, room')]_room
  <2> SUFFICES ASSUME Good(room), Sound(room), Next  PROVE KeepsScores(room, room')
    BY DEF IInv
  <2>1. ASSUME NEW u \in Users, NEW m, NEW n, Create(u, m, n)
        PROVE  KeepsScores(room, room')
    BY <2>1 DEF Create, KeepsScores
  <2>2. ASSUME NEW u \in Users, Join(u)  PROVE KeepsScores(room, room')
    <3>1. CASE room.state = "PLAYING"
      <4>1. RoomAddPlayer(room, u).state = "PLAYING"
            /\ RoomAddPlayer(room, u).game = room.game
        BY <3>1, AddPlayerSeats DEF Good, Base
      <4>2. room'.game = room.game
        BY <2>2, <4>1 DEF Join, EnterRoom, CanStart
      <4> QED BY <4>2, SameScores DEF Good
    <3>2. CASE room.state # "PLAYING"
      BY <3>2 DEF KeepsScores
    <3> QED BY <3>1, <3>2
  <2>3. ASSUME NEW u \in Users, Start(u)  PROVE KeepsScores(room, room')
    BY <2>3 DEF Start, CanStart, KeepsScores
  <2>4. ASSUME NEW u \in Users, Guess(u)  PROVE KeepsScores(room, room')
    <3> DEFINE s == GameHandleGuess(room, u)
    <3>1. Good(s) /\ room' = IF AllFound(s) THEN NextRound(s) ELSE s
      BY <2>4, HandleGuessGood DEF Guess, ProcessGuess
    <3>2. room'.state = "PLAYING" => room'.game.scores = s.game.scores
      <4> HIDE DEF s
      <4> QED BY <3>1, NextRoundScores DEF Good
    <3>3. CASE HasGuessed(room, u)
      <4>1. s = room
        BY <3>3 DEF GameHandleGuess
      <4> QED BY <3>2, <4>1, SameScores DEF Good
    <3>4. CASE ~HasGuessed(room, u)
      <4>1. /\ s.game.scores[u] # NoEntry
            /\ room.game.scores[u] # NoEntry =>
                 \A v \in Users : s.game.scores[v] >= room.game.scores[v]
        BY <2>4, <3>4, GuessScores DEF Guess
      <4> HIDE DEF s
      <4> QED BY <3>2, <4>1 DEF KeepsScores, SameTable
    <3> QED BY <3>3, <3>4
  <2>5. ASSUME NEW u \in Users, Leave(u)  PROVE KeepsScores(room, room')
    <3> DEFINE s == RoomRemovePlayer(room, u)
               endGame == room.state = "PLAYING" /\ TooFewToPlay(s)
               kept == EnsureActiveOwner(IF endGame THEN RoomEndGame(s) ELSE s)
    <3>1. room' = IF ActiveSeats(s) = {} THEN Destroyed
                  ELSE IF RoundOfDrawer(room, u) /\ ~endGame THEN NextRound(kept)
                  ELSE kept
      BY <2>5 DEF Leave, LeaveRoom
    <3>2. CASE ActiveSeats(s) = {}
      BY <3>1, <3>2 DEF Destroyed, NoRoom, KeepsScores
    <3>3. CASE ActiveSeats(s) # {}
      <4>1. Base(s) /\ IsActive(s, s.owner) /\ s.game = room.game
        BY <2>5, <3>3, RemovePlayerBase DEF Leave
      <4> HIDE DEF s
      <4>2. CASE endGame
        <5>1. /\ RoomEndGame(s).state = "FINISHED"
              /\ IsActive(RoomEndGame(s), RoomEndGame(s).owner)
          BY <4>1, EndGameGood
        <5> QED BY <3>1, <3>3, <4>2, <5>1 DEF EnsureActiveOwner, KeepsScores
      <4>3. CASE ~endGame
        <5>1. kept = s
          BY <4>1, <4>3 DEF EnsureActiveOwner
        <5>2. room' = NextRound(s) \/ room' = s
          BY <3>1, <3>3, <5>1
        <5> QED BY <4>1, <5>2, NextRoundScores, SameScores DEF Good
      <4> QED BY <4>2, <4>3
    <3> QED BY <3>2, <3>3
  <2>6. CASE Timeout
    BY <2>6, NextRoundScores, SameScores DEF Timeout, Good
  <2> QED BY <2>1, <2>2, <2>3, <2>4, <2>5, <2>6 DEF Next
<1> QED BY <1>1, Invariance, PTL DEF SafeSpec, ScoresGrow


(***************************************************************************)
(* Counting: when all who have found the word are active and one active    *)
(* guesser v has not, fewer have found it than there are active guessers.  *)
(***************************************************************************)
LEMMA OneIsMissing ==
  ASSUME NEW r, SeatsTyped(r), r.game.open, FindersListed(r),
         \A i \in 1..Len(r.game.guessed) : IsActive(r, r.game.guessed[i]),
         NEW v, IsActive(r, v), v # r.game.drawer,
         \A i \in 1..Len(r.game.guessed) : r.game.guessed[i] # v
  PROVE  ~AllFound(r)
<1> DEFINE m == Len(r.game.guessed)
           A == ActiveGuessers(r)
           seat(w) == CHOOSE j \in ActiveSeats(r) : r.players[j] = w
           B == A \ {seat(v)}
           f == [i \in 1..m |-> seat(r.game.guessed[i])]
<1>1. m \in Nat
  BY LenProperties DEF SeatsTyped, RoomType, GameType
<1>2. ASSUME NEW w, IsActive(r, w)
      PROVE  seat(w) \in ActiveSeats(r) /\ r.players[seat(w)] = w
  BY <1>2 DEF IsActive
<1>3. /\ \A i \in 1..m : r.game.guessed[i] # r.game.drawer
      /\ \A i, j \in 1..m : r.game.guessed[i] = r.game.guessed[j] => i = j
  BY DEF FindersListed
<1>4. IsFiniteSet(A)
  <2>1. A \subseteq ActiveSeats(r)
    BY DEF ActiveGuessers
  <2> QED BY <2>1, ActiveCountNat, FS_Subset
<1>5. seat(v) \in A
  BY <1>2 DEF ActiveGuessers
<1>6. IsFiniteSet(B) /\ Cardinality(B) = Cardinality(A) - 1 /\ Cardinality(A) \in Nat
  <2> HIDE DEF A, seat
  <2> QED BY <1>4, <1>5, FS_RemoveElement, FS_CardinalityType
<1>7. f \in Injection(1..m, B)
  <2>1. ASSUME NEW i \in 1..m
        PROVE  /\ seat(r.game.guessed[i]) \in B
               /\ r.players[seat(r.game.guessed[i])] = r.game.guessed[i]
    <3>1. /\ seat(r.game.guessed[i]) \in ActiveSeats(r)
          /\ r.players[seat(r.game.guessed[i])] = r.game.guessed[i]
          /\ r.players[seat(v)] = v
      BY <1>2
    <3> HIDE DEF seat
    <3> QED BY <1>3, <3>1 DEF ActiveGuessers
  <2> HIDE DEF B, seat
  <2>2. f \in [1..m -> B]
    BY <2>1
  <2>3. ASSUME NEW i \in 1..m, NEW j \in 1..m, f[i] = f[j]  PROVE i = j
    BY <1>3, <2>1, <2>3
  <2> HIDE DEF f
  <2> QED BY <2>2, <2>3 DEF Injection, IsInjective
<1>8. Cardinality(1..m) <= Cardinality(B)
  <2> HIDE DEF f, B
  <2> QED BY <1>6, <1>7, FS_Injection
<1>9. Cardinality(1..m) = m
  BY <1>1, FS_Interval
<1> HIDE DEF m, A, B
<1> QED BY <1>1, <1>6, <1>8, <1>9 DEF AllFound, m, A

(***************************************************************************)
(* A guess that ends the round is the last one awaited: every active       *)
(* guesser has found the word, or one who has found it plays no longer.    *)
(***************************************************************************)
THEOREM EarlyEndsAreEarned == SafeSpec => EarlyEndIsEarned
<1> DEFINE Earned(u) == Guess(u) /\ room'.game.round # room.game.round => EndIsEarned(u)
<1>1. ASSUME IInv, NEW u \in Users, Guess(u), room'.game.round # room.game.round
      PROVE  EndIsEarned(u)
  <2> DEFINE s == GameHandleGuess(room, u)
  <2>1. Good(room) /\ Sound(room) /\ room.state = "PLAYING" /\ room.game.open
        /\ HasPlayer(room, u) /\ u # room.game.drawer
    BY <1>1 DEF IInv, Guess
  <2>2. Good(s) /\ Sound(s)
    BY <2>1, HandleGuessGood, HandleGuessSound
  <2>3. /\ s.players = room.players /\ s.active = room.active /\ s.game.open
        /\ s.game.round = room.game.round /\ s.game.drawer = room.game.drawer
    BY <2>1, HandleGuessFields
  <2>4. AllFound(s)
    BY <1>1, <2>3 DEF Guess, ProcessGuess
  <2>5. \A i \in 1..Len(s.game.guessed) : s.game.guessed[i] \in Finders(u)
    <3> DEFINE g == room.game.guessed
    <3>0. g \in Seq(Users) /\ Len(g) \in Nat
      BY <2>1, LenProperties DEF Good, Base, SeatsTyped, RoomType, GameType
    <3>1. CASE s.game.guessed = g
      BY <3>1 DEF Finders
    <3>2. CASE s.game.guessed = Append(g, u)
      <4>1. /\ Len(s.game.guessed) = Len(g) + 1 /\ s.game.guessed[Len(g) + 1] = u
            /\ \A i \in 1..Len(g) : s.game.guessed[i] = g[i]
        BY <3>0, <3>2, AppendProperties
      <4>2. \A i \in 1..(Len(g) + 1) : i \in 1..Len(g) \/ i = Len(g) + 1
        BY <3>0
      <4> HIDE DEF s
      <4> QED BY <4>1, <4>2 DEF Finders
    <3>3. s.game.guessed = g \/ s.game.guessed = Append(g, u)
      BY <2>1, HandleGuessFields
    <3> QED BY <3>1, <3>2, <3>3
  <2> HIDE DEF s
  <2>6. \A w : IsActive(s, w) <=> IsActive(room, w)
    BY <2>3 DEF IsActive, ActiveSeats, Seats
  <2>7. CASE \E x \in Finders(u) : ~IsActive(room, x)
    BY <2>7 DEF EndIsEarned
  <2>8. ASSUME \A x \in Finders(u) : IsActive(room, x),
               NEW v \in Users \ {room.game.drawer}, IsActive(room, v)
        PROVE  v \in Finders(u)
    <3> SUFFICES ASSUME v \notin Finders(u)  PROVE FALSE
      OBVIOUS
    <3>1. \A i \in 1..Len(s.game.guessed) :
            IsActive(s, s.game.guessed[i]) /\ s.game.guessed[i] # v
      BY <2>5, <2>6, <2>8
    <3>2. SeatsTyped(s) /\ FindersListed(s) /\ IsActive(s, v) /\ v # s.game.drawer
      BY <2>2, <2>3, <2>6, <2>8 DEF Good, Base, Sound
    <3> QED BY <2>3, <2>4, <3>1, <3>2, OneIsMissing
  <2> QED BY <2>7, <2>8 DEF EndIsEarned, EveryoneFound
<1>2. IInv /\ [Next]_room => [\A u \in Users : Earned(u)]_room
  BY <1>1
<1> QED BY <1>2, Invariance, PTL DEF SafeSpec, EarlyEndIsEarned
=============================================================================
