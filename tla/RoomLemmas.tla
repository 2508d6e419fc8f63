----------------------------- MODULE RoomLemmas -----------------------------
(***************************************************************************)
(* What the operators of Room and Game do to a good room, for every set of *)
(* users and all bounds: one lemma per operator, cited by the proofs about *)
(* each specification whose rooms move by these operators.                 *)
(***************************************************************************)
EXTENDS Game, SequenceTheorems, FiniteSetTheorems, WellFoundedInduction, TLAPS

-----------------------------------------------------------------------------
(* The least element of a set of natural numbers, and a sequence without   *)
(* one of its elements.                                                    *)

\* Min finds the least element of a set of naturals: the loops over seats stop.
LEMMA NatMin ==
  ASSUME NEW S, S \subseteq Nat, S # {}
  PROVE  Min(S) \in S /\ \A y \in S : Min(S) <= y
<1> DEFINE U == {0..k : k \in S}
<1>1. U # {}
  OBVIOUS
<1>2. U \subseteq FiniteSubsetsOf(Nat)
  <2> SUFFICES ASSUME NEW k \in S  PROVE 0..k \in FiniteSubsetsOf(Nat)
    OBVIOUS
  <2>1. k \in Int /\ 0 \in Int
    OBVIOUS
  <2>2. IsFiniteSet(0..k)
    BY <2>1, FS_Interval
  <2> QED BY <2>2 DEF FiniteSubsetsOf
<1>3. PICK X \in U : \A Y \in U : ~(<<Y, X>> \in StrictSubsetOrdering(Nat))
  <2> HIDE DEF U
  <2> QED BY <1>1, <1>2, WFMin, FS_StrictSubsetOrderingWellFounded
<1>4. PICK z \in S : X = 0..z
  OBVIOUS
<1>5. ASSUME NEW y \in S, y < z  PROVE FALSE
  <2>1. 0..y \subseteq 0..z /\ z \in 0..z /\ z \notin 0..y
    BY <1>5
  <2>2. <<0..y, 0..z>> \in StrictSubsetOrdering(Nat)
    BY <2>1 DEF StrictSubsetOrdering
  <2> QED BY <1>3, <1>4, <2>2
<1>6. \A y \in S : z <= y
  BY <1>5
<1> QED BY <1>6 DEF Min

\* The shift over a seat: seats before it stay, seats after it move down.
LEMMA RemoveAtSeat ==
  ASSUME NEW S, NEW s \in Seq(S), NEW i \in 1..Len(s)
  PROVE  /\ RemoveAt(s, i) \in Seq(S)
         /\ Len(RemoveAt(s, i)) = Len(s) - 1
         /\ \A j \in 1..(Len(s) - 1) :
              RemoveAt(s, i)[j] = IF j < i THEN s[j] ELSE s[j + 1]
<1> DEFINE a == SubSeq(s, 1, i - 1)
           b == SubSeq(s, i + 1, Len(s))
<1>0. Len(s) \in Nat /\ i \in Nat
  BY LenProperties
<1>1. a \in Seq(S) /\ Len(a) = i - 1 /\ \A j \in 1..(i - 1) : a[j] = s[j]
  BY <1>0, SubSeqProperties, ElementOfSeq
<1>2. b \in Seq(S) /\ Len(b) = Len(s) - i /\ \A j \in 1..(Len(s) - i) : b[j] = s[i + j]
  BY <1>0, SubSeqProperties, ElementOfSeq
<1>3. RemoveAt(s, i) = a \o b
  BY DEF RemoveAt
<1> HIDE DEF a, b
<1>4. a \o b \in Seq(S) /\ Len(a \o b) = Len(s) - 1
  <2>1. a \o b \in Seq(S) /\ Len(a \o b) = Len(a) + Len(b)
    BY <1>1, <1>2, ConcatProperties
  <2> QED BY <1>0, <1>1, <1>2, <2>1
<1>5. ASSUME NEW j \in 1..(Len(s) - 1)
      PROVE  (a \o b)[j] = IF j < i THEN s[j] ELSE s[j + 1]
  <2>1. (a \o b)[j] = IF j <= Len(a) THEN a[j] ELSE b[j - Len(a)]
    BY <1>0, <1>1, <1>2, ConcatProperties
  <2>2. CASE j < i
    BY <1>0, <1>1, <2>1, <2>2
  <2>3. CASE ~(j < i)
    <3>1. j - Len(a) \in 1..(Len(s) - i) /\ i + (j - Len(a)) = j + 1
      BY <1>0, <1>1, <2>3
    <3> QED BY <1>0, <1>1, <1>2, <2>1, <2>3, <3>1
  <2> QED BY <2>2, <2>3
<1> QED BY <1>3, <1>4, <1>5

-----------------------------------------------------------------------------
(***************************************************************************)
(* The inductive invariant.  Base(r) is what every operator keeps and      *)
(* needs: the types, one seat per user, an active owner (so that a room    *)
(* that plays has an active seat, without which NextRound could not divide *)
(* by the number of seats) and no game outside PLAYING (so that the seats  *)
(* are never shifted under an open round).  Good(r) adds the seat of the   *)
(* drawer, which the leave code gives up and restores within one handler.  *)
(***************************************************************************)
SeatsTyped(r) ==
  /\ r \in RoomType
  /\ Len(r.active) = Len(r.players)

SeatsDistinct(r) ==
  /\ \A i, j \in Seats(r) : r.players[i] = r.players[j] => i = j
  /\ Len(r.players) <= r.max_players

OwnerActive(r) == Live(r) => IsActive(r, r.owner)

GameOnlyInPlay(r) == r.state # "PLAYING" => r.game = NoGame

Base(r) ==
  SeatsTyped(r) /\ SeatsDistinct(r) /\ OwnerActive(r) /\ GameOnlyInPlay(r)

DrawerSeated(r) ==
  r.game.open =>
    /\ r.game.drawer_index \in Seats(r)
    /\ r.players[r.game.drawer_index] = r.game.drawer
    /\ r.active[r.game.drawer_index] = "active"

Good(r) == Base(r) /\ DrawerSeated(r)

-----------------------------------------------------------------------------
\* A table of seats is a sequence: its length is a natural number.
LEMMA SeatFacts ==
  ASSUME NEW r, SeatsTyped(r)
  PROVE  /\ Len(r.players) \in Nat
         /\ \A i \in Seats(r) : r.players[i] \in Users /\ r.active[i] \in SeatStates
         /\ Seats(r) \subseteq Nat /\ ActiveSeats(r) \subseteq Nat
<1>1. r.players \in Seq(Users) /\ r.active \in Seq(SeatStates)
  BY DEF SeatsTyped, RoomType
<1>2. Len(r.players) \in Nat
  BY <1>1, LenProperties
<1>3. \A i \in Seats(r) : r.players[i] \in Users /\ r.active[i] \in SeatStates
  BY <1>1, ElementOfSeq DEF Seats, SeatsTyped
<1> QED BY <1>2, <1>3 DEF Seats, ActiveSeats

\* The game of a room without one is well typed.
LEMMA NoGameTyped == NoGame \in GameType
  BY EmptySeq DEF NoGame, GameType, ScoreTables, NoEntry

\* A room that does not exist is a good room.
LEMMA NoRoomGood == Good(NoRoom) /\ Good(Destroyed)
<1>1. <<>> \in Seq(Users) /\ <<>> \in Seq(SeatStates) /\ Len(<<>>) = 0
  BY EmptySeq
<1>2. NoRoom \in RoomType
  <2>1. 0 \in 0..MaxPlayersPerRoom /\ 0 \in 0..10
    BY RoomAssumption
  <2>2. "NONE" \in RoomStates /\ NoUser \in Users \cup {NoUser}
    BY DEF RoomStates
  <2> QED BY <1>1, <2>1, <2>2, NoGameTyped DEF NoRoom, RoomType
<1>3. Destroyed \in RoomType
  BY <1>2 DEF Destroyed, RoomType, RoomStates
<1> QED
  BY <1>1, <1>2, <1>3, RoomAssumption DEF Good, Base, SeatsTyped, SeatsDistinct, OwnerActive,
     GameOnlyInPlay, DrawerSeated, Live, NoRoom, Destroyed, NoGame, Seats

\* A room that is created has its owner in the first seat.
LEMMA RoomCreateGood ==
  ASSUME NEW u \in Users, NEW m \in 2..MaxPlayersPerRoom, NEW n \in 1..10
  PROVE  Good(RoomCreate(u, m, n))
<1> DEFINE r == RoomCreate(u, m, n)
<1>1. /\ r.players \in Seq(Users) /\ r.active \in Seq(SeatStates)
      /\ Len(r.players) = 1 /\ Len(r.active) = 1
      /\ r.players[1] = u /\ r.active[1] = "active"
  BY DEF RoomCreate, SeatStates
<1>2. r \in RoomType
  BY <1>1, NoGameTyped, RoomAssumption DEF RoomCreate, RoomType, RoomStates
<1>3. r.owner = u /\ r.max_players = m /\ r.game = NoGame
  BY DEF RoomCreate
<1> HIDE DEF r
<1>4. SeatsTyped(r) /\ SeatsDistinct(r) /\ GameOnlyInPlay(r)
  BY <1>1, <1>2, <1>3, RoomAssumption DEF SeatsTyped, SeatsDistinct, GameOnlyInPlay, Seats
<1>5. OwnerActive(r)
  BY <1>1, <1>3 DEF OwnerActive, IsActive, ActiveSeats, Seats
<1>6. DrawerSeated(r)
  BY <1>3 DEF DrawerSeated, NoGame
<1> QED BY <1>4, <1>5, <1>6 DEF Good, Base, r

\* The loop over the seats finds the seat of a user who has one.
LEMMA SeatOfUser ==
  ASSUME NEW r, SeatsTyped(r), NEW u, HasPlayer(r, u)
  PROVE  SeatOf(r, u) \in Seats(r) /\ r.players[SeatOf(r, u)] = u
<1> DEFINE S == {i \in Seats(r) : r.players[i] = u}
<1>1. S \subseteq Nat /\ S # {}
  BY SeatFacts DEF HasPlayer
<1>2. Min(S) \in S
  <2> HIDE DEF S
  <2> QED BY <1>1, NatMin
<1> QED BY <1>2 DEF SeatOf

\* When somebody is active, the owner role goes to a user who is.
LEMMA FirstActiveIsActive ==
  ASSUME NEW r, SeatsTyped(r), ActiveSeats(r) # {}
  PROVE  FirstActive(r) \in Users /\ IsActive(r, FirstActive(r))
<1>1. Min(ActiveSeats(r)) \in ActiveSeats(r)
  BY SeatFacts, NatMin
<1> QED BY <1>1, SeatFacts DEF FirstActive, IsActive, ActiveSeats

\* A user with an active seat has a seat.
LEMMA ActiveHasPlayer ==
  ASSUME NEW r, NEW u, IsActive(r, u)
  PROVE  HasPlayer(r, u) /\ ActiveSeats(r) # {}
  BY DEF IsActive, HasPlayer, ActiveSeats

-----------------------------------------------------------------------------
\* The seats of a room to which a player is added.
LEMMA AddPlayerSeats ==
  ASSUME NEW r, SeatsTyped(r), NEW u \in Users
  PROVE  LET s == RoomAddPlayer(r, u)
             n == Len(r.players)
         IN  /\ SeatsTyped(s)
             /\ Len(s.players) = n + 1
             /\ \A i \in 1..n : s.players[i] = r.players[i] /\ s.active[i] = r.active[i]
             /\ s.players[n + 1] = u
             /\ s.active[n + 1] = IF r.state = "PLAYING" THEN "waiting" ELSE "active"
             /\ s.state = r.state /\ s.owner = r.owner
             /\ s.max_players = r.max_players /\ s.game = r.game
             /\ s.total_rounds = r.total_rounds
<1> DEFINE s == RoomAddPlayer(r, u)
           n == Len(r.players)
           a == IF r.state = "PLAYING" THEN "waiting" ELSE "active"
<1>1. r.players \in Seq(Users) /\ r.active \in Seq(SeatStates) /\ a \in SeatStates
      /\ Len(r.active) = n
  BY DEF SeatsTyped, RoomType, SeatStates
<1>2. /\ Append(r.players, u) \in Seq(Users)
      /\ Len(Append(r.players, u)) = n + 1
      /\ \A i \in 1..n : Append(r.players, u)[i] = r.players[i]
      /\ Append(r.players, u)[n + 1] = u
  BY <1>1, AppendProperties
<1>3. /\ Append(r.active, a) \in Seq(SeatStates)
      /\ Len(Append(r.active, a)) = n + 1
      /\ \A i \in 1..n : Append(r.active, a)[i] = r.active[i]
      /\ Append(r.active, a)[n + 1] = a
  BY <1>1, AppendProperties
<1>4. s.players = Append(r.players, u) /\ s.active = Append(r.active, a)
  BY DEF SeatsTyped, RoomType, RoomAddPlayer
<1>5. s \in RoomType
  BY <1>2, <1>3, <1>4 DEF SeatsTyped, RoomType, RoomAddPlayer
<1>6. /\ s.state = r.state /\ s.owner = r.owner
      /\ s.max_players = r.max_players /\ s.game = r.game
      /\ s.total_rounds = r.total_rounds
  BY DEF SeatsTyped, RoomType, RoomAddPlayer
<1> HIDE DEF s, n, a
<1>7. s.active[n + 1] = IF r.state = "PLAYING" THEN "waiting" ELSE "active"
  BY <1>3, <1>4 DEF a
<1> QED BY <1>2, <1>3, <1>4, <1>5, <1>6, <1>7 DEF SeatsTyped, s, n

\* A player added to a room that is not full and does not have the player.
LEMMA AddPlayerGood ==
  ASSUME NEW r, Good(r), Live(r), NEW u \in Users, ~IsFull(r), ~HasPlayer(r, u)
  PROVE  Good(RoomAddPlayer(r, u))
<1> DEFINE s == RoomAddPlayer(r, u)
           n == Len(r.players)
<1>1. /\ SeatsTyped(s)
      /\ Len(s.players) = n + 1
      /\ \A i \in 1..n : s.players[i] = r.players[i] /\ s.active[i] = r.active[i]
      /\ s.players[n + 1] = u
      /\ s.state = r.state /\ s.owner = r.owner
      /\ s.max_players = r.max_players /\ s.game = r.game
  BY AddPlayerSeats DEF Good, Base
<1>2. n \in Nat /\ r.max_players \in Nat
  BY SeatFacts, RoomAssumption DEF Good, Base, SeatsTyped, RoomType
<1> HIDE DEF s, n
<1>3. SeatsDistinct(s)
  <2>1. \A i \in 1..n : r.players[i] # u
    BY DEF HasPlayer, Seats, n
  <2>2. Len(s.players) <= s.max_players
    BY <1>1, <1>2 DEF IsFull, n
  <2>3. \A i, j \in 1..n : r.players[i] = r.players[j] => i = j
    BY DEF Good, Base, SeatsDistinct, Seats, n
  <2>4. \A i \in 1..(n + 1) : i \in 1..n \/ i = n + 1
    BY <1>2
  <2>5. \A i, j \in 1..(n + 1) : s.players[i] = s.players[j] => i = j
    BY <1>1, <2>1, <2>3, <2>4
  <2> QED BY <1>1, <2>2, <2>5 DEF SeatsDistinct, Seats
<1>4. OwnerActive(s)
  <2>1. PICK i \in 1..n : r.players[i] = r.owner /\ r.active[i] = "active"
    BY DEF Good, Base, OwnerActive, IsActive, ActiveSeats, Seats, n
  <2>2. i \in 1..(n + 1)
    BY <1>2
  <2> QED BY <1>1, <2>1, <2>2 DEF OwnerActive, IsActive, ActiveSeats, Seats
<1>5. GameOnlyInPlay(s)
  BY <1>1 DEF Good, Base, GameOnlyInPlay
<1>6. DrawerSeated(s)
  <2> SUFFICES ASSUME r.game.open
      PROVE  /\ r.game.drawer_index \in 1..(n + 1)
             /\ s.players[r.game.drawer_index] = r.game.drawer
             /\ s.active[r.game.drawer_index] = "active"
    BY <1>1 DEF DrawerSeated, Seats
  <2>1. /\ r.game.drawer_index \in 1..n
        /\ r.players[r.game.drawer_index] = r.game.drawer
        /\ r.active[r.game.drawer_index] = "active"
    BY DEF Good, DrawerSeated, Seats, n
  <2> QED BY <1>1, <1>2, <2>1
<1> QED BY <1>1, <1>3, <1>4, <1>5, <1>6 DEF Good, Base, s

\* A sequence that has the same value everywhere.
LEMMA ConstantSeq ==
  ASSUME NEW S, NEW v \in S, NEW n \in Nat
  PROVE  [i \in 1..n |-> v] \in Seq(S) /\ Len([i \in 1..n |-> v]) = n
<1> DEFINE f == [i \in 1..n |-> v]
<1>1. f \in Seq(S)
  BY SeqDef
<1>2. Len(f) \in Nat /\ DOMAIN f = 1..Len(f)
  BY <1>1, LenProperties
<1>3. DOMAIN f = 1..n
  OBVIOUS
<1> HIDE DEF f
<1>4. ASSUME NEW m \in Nat, 1..m = 1..n  PROVE m = n
  <2>1. m > 0 => m \in 1..n
    BY <1>4
  <2>2. n > 0 => n \in 1..m
    BY <1>4
  <2> QED BY <2>1, <2>2
<1>5. Len(f) = n
  BY <1>2, <1>3, <1>4
<1> QED BY <1>1, <1>5 DEF f

\* game_init yields a game that has no open round and whose drawer has a seat.
LEMMA GameInitTyped ==
  ASSUME NEW r, SeatsTyped(r), Len(r.players) >= 1
  PROVE  /\ GameInit(r) \in GameType
         /\ ~GameInit(r).open
         /\ GameInit(r).drawer_index \in Seats(r)
<1> DEFINE g == GameInit(r)
           T == {Len(r.players) * r.total_rounds, MaxWordsStack}
           d == IF HasPlayer(r, r.owner) THEN SeatOf(r, r.owner) ELSE 1
<1>1. Min(T) \in Nat
  <2>1. Len(r.players) \in Nat /\ r.total_rounds \in Nat
    BY SeatFacts DEF SeatsTyped, RoomType
  <2>2. Len(r.players) * r.total_rounds \in Nat
    BY <2>1
  <2>3. T \subseteq Nat /\ T # {}
    BY <2>2, GameAssumption
  <2> HIDE DEF T
  <2> QED BY <2>3, NatMin
<1>2. d \in Seats(r) /\ d \in Nat \ {0}
  <2>1. SeatOf(r, r.owner) \in Seats(r) \/ ~HasPlayer(r, r.owner)
    BY SeatOfUser
  <2>2. 1 \in Seats(r)
    BY SeatFacts DEF Seats
  <2>3. d \in Seats(r)
    BY <2>1, <2>2
  <2> QED BY <2>3, SeatFacts DEF Seats
<1>3. ZeroScores(r) \in ScoreTables
  BY DEF ZeroScores, ScoreTables, NoEntry
<1>4. <<>> \in Seq(Users)
  BY EmptySeq
<1>5. g = [round |-> 0, total |-> Min(T), drawer |-> NoUser, drawer_index |-> d,
           open |-> FALSE, scores |-> ZeroScores(r), guessed |-> <<>>]
  BY DEF GameInit
<1> HIDE DEF d, T, g
<1> QED BY <1>1, <1>2, <1>3, <1>4, <1>5 DEF GameType, g

\* room_start_game makes every seat active and keeps who sits where.
LEMMA StartGameGood ==
  ASSUME NEW r, Base(r), CanStart(r)
  PROVE  LET s == RoomStartGame(r)
         IN  /\ Good(s)
             /\ s.state = "PLAYING"
             /\ s.game.drawer_index \in ActiveSeats(s)
<1> DEFINE f == [i \in Seats(r) |-> "active"]
           t == [r EXCEPT !.state = "PLAYING", !.active = f]
           s == [t EXCEPT !.game = GameInit(t)]
           n == Len(r.players)
<1>1. n \in Nat /\ n >= 2 /\ r \in RoomType /\ SeatsTyped(r)
  BY SeatFacts DEF Base, SeatsTyped, CanStart
<1>2. f \in Seq(SeatStates) /\ Len(f) = n /\ \A i \in Seats(r) : f[i] = "active"
  BY <1>1, ConstantSeq DEF SeatStates, Seats
<1> HIDE DEF f
<1>3. /\ t \in RoomType /\ t.players = r.players /\ t.active = f
      /\ t.state = "PLAYING" /\ t.owner = r.owner /\ t.max_players = r.max_players
  BY <1>1, <1>2 DEF RoomType, RoomStates
<1>4. SeatsTyped(t) /\ Seats(t) = Seats(r)
  BY <1>2, <1>3 DEF SeatsTyped, Seats
<1>5. /\ GameInit(t) \in GameType /\ ~GameInit(t).open
      /\ GameInit(t).drawer_index \in Seats(t)
  <2> HIDE DEF t
  <2> QED BY <1>1, <1>3, <1>4, GameInitTyped
<1>6. /\ s \in RoomType /\ s.players = r.players /\ s.active = f
      /\ s.state = "PLAYING" /\ s.owner = r.owner /\ s.max_players = r.max_players
      /\ s.game = GameInit(t)
  <2> HIDE DEF t
  <2> QED BY <1>3, <1>5 DEF RoomType
<1>7. s = RoomStartGame(r)
  BY DEF RoomStartGame, f
<1> HIDE DEF s, t
<1>8. SeatsTyped(s) /\ Seats(s) = Seats(r) /\ ActiveSeats(s) = Seats(r)
  BY <1>2, <1>6 DEF SeatsTyped, Seats, ActiveSeats
<1>9. SeatsDistinct(s)
  BY <1>6, <1>8 DEF Base, SeatsDistinct
<1>10. OwnerActive(s)
  <2>1. \E i \in Seats(r) : r.players[i] = r.owner
    BY DEF Base, OwnerActive, Live, CanStart, IsActive, ActiveSeats
  <2> QED BY <1>6, <1>8, <2>1 DEF OwnerActive, IsActive
<1>11. GameOnlyInPlay(s) /\ DrawerSeated(s)
  BY <1>5, <1>6 DEF GameOnlyInPlay, DrawerSeated
<1> QED BY <1>4, <1>5, <1>6, <1>7, <1>8, <1>9, <1>10, <1>11 DEF Good, Base

\* A round that is opened for an active seat has its drawer in that seat.
LEMMA OpenRoundGood ==
  ASSUME NEW r, Base(r), r.state = "PLAYING",
         NEW k \in Nat, NEW i \in ActiveSeats(r)
  PROVE  Good(OpenRound(r, k, i))
<1> DEFINE s == OpenRound(r, k, i)
<1>1. r \in RoomType /\ r.game \in GameType /\ SeatsTyped(r)
  BY DEF Base, SeatsTyped, RoomType
<1>2. i \in Seats(r) /\ r.players[i] \in Users /\ r.active[i] = "active" /\ i \in Nat \ {0}
  BY <1>1, SeatFacts DEF ActiveSeats, Seats
<1>3. <<>> \in Seq(Users)
  BY EmptySeq
<1>4. s.game = [r.game EXCEPT !.round = k, !.drawer_index = i, !.drawer = r.players[i],
                              !.open = TRUE, !.guessed = <<>>]
  BY <1>1 DEF OpenRound, RoomType, GameType
<1>5. s.game \in GameType
  BY <1>1, <1>2, <1>3, <1>4 DEF GameType
<1>6. /\ s \in RoomType /\ s.players = r.players /\ s.active = r.active
      /\ s.state = r.state /\ s.owner = r.owner /\ s.max_players = r.max_players
  BY <1>1, <1>5 DEF OpenRound, RoomType
<1>7. s.game.drawer_index = i /\ s.game.drawer = r.players[i]
  BY <1>1, <1>4 DEF GameType
<1> HIDE DEF s
<1> QED
  BY <1>1, <1>2, <1>6, <1>7 DEF Good, Base, SeatsTyped, SeatsDistinct, OwnerActive, GameOnlyInPlay,
     DrawerSeated, IsActive, ActiveSeats, Seats, Live, s

-----------------------------------------------------------------------------
\* JOIN_ROOM leaves a good room, whether or not it starts the game.
LEMMA EnterRoomGood ==
  ASSUME NEW r, Good(r), Live(r), NEW u \in Users, ~IsFull(r), ~HasPlayer(r, u)
  PROVE  Good(EnterRoom(r, u))
<1> DEFINE s == RoomAddPlayer(r, u)
<1>1. Good(s)
  BY AddPlayerGood
<1> HIDE DEF s
<1>2. CanStart(s) => Good(RoomStartGame(s))
  BY <1>1, StartGameGood DEF Good
<1>3. EnterRoom(r, u) = IF IsFull(s) /\ CanStart(s) THEN RoomStartGame(s) ELSE s
  BY DEF EnterRoom, s
<1> QED BY <1>1, <1>2, <1>3

\* room_end_game keeps the seats and the owner.
LEMMA EndGameGood ==
  ASSUME NEW r, Base(r), IsActive(r, r.owner)
  PROVE  LET s == RoomEndGame(r)
         IN  Good(s) /\ s.state = "FINISHED" /\ IsActive(s, s.owner)
<1> DEFINE s == RoomEndGame(r)
<1>1. SeatsTyped(r) /\ SeatsDistinct(r) /\ r \in RoomType
  BY DEF Base, SeatsTyped
<1>2. /\ s \in RoomType /\ s.players = r.players /\ s.active = r.active
      /\ s.state = "FINISHED" /\ s.owner = r.owner /\ s.max_players = r.max_players
      /\ s.game = NoGame
  BY <1>1, NoGameTyped DEF RoomEndGame, RoomType, RoomStates
<1> HIDE DEF s
<1>3. ~s.game.open
  BY <1>2 DEF NoGame
<1>4. IsActive(s, s.owner)
  BY <1>2 DEF IsActive, ActiveSeats, Seats
<1> QED
  BY <1>1, <1>2, <1>3, <1>4 DEF Good, Base, SeatsTyped, SeatsDistinct, OwnerActive, GameOnlyInPlay,
     DrawerSeated, Seats, s

\* The rotation never leaves the table.
LEMMA SeatAfterSeat ==
  ASSUME NEW r, SeatsTyped(r), Len(r.players) >= 1, NEW k \in Nat
  PROVE  SeatAfter(r, k) \in Seats(r)
<1> DEFINE n == Len(r.players)
           x == r.game.drawer_index - 1 + k
<1>1. n \in Nat /\ n >= 1
  BY SeatFacts
<1>2. x \in Nat
  BY DEF SeatsTyped, RoomType, GameType
<1> HIDE DEF n, x
<1>3. x % n \in 0..(n - 1)
  BY <1>1, <1>2
<1>4. (x % n) + 1 \in 1..n
  BY <1>1, <1>3
<1> QED BY <1>4 DEF SeatAfter, Seats, n, x

\* Ending a round leaves a good room: a new round, or the end of the game.
LEMMA NextRoundGood ==
  ASSUME NEW r, Base(r), r.state = "PLAYING"
  PROVE  Good(NextRound(r))
<1>1. SeatsTyped(r) /\ IsActive(r, r.owner)
  BY DEF Base, OwnerActive, Live
<1>2. Len(r.players) >= 1
  BY <1>1, SeatFacts DEF IsActive, ActiveSeats, Seats
<1>3. r.game.round \in Nat /\ r.game.total \in Nat
  BY <1>1 DEF SeatsTyped, RoomType, GameType
<1>4. CASE Attempts(r) = {}
  BY <1>1, <1>4, EndGameGood DEF NextRound
<1>5. CASE Attempts(r) # {}
  <2> DEFINE k == Min(Attempts(r))
  <2>1. Attempts(r) \subseteq Nat
    BY DEF Attempts
  <2>2. k \in Attempts(r)
    BY <1>5, <2>1, NatMin
  <2>3. k \in Nat
    BY <2>1, <2>2
  <2>4. r.active[SeatAfter(r, k)] = "active"
    BY <2>2 DEF Attempts
  <2> HIDE DEF k
  <2>5. SeatAfter(r, k) \in ActiveSeats(r)
    BY <1>1, <1>2, <2>3, <2>4, SeatAfterSeat DEF ActiveSeats
  <2>6. r.game.round + k \in Nat
    BY <1>3, <2>3
  <2>7. Good(OpenRound(r, r.game.round + k, SeatAfter(r, k)))
    BY <2>5, <2>6, OpenRoundGood
  <2> QED BY <1>5, <2>7 DEF NextRound, k
<1> QED BY <1>4, <1>5

-----------------------------------------------------------------------------
\* An award makes a score table of a score table.
LEMMA AddPointsTyped ==
  ASSUME NEW r, NEW t \in ScoreTables, NEW u \in Users, NEW p \in Nat
  PROVE  AddPoints(r, t, u, p) \in ScoreTables
<1> DEFINE w == IF t[u] # NoEntry THEN t ELSE ZeroScores(r)
<1>1. w \in ScoreTables
  BY DEF ZeroScores, ScoreTables
<1>2. w[u] + p \in Nat \cup {NoEntry}
  <2>1. CASE t[u] # NoEntry
    BY <2>1 DEF ScoreTables, NoEntry
  <2>2. CASE t[u] = NoEntry
    BY <2>2 DEF ScoreTables, NoEntry, ZeroScores
  <2> QED BY <2>1, <2>2
<1>3. AddPoints(r, t, u, p) = [w EXCEPT ![u] = w[u] + p]
  BY DEF AddPoints
<1> HIDE DEF w
<1> QED BY <1>1, <1>2, <1>3 DEF ScoreTables

\* A correct guess touches only the score table and the list of finders.
LEMMA HandleGuessGood ==
  ASSUME NEW r, Good(r), r.state = "PLAYING", r.game.open, NEW u \in Users
  PROVE  LET s == GameHandleGuess(r, u)
         IN  Good(s) /\ s.state = "PLAYING"
<1> DEFINE g == r.game
           order == Len(g.guessed) + 1
           mine == AddPoints(r, g.scores, u, GuesserPoints(order))
           table == AddPoints(r, mine, g.drawer, DrawerPoints(order))
           found == IF Len(g.guessed) < MaxPlayersPerRoom
                    THEN Append(g.guessed, u) ELSE g.guessed
           s == [r EXCEPT !.game.scores = table, !.game.guessed = found]
<1>1. CASE HasGuessed(r, u)
  BY <1>1 DEF GameHandleGuess
<1>2. CASE ~HasGuessed(r, u)
  <2>1. r \in RoomType /\ g \in GameType /\ SeatsTyped(r)
    BY DEF Good, Base, SeatsTyped, RoomType
  <2>2. g.drawer \in Users
    BY <2>1, SeatFacts DEF Good, DrawerSeated
  <2>3. GuesserPoints(order) \in Nat /\ DrawerPoints(order) \in Nat
    BY DEF GuesserPoints, DrawerPoints
  <2>4. g.scores \in ScoreTables
    BY <2>1 DEF GameType
  <2>5. mine \in ScoreTables
    <3> HIDE DEF order
    <3> QED BY <2>3, <2>4, AddPointsTyped
  <2>6. table \in ScoreTables
    <3> HIDE DEF order, mine
    <3> QED BY <2>2, <2>3, <2>5, AddPointsTyped
  <2>7. found \in Seq(Users)
    BY <2>1, AppendProperties DEF GameType
  <2>8. GameHandleGuess(r, u) = s
    BY <1>2 DEF GameHandleGuess
  <2> HIDE DEF table, found
  <2>9. s.game = [g EXCEPT !.scores = table, !.guessed = found]
    BY <2>1 DEF RoomType, GameType
  <2>10. /\ s.game \in GameType /\ s.game.drawer = g.drawer
         /\ s.game.drawer_index = g.drawer_index
    <3> HIDE DEF g, s
    <3> QED BY <2>1, <2>6, <2>7, <2>9 DEF GameType
  <2>11. /\ s \in RoomType /\ s.players = r.players /\ s.active = r.active
         /\ s.state = r.state /\ s.owner = r.owner /\ s.max_players = r.max_players
    BY <2>1, <2>10 DEF RoomType
  <2> HIDE DEF s
  <2>12. Good(s)
    BY <2>1, <2>10, <2>11 DEF Good, Base, SeatsTyped, SeatsDistinct, OwnerActive,
       GameOnlyInPlay, DrawerSeated, IsActive, ActiveSeats, Seats, Live
  <2> QED BY <2>8, <2>11, <2>12
<1> QED BY <1>1, <1>2

\* A correct guess, with the next round when everybody has found the word.
LEMMA ProcessGuessGood ==
  ASSUME NEW r, Good(r), r.state = "PLAYING", r.game.open, NEW u \in Users
  PROVE  Good(ProcessGuess(r, u))
<1> DEFINE s == GameHandleGuess(r, u)
<1>1. Good(s) /\ s.state = "PLAYING"
  BY HandleGuessGood
<1>2. ProcessGuess(r, u) = IF AllFound(s) THEN NextRound(s) ELSE s
  BY DEF ProcessGuess
<1> HIDE DEF s
<1> QED BY <1>1, <1>2, NextRoundGood DEF Good

-----------------------------------------------------------------------------
(***************************************************************************)
(* room_remove_player.  Vacated(r, u) is the room before the owner role is *)
(* passed on: the seat is marked during a game and shifted over otherwise. *)
(***************************************************************************)
Vacated(r, u) ==
  IF r.state = "PLAYING"
  THEN [r EXCEPT !.active[SeatOf(r, u)] = "left"]
  ELSE [r EXCEPT !.players = RemoveAt(@, SeatOf(r, u)),
                 !.active  = RemoveAt(@, SeatOf(r, u))]

\* What stays the same in a room one of whose seats is marked.
LEMMA MarkSeat ==
  ASSUME NEW r, SeatsTyped(r), SeatsDistinct(r), r.state = "PLAYING",
         NEW u \in Users, HasPlayer(r, u)
  PROVE  LET s == Vacated(r, u)
         IN  /\ SeatsTyped(s) /\ SeatsDistinct(s)
             /\ s.players = r.players
             /\ \A i \in Seats(r) : r.players[i] # u => s.active[i] = r.active[i]
             /\ ActiveSeats(s) \subseteq ActiveSeats(r)
             /\ s.state = r.state /\ s.owner = r.owner /\ s.game = r.game
             /\ s.total_rounds = r.total_rounds
<1> DEFINE k == SeatOf(r, u)
           a == [r.active EXCEPT ![k] = "left"]
           s == [r EXCEPT !.active = a]
<1>1. k \in Seats(r) /\ r.players[k] = u
  BY SeatOfUser
<1>2. r \in RoomType /\ r.active \in Seq(SeatStates) /\ Len(r.active) = Len(r.players)
  BY DEF SeatsTyped, RoomType
<1>3. Vacated(r, u) = s
  BY <1>2 DEF Vacated, RoomType
<1> HIDE DEF k
<1>4. /\ a \in Seq(SeatStates) /\ Len(a) = Len(r.active)
      /\ \A i \in Seats(r) : i # k => a[i] = r.active[i]
      /\ a[k] = "left"
  BY <1>1, <1>2, ExceptSeq DEF Seats, SeatStates
<1> HIDE DEF a
<1>5. /\ s \in RoomType /\ s.players = r.players /\ s.active = a
      /\ s.state = r.state /\ s.owner = r.owner /\ s.game = r.game
      /\ s.max_players = r.max_players /\ s.total_rounds = r.total_rounds
  BY <1>2, <1>4 DEF RoomType
<1> HIDE DEF s
<1>6. SeatsTyped(s) /\ SeatsDistinct(s)
  BY <1>2, <1>4, <1>5 DEF SeatsTyped, SeatsDistinct, Seats
<1>7. ActiveSeats(s) \subseteq ActiveSeats(r)
  BY <1>1, <1>4, <1>5 DEF ActiveSeats, Seats
<1> QED BY <1>1, <1>3, <1>4, <1>5, <1>6, <1>7

\* What stays the same in a room one of whose seats is shifted over.
LEMMA ShiftSeat ==
  ASSUME NEW r, SeatsTyped(r), SeatsDistinct(r), r.state # "PLAYING",
         NEW u \in Users, HasPlayer(r, u)
  PROVE  LET s == Vacated(r, u)
         IN  /\ SeatsTyped(s) /\ SeatsDistinct(s)
             /\ \A i \in Seats(r) : r.players[i] # u =>
                  \E j \in Seats(s) : /\ s.players[j] = r.players[i]
                                      /\ s.active[j] = r.active[i]
             /\ s.state = r.state /\ s.owner = r.owner /\ s.game = r.game
             /\ s.total_rounds = r.total_rounds
<1> DEFINE k == SeatOf(r, u)
           p == RemoveAt(r.players, k)
           a == RemoveAt(r.active, k)
           n == Len(r.players)
           s == [r EXCEPT !.players = p, !.active = a]
<1>1. k \in 1..n /\ r.players[k] = u /\ n \in Nat
  BY SeatOfUser, SeatFacts DEF Seats
<1>2. /\ r \in RoomType /\ r.active \in Seq(SeatStates) /\ Len(r.active) = n
      /\ r.players \in Seq(Users) /\ r.max_players \in Nat
  BY RoomAssumption DEF SeatsTyped, RoomType
<1>3. Vacated(r, u) = s
  BY <1>2 DEF Vacated, RoomType
<1> HIDE DEF k
<1>4. /\ p \in Seq(Users) /\ Len(p) = n - 1
      /\ \A j \in 1..(n - 1) :
           p[j] = IF j < k THEN r.players[j] ELSE r.players[j + 1]
  BY <1>1, <1>2, RemoveAtSeat
<1>5. /\ a \in Seq(SeatStates) /\ Len(a) = n - 1
      /\ \A j \in 1..(n - 1) :
           a[j] = IF j < k THEN r.active[j] ELSE r.active[j + 1]
  <2> HIDE DEF n
  <2>1. k \in 1..Len(r.active)
    BY <1>1, <1>2
  <2> QED BY <1>2, <2>1, RemoveAtSeat
<1> HIDE DEF p, a
<1>6. /\ s \in RoomType /\ s.players = p /\ s.active = a
      /\ s.state = r.state /\ s.owner = r.owner /\ s.game = r.game
      /\ s.max_players = r.max_players /\ s.total_rounds = r.total_rounds
  BY <1>2, <1>4, <1>5 DEF RoomType
<1> HIDE DEF s
<1>7. SeatsTyped(s) /\ Seats(s) = 1..(n - 1)
  BY <1>4, <1>5, <1>6 DEF SeatsTyped, Seats
<1>8. SeatsDistinct(s)
  <2>1. ASSUME NEW i \in 1..(n - 1), NEW j \in 1..(n - 1), p[i] = p[j]
        PROVE  i = j
    <3> DEFINE x == IF i < k THEN i ELSE i + 1
               y == IF j < k THEN j ELSE j + 1
    <3>1. x \in 1..n /\ y \in 1..n
      BY <1>1
    <3>2. r.players[x] = r.players[y]
      BY <1>4, <2>1
    <3>3. x = y
      <4> HIDE DEF x, y
      <4> QED BY <3>1, <3>2 DEF SeatsDistinct, Seats, n
    <3> QED BY <1>1, <3>3
  <2>2. n - 1 <= s.max_players
    BY <1>1, <1>2, <1>6 DEF SeatsDistinct
  <2> QED BY <1>4, <1>6, <1>7, <2>1, <2>2 DEF SeatsDistinct
<1>9. ASSUME NEW i \in 1..n, r.players[i] # u
      PROVE  \E j \in 1..(n - 1) : p[j] = r.players[i] /\ a[j] = r.active[i]
  <2> DEFINE j == IF i < k THEN i ELSE i - 1
  <2>1. i # k
    BY <1>1, <1>9
  <2>2. j \in 1..(n - 1) /\ (IF j < k THEN j ELSE j + 1) = i
    BY <1>1, <2>1
  <2>3. p[j] = r.players[i] /\ a[j] = r.active[i]
    BY <1>4, <1>5, <2>2
  <2> QED BY <2>2, <2>3
<1> HIDE DEF n
<1> QED BY <1>3, <1>6, <1>7, <1>8, <1>9 DEF Seats, n

\* Passing the owner role on restores an active owner when somebody is active.
LEMMA RemovePlayerBase ==
  ASSUME NEW r, Good(r), Live(r), NEW u \in Users, HasPlayer(r, u),
         ActiveSeats(RoomRemovePlayer(r, u)) # {}
  PROVE  LET s == RoomRemovePlayer(r, u)
         IN  /\ Base(s) /\ IsActive(s, s.owner)
             /\ s.state = r.state
             /\ r.game.open /\ r.game.drawer # u => DrawerSeated(s)
             /\ s.game = r.game /\ s.total_rounds = r.total_rounds
             /\ r.state = "PLAYING" =>
                  s.players = r.players /\ ActiveSeats(s) \subseteq ActiveSeats(r)
<1> DEFINE v == Vacated(r, u)
           s == PassOwnership(v, u)
<1>1. SeatsTyped(r) /\ SeatsDistinct(r) /\ IsActive(r, r.owner)
  BY DEF Good, Base, OwnerActive
<1>2. /\ SeatsTyped(v) /\ SeatsDistinct(v)
      /\ v.state = r.state /\ v.owner = r.owner /\ v.game = r.game
      /\ v.total_rounds = r.total_rounds
      /\ r.state = "PLAYING" =>
           v.players = r.players /\ ActiveSeats(v) \subseteq ActiveSeats(r)
  <2>1. CASE r.state = "PLAYING"
    BY <1>1, <2>1, MarkSeat
  <2>2. CASE r.state # "PLAYING"
    BY <1>1, <2>2, ShiftSeat
  <2> QED BY <2>1, <2>2
<1>3. ASSUME r.owner # u  PROVE IsActive(v, r.owner)
  <2>1. PICK i \in Seats(r) : r.players[i] = r.owner /\ r.active[i] = "active"
    BY <1>1 DEF IsActive, ActiveSeats
  <2>2. CASE r.state = "PLAYING"
    <3>1. v.players = r.players /\ v.active[i] = "active"
      BY <1>1, <1>3, <2>1, <2>2, MarkSeat
    <3> QED BY <2>1, <3>1 DEF IsActive, ActiveSeats, Seats
  <2>3. CASE r.state # "PLAYING"
    <3>1. PICK j \in Seats(v) : v.players[j] = r.owner /\ v.active[j] = "active"
      BY <1>1, <1>3, <2>1, <2>3, ShiftSeat
    <3> QED BY <3>1 DEF IsActive, ActiveSeats
  <2> QED BY <2>2, <2>3
<1>4. RoomRemovePlayer(r, u) = s
  BY DEF RoomRemovePlayer, Vacated
<1>5. ASSUME r.game.open, r.game.drawer # u
      PROVE  /\ v.game.drawer_index \in Seats(v)
             /\ v.players[v.game.drawer_index] = v.game.drawer
             /\ v.active[v.game.drawer_index] = "active"
  <2>1. r.state = "PLAYING"
    BY <1>5 DEF Good, Base, GameOnlyInPlay, NoGame
  <2>2. /\ r.game.drawer_index \in Seats(r)
        /\ r.players[r.game.drawer_index] = r.game.drawer
        /\ r.active[r.game.drawer_index] = "active"
    BY <1>5 DEF Good, DrawerSeated
  <2>3. v.players = r.players /\ v.active[r.game.drawer_index] = "active"
    BY <1>1, <1>5, <2>1, <2>2, MarkSeat
  <2> QED BY <1>2, <2>2, <2>3 DEF Seats
<1> HIDE DEF v
<1>6. /\ s \in RoomType /\ s.players = v.players /\ s.active = v.active
      /\ s.state = v.state /\ s.game = v.game /\ s.max_players = v.max_players
      /\ s.total_rounds = v.total_rounds
      /\ ActiveSeats(s) = ActiveSeats(v)
      /\ ActiveSeats(v) # {} => IsActive(s, s.owner)
  <2>1. v \in RoomType
    BY <1>2 DEF SeatsTyped
  <2>2. CASE u = v.owner /\ ActiveSeats(v) # {}
    <3> DEFINE f == FirstActive(v)
    <3>1. f \in Users /\ IsActive(v, f)
      BY <1>2, <2>2, FirstActiveIsActive
    <3> HIDE DEF f
    <3>2. s = [v EXCEPT !.owner = f]
      BY <2>2 DEF PassOwnership, f
    <3> QED BY <2>1, <3>1, <3>2 DEF RoomType, IsActive, ActiveSeats, Seats
  <2>3. CASE ~(u = v.owner /\ ActiveSeats(v) # {})
    <3>1. s = v
      BY <2>3 DEF PassOwnership
    <3>2. ActiveSeats(v) # {} => IsActive(v, v.owner)
      BY <1>2, <1>3, <2>3
    <3> QED BY <2>1, <3>1, <3>2
  <2> QED BY <2>2, <2>3
<1> HIDE DEF s
<1>7. ActiveSeats(s) # {} /\ IsActive(s, s.owner)
  <2>1. ActiveSeats(s) # {}
    BY <1>4, Zenon
  <2> QED BY <1>6, <2>1
<1>8. Base(s)
  BY <1>2, <1>6, <1>7 DEF Good, Base, SeatsTyped, SeatsDistinct, OwnerActive, GameOnlyInPlay, Seats
<1>9. r.game.open /\ r.game.drawer # u => DrawerSeated(s)
  BY <1>5, <1>6 DEF DrawerSeated, Seats
<1> QED BY <1>2, <1>4, <1>6, <1>7, <1>8, <1>9

\* The whole leave code: destroy the room, end its game, or pass the turn on.
LEMMA LeaveRoomGood ==
  ASSUME NEW r, Good(r), Live(r), NEW u \in Users, HasPlayer(r, u)
  PROVE  Good(LeaveRoom(r, u))
<1> DEFINE s == RoomRemovePlayer(r, u)
           endGame == r.state = "PLAYING" /\ TooFewToPlay(s)
           kept == EnsureActiveOwner(IF endGame THEN RoomEndGame(s) ELSE s)
<1>1. LeaveRoom(r, u) = IF ActiveSeats(s) = {} THEN Destroyed
                        ELSE IF RoundOfDrawer(r, u) /\ ~endGame THEN NextRound(kept)
                        ELSE kept
  BY DEF LeaveRoom
<1>2. CASE ActiveSeats(s) = {}
  BY <1>1, <1>2, NoRoomGood
<1>3. CASE ActiveSeats(s) # {}
  <2>1. /\ Base(s) /\ IsActive(s, s.owner) /\ s.state = r.state
        /\ r.game.open /\ r.game.drawer # u => DrawerSeated(s)
        /\ s.game = r.game
    BY <1>3, RemovePlayerBase
  <2> HIDE DEF s
  <2>2. CASE endGame
    <3>1. Good(RoomEndGame(s)) /\ IsActive(RoomEndGame(s), RoomEndGame(s).owner)
      BY <2>1, EndGameGood
    <3>2. kept = RoomEndGame(s)
      BY <2>2, <3>1 DEF EnsureActiveOwner
    <3> QED BY <1>1, <1>3, <2>2, <3>1, <3>2
  <2>3. CASE ~endGame
    <3>1. kept = s
      BY <2>1, <2>3 DEF EnsureActiveOwner
    <3>2. CASE RoundOfDrawer(r, u)
      <4>1. s.state = "PLAYING"
        BY <2>1, <3>2 DEF RoundOfDrawer
      <4> QED BY <1>1, <1>3, <2>1, <2>3, <3>1, <3>2, <4>1, NextRoundGood
    <3>3. CASE ~RoundOfDrawer(r, u)
      <4>1. r.game.open => r.state = "PLAYING"
        BY DEF Good, Base, GameOnlyInPlay, NoGame
      <4>2. DrawerSeated(s)
        BY <2>1, <3>3, <4>1 DEF RoundOfDrawer, DrawerSeated
      <4> QED BY <1>1, <1>3, <2>1, <2>3, <3>1, <3>3, <4>2 DEF Good
    <3> QED BY <3>2, <3>3
  <2> QED BY <2>2, <2>3
<1> QED BY <1>2, <1>3

-----------------------------------------------------------------------------
(***************************************************************************)
(* The course of a game.  Playable(r) is what NextRound needs to hand over *)
(* a sound room: rounds left to count, two active players, and an entry in *)
(* the score table for everyone who may become the drawer.  Sound(r) adds  *)
(* what holds between two handlers only: a round is open, and the list of  *)
(* those who have found the word is in order.                              *)
(***************************************************************************)
RoundsCounted(r) ==
  /\ Live(r) => r.total_rounds >= 1
  /\ r.state = "PLAYING" => r.game.total >= 1
  /\ r.game.round <= r.game.total

EnoughActive(r) == r.state = "PLAYING" => ActiveCount(r) >= 2

ActiveScored(r) ==
  r.state = "PLAYING" =>
    \A i \in ActiveSeats(r) : r.game.scores[r.players[i]] # NoEntry

Playable(r) == RoundsCounted(r) /\ EnoughActive(r) /\ ActiveScored(r)

RoundOpen(r) == r.state = "PLAYING" /\ r.game.round > 0 => r.game.open

FindersListed(r) ==
  r.game.open =>
    /\ \A i \in 1..Len(r.game.guessed) :
         /\ HasPlayer(r, r.game.guessed[i])
         /\ r.game.guessed[i] # r.game.drawer
         /\ r.game.scores[r.game.guessed[i]] # NoEntry
    /\ \A i, j \in 1..Len(r.game.guessed) :
         r.game.guessed[i] = r.game.guessed[j] => i = j

Sound(r) == Playable(r) /\ RoundOpen(r) /\ FindersListed(r)

-----------------------------------------------------------------------------
\* A room that is not playing has nothing to be sound about but its rounds.
LEMMA IdleSound ==
  ASSUME NEW r, r.state # "PLAYING", r.game = NoGame, Live(r) => r.total_rounds >= 1
  PROVE  Sound(r)
  BY DEF Sound, Playable, RoundsCounted, EnoughActive, ActiveScored, RoundOpen,
     FindersListed, NoGame

\* The number of active seats is a number.
LEMMA ActiveCountNat ==
  ASSUME NEW r, SeatsTyped(r)
  PROVE  IsFiniteSet(ActiveSeats(r)) /\ ActiveCount(r) \in Nat
<1>1. IsFiniteSet(Seats(r))
  <2>1. 1 \in Int /\ Len(r.players) \in Int
    BY SeatFacts
  <2> QED BY <2>1, FS_Interval DEF Seats
<1>2. ActiveSeats(r) \subseteq Seats(r)
  BY DEF ActiveSeats
<1> QED BY <1>1, <1>2, FS_Subset, FS_CardinalityType DEF ActiveCount

\* The fields of a room in which a round has been opened.
LEMMA OpenRoundFields ==
  ASSUME NEW r, r \in RoomType, NEW k, NEW i
  PROVE  LET s == OpenRound(r, k, i)
         IN  /\ s.state = r.state /\ s.owner = r.owner
             /\ s.players = r.players /\ s.active = r.active
             /\ s.total_rounds = r.total_rounds
             /\ s.game.round = k /\ s.game.total = r.game.total
             /\ s.game.drawer_index = i /\ s.game.drawer = r.players[i]
             /\ s.game.open /\ s.game.scores = r.game.scores
             /\ s.game.guessed = <<>>
<1>1. r.game \in GameType
  BY DEF RoomType
<1>2. OpenRound(r, k, i).game =
        [r.game EXCEPT !.round = k, !.drawer_index = i, !.drawer = r.players[i],
                       !.open = TRUE, !.guessed = <<>>]
  BY <1>1 DEF OpenRound, RoomType, GameType
<1>3. /\ OpenRound(r, k, i).state = r.state /\ OpenRound(r, k, i).owner = r.owner
      /\ OpenRound(r, k, i).players = r.players /\ OpenRound(r, k, i).active = r.active
      /\ OpenRound(r, k, i).total_rounds = r.total_rounds
  BY DEF OpenRound, RoomType
<1> QED BY <1>1, <1>2, <1>3 DEF GameType

\* A round that is opened in a playable room leaves a sound room.
LEMMA OpenRoundSound ==
  ASSUME NEW r, Base(r), Playable(r), r.state = "PLAYING",
         NEW k \in Nat, k <= r.game.total, NEW i
  PROVE  Sound(OpenRound(r, k, i))
<1> DEFINE s == OpenRound(r, k, i)
<1>1. /\ s.state = r.state /\ s.players = r.players /\ s.active = r.active
      /\ s.total_rounds = r.total_rounds
      /\ s.game.round = k /\ s.game.total = r.game.total
      /\ s.game.open /\ s.game.scores = r.game.scores /\ s.game.guessed = <<>>
  BY OpenRoundFields DEF Base, SeatsTyped
<1> HIDE DEF s
<1>2. Playable(s)
  BY <1>1 DEF Playable, RoundsCounted, EnoughActive, ActiveScored, ActiveCount,
     ActiveSeats, Seats, Live
<1>3. FindersListed(s)
  BY <1>1, EmptySeq DEF FindersListed
<1> QED BY <1>1, <1>2, <1>3 DEF Sound, RoundOpen, s

\* Ending the game of a room leaves a sound room.
LEMMA EndGameSound ==
  ASSUME NEW r, r \in RoomType, RoundsCounted(r), Live(r)
  PROVE  Sound(RoomEndGame(r))
<1>1. /\ RoomEndGame(r).state = "FINISHED" /\ RoomEndGame(r).game = NoGame
      /\ RoomEndGame(r).total_rounds = r.total_rounds
  BY DEF RoomEndGame, RoomType
<1> QED BY <1>1, IdleSound DEF RoundsCounted

(***************************************************************************)
(* Ending a round ends the game, when no attempt would open another round, *)
(* or opens the round of the first attempt that succeeds.                  *)
(***************************************************************************)
LEMMA NextRoundCases ==
  ASSUME NEW r
  PROVE  \/ Attempts(r) = {} /\ NextRound(r) = RoomEndGame(r)
         \/ \E k \in Attempts(r) :
              /\ \A j \in Attempts(r) : k <= j
              /\ NextRound(r) = OpenRound(r, r.game.round + k, SeatAfter(r, k))
<1>1. CASE Attempts(r) = {}
  BY <1>1 DEF NextRound
<1>2. CASE Attempts(r) # {}
  <2> DEFINE k == Min(Attempts(r))
  <2>1. Attempts(r) \subseteq Nat
    BY DEF Attempts
  <2>2. k \in Attempts(r) /\ \A j \in Attempts(r) : k <= j
    BY <1>2, <2>1, NatMin
  <2>3. NextRound(r) = OpenRound(r, r.game.round + k, SeatAfter(r, k))
    BY <1>2 DEF NextRound
  <2> QED BY <2>2, <2>3
<1> QED BY <1>1, <1>2

\* Ending a round of a playable room leaves a sound room.
LEMMA NextRoundSound ==
  ASSUME NEW r, Base(r), Playable(r), r.state = "PLAYING"
  PROVE  Sound(NextRound(r))
<1>1. r \in RoomType /\ r.game.round \in Nat /\ r.game.total \in Nat
  BY DEF Base, SeatsTyped, RoomType, GameType
<1>2. CASE NextRound(r) = RoomEndGame(r)
  BY <1>1, <1>2, EndGameSound DEF Playable, Live
<1>3. ASSUME NEW k \in Attempts(r),
             NextRound(r) = OpenRound(r, r.game.round + k, SeatAfter(r, k))
      PROVE  Sound(NextRound(r))
  <2>1. k \in Nat /\ r.game.round + k <= r.game.total /\ r.game.round + k \in Nat
    BY <1>1 DEF Attempts, RoundsLeft
  <2> QED BY <1>3, <2>1, OpenRoundSound
<1> QED BY <1>2, <1>3, NextRoundCases

-----------------------------------------------------------------------------
\* The fields of a room whose game starts.
LEMMA StartGameFields ==
  ASSUME NEW r, SeatsTyped(r), Len(r.players) >= 2
  PROVE  LET s == RoomStartGame(r)
         IN  /\ s.state = "PLAYING" /\ s.total_rounds = r.total_rounds
             /\ s.players = r.players /\ ActiveSeats(s) = Seats(r)
             /\ s.game.round = 0 /\ ~s.game.open /\ s.game.scores = ZeroScores(r)
             /\ s.game.total = Min({Len(r.players) * r.total_rounds, MaxWordsStack})
<1> DEFINE f == [i \in Seats(r) |-> "active"]
           t == [r EXCEPT !.state = "PLAYING", !.active = f]
           s == [t EXCEPT !.game = GameInit(t)]
<1>1. r \in RoomType /\ \A i \in Seats(r) : f[i] = "active"
  BY DEF SeatsTyped
<1>2. s = RoomStartGame(r)
  BY DEF RoomStartGame
<1> HIDE DEF f
<1>3. t.players = r.players /\ t.active = f /\ t.state = "PLAYING"
      /\ t.total_rounds = r.total_rounds
  BY <1>1 DEF RoomType
<1>4. /\ s.players = r.players /\ s.active = f /\ s.state = "PLAYING"
      /\ s.total_rounds = r.total_rounds /\ s.game = GameInit(t)
  BY <1>1 DEF RoomType
<1>5. ZeroScores(t) = ZeroScores(r)
  BY <1>3 DEF ZeroScores, HasPlayer, Seats
<1> HIDE DEF t
<1>6. /\ GameInit(t).round = 0 /\ ~GameInit(t).open
      /\ GameInit(t).scores = ZeroScores(r)
      /\ GameInit(t).total = Min({Len(r.players) * r.total_rounds, MaxWordsStack})
  BY <1>3, <1>5 DEF GameInit
<1> HIDE DEF s
<1>7. ActiveSeats(s) = Seats(r)
  BY <1>1, <1>4 DEF ActiveSeats, Seats
<1> QED BY <1>2, <1>4, <1>6, <1>7

\* A game that starts has rounds to play and two players who are active.
LEMMA StartGameSound ==
  ASSUME NEW r, SeatsTyped(r), CanStart(r), RoundsCounted(r)
  PROVE  Sound(RoomStartGame(r)) /\ RoomStartGame(r).game.total >= 1
<1> DEFINE s == RoomStartGame(r)
           T == {Len(r.players) * r.total_rounds, MaxWordsStack}
           n == Len(r.players)
<1>1. /\ n \in Nat /\ n >= 2 /\ r.total_rounds \in Nat /\ r.total_rounds >= 1
  BY SeatFacts DEF CanStart, RoundsCounted, Live, SeatsTyped, RoomType
<1>2. /\ s.state = "PLAYING" /\ s.total_rounds = r.total_rounds
      /\ s.players = r.players /\ ActiveSeats(s) = Seats(r)
      /\ s.game.round = 0 /\ ~s.game.open /\ s.game.scores = ZeroScores(r)
      /\ s.game.total = Min(T)
  BY StartGameFields DEF CanStart
<1> HIDE DEF s
<1>3. Min(T) \in Nat /\ Min(T) >= 1
  <2>1. n * r.total_rounds \in Nat /\ n * r.total_rounds >= 1
    <3> HIDE DEF n
    <3>1. \A a, b \in Nat : a >= 2 /\ b >= 1 => a * b \in Nat /\ a * b >= 1
      OBVIOUS
    <3> QED BY <1>1, <3>1
  <2>2. T \subseteq Nat /\ T # {} /\ \A y \in T : y >= 1
    BY <2>1, GameAssumption
  <2> HIDE DEF T
  <2> QED BY <2>2, NatMin
<1>4. EnoughActive(s)
  <2>1. Cardinality(Seats(r)) = n
    BY <1>1, FS_Interval DEF Seats
  <2> QED BY <1>1, <1>2, <2>1 DEF EnoughActive, ActiveCount
<1>5. ActiveScored(s)
  <2> SUFFICES ASSUME NEW i \in Seats(r)
      PROVE  ZeroScores(r)[r.players[i]] # NoEntry
    BY <1>2 DEF ActiveScored
  <2>1. r.players[i] \in Users /\ HasPlayer(r, r.players[i])
    BY SeatFacts DEF HasPlayer
  <2> QED BY <2>1 DEF ZeroScores, NoEntry
<1> HIDE DEF T, n
<1> QED BY <1>1, <1>2, <1>3, <1>4, <1>5
        DEF Sound, Playable, RoundsCounted, RoundOpen, FindersListed, s

\* The game and its first round start in one handler.
LEMMA FirstRoundGood ==
  ASSUME NEW r, Good(r), Sound(r), CanStart(r)
  PROVE  LET s == FirstRound(RoomStartGame(r))
         IN  Good(s) /\ Sound(s)
<1> DEFINE s == RoomStartGame(r)
<1>1. /\ Good(s) /\ s.state = "PLAYING" /\ s.game.drawer_index \in ActiveSeats(s)
      /\ Sound(s) /\ s.game.total >= 1
  BY StartGameGood, StartGameSound DEF Good, Base, Sound, Playable
<1> HIDE DEF s
<1>2. Good(OpenRound(s, 1, s.game.drawer_index))
  BY <1>1, OpenRoundGood DEF Good
<1>3. Sound(OpenRound(s, 1, s.game.drawer_index))
  BY <1>1, OpenRoundSound DEF Good, Base, SeatsTyped, RoomType, GameType, Sound
<1> QED BY <1>2, <1>3 DEF FirstRound, s

\* JOIN_ROOM leaves a sound room: who joins a running game has to wait.
LEMMA EnterRoomSound ==
  ASSUME NEW r, Good(r), Sound(r), Live(r), NEW u \in Users
  PROVE  Sound(EnterRoom(r, u))
<1> DEFINE s == RoomAddPlayer(r, u)
           n == Len(r.players)
<1>1. SeatsTyped(r) /\ n \in Nat
  BY SeatFacts DEF Good, Base
<1>2. /\ SeatsTyped(s)
      /\ Len(s.players) = n + 1
      /\ \A i \in 1..n : s.players[i] = r.players[i] /\ s.active[i] = r.active[i]
      /\ s.active[n + 1] = IF r.state = "PLAYING" THEN "waiting" ELSE "active"
      /\ s.state = r.state /\ s.game = r.game /\ s.total_rounds = r.total_rounds
  BY <1>1, AddPlayerSeats
<1> HIDE DEF s
<1>3. RoundsCounted(s)
  BY <1>2 DEF Sound, Playable, RoundsCounted, Live
<1>4. CASE r.state = "PLAYING"
  <2>1. EnterRoom(r, u) = s
    BY <1>2, <1>4 DEF EnterRoom, CanStart, s
  <2>2. ActiveSeats(s) = ActiveSeats(r)
    <3>1. \A i : i \in 1..(n + 1) <=> i \in 1..n \/ i = n + 1
      BY <1>1
    <3> QED BY <1>2, <1>4, <3>1 DEF ActiveSeats, Seats
  <2>3. EnoughActive(s)
    BY <1>2, <2>2 DEF Sound, Playable, EnoughActive, ActiveCount
  <2>4. ActiveScored(s)
    BY <1>2, <2>2 DEF Sound, Playable, ActiveScored, ActiveSeats, Seats
  <2>5. FindersListed(s)
    <3>1. \A v : HasPlayer(r, v) => HasPlayer(s, v)
      BY <1>1, <1>2 DEF HasPlayer, Seats
    <3> QED BY <1>2, <3>1 DEF Sound, FindersListed
  <2> QED BY <1>2, <1>3, <2>1, <2>3, <2>4, <2>5 DEF Sound, Playable, RoundOpen
<1>5. CASE r.state # "PLAYING"
  <2>1. Sound(s)
    BY <1>2, <1>3, <1>5, IdleSound DEF Good, Base, GameOnlyInPlay, RoundsCounted
  <2>2. CanStart(s) => Sound(RoomStartGame(s))
    BY <1>2, <1>3, StartGameSound
  <2>3. EnterRoom(r, u) = IF IsFull(s) /\ CanStart(s) THEN RoomStartGame(s) ELSE s
    BY DEF EnterRoom, s
  <2> QED BY <2>1, <2>2, <2>3
<1> QED BY <1>4, <1>5

-----------------------------------------------------------------------------
(***************************************************************************)
(* An award gives an entry to the player it is for and takes none from a   *)
(* player who has a seat, even when it rebuilds the table.  If the player  *)
(* has an entry already, the table is not rebuilt and nobody loses points. *)
(***************************************************************************)
LEMMA AddPointsEntries ==
  ASSUME NEW r, NEW t \in ScoreTables, NEW u \in Users, NEW p \in Nat,
         HasPlayer(r, u)
  PROVE  LET w == AddPoints(r, t, u, p)
         IN  /\ w \in ScoreTables /\ w[u] # NoEntry
             /\ \A v \in Users : HasPlayer(r, v) /\ t[v] # NoEntry => w[v] # NoEntry
             /\ t[u] # NoEntry => \A v \in Users : w[v] >= t[v]
<1> DEFINE b == IF t[u] # NoEntry THEN t ELSE ZeroScores(r)
           w == AddPoints(r, t, u, p)
<1>1. w \in ScoreTables
  BY AddPointsTyped
<1>2. w = [b EXCEPT ![u] = b[u] + p]
  BY DEF AddPoints
<1>3. b \in ScoreTables /\ b[u] \in Nat /\ b[u] # NoEntry
  BY DEF ZeroScores, ScoreTables, NoEntry
<1>4. \A v \in Users : HasPlayer(r, v) /\ t[v] # NoEntry => b[v] # NoEntry
  BY DEF ZeroScores, NoEntry
<1>5. t[u] # NoEntry => b = t
  OBVIOUS
<1> HIDE DEF b, w
<1>6. w[u] = b[u] + p /\ \A v \in Users : v # u => w[v] = b[v]
  BY <1>2, <1>3 DEF ScoreTables
<1>7. w[u] # NoEntry
  BY <1>3, <1>6 DEF NoEntry
<1>8. \A v \in Users : HasPlayer(r, v) /\ t[v] # NoEntry => w[v] # NoEntry
  BY <1>4, <1>6, <1>7
<1>9. ASSUME t[u] # NoEntry
      PROVE  \A v \in Users : w[v] >= t[v]
  <2>1. \A v \in Users : t[v] \in Int
    BY DEF ScoreTables, NoEntry
  <2> QED BY <1>3, <1>5, <1>6, <1>9, <2>1
<1> QED BY <1>1, <1>7, <1>8, <1>9 DEF w

\* What a correct guess leaves alone, and what it does to the two tables.
LEMMA HandleGuessFields ==
  ASSUME NEW r, Good(r), r.game.open, NEW u \in Users
  PROVE  LET s == GameHandleGuess(r, u)
             g == r.game
             order == Len(g.guessed) + 1
             mine == AddPoints(r, g.scores, u, GuesserPoints(order))
         IN  /\ s.state = r.state /\ s.players = r.players /\ s.active = r.active
             /\ s.total_rounds = r.total_rounds /\ s.owner = r.owner
             /\ s.game.round = g.round /\ s.game.total = g.total
             /\ s.game.drawer = g.drawer /\ s.game.drawer_index = g.drawer_index
             /\ s.game.open
             /\ HasGuessed(r, u) => s = r
             /\ ~HasGuessed(r, u) =>
                  /\ s.game.scores = AddPoints(r, mine, g.drawer, DrawerPoints(order))
                  /\ s.game.guessed = IF Len(g.guessed) < MaxPlayersPerRoom
                                      THEN Append(g.guessed, u) ELSE g.guessed
<1> DEFINE g == r.game
           order == Len(g.guessed) + 1
           mine == AddPoints(r, g.scores, u, GuesserPoints(order))
           table == AddPoints(r, mine, g.drawer, DrawerPoints(order))
           found == IF Len(g.guessed) < MaxPlayersPerRoom
                    THEN Append(g.guessed, u) ELSE g.guessed
           s == [r EXCEPT !.game.scores = table, !.game.guessed = found]
<1>1. CASE HasGuessed(r, u)
  BY <1>1 DEF GameHandleGuess
<1>2. CASE ~HasGuessed(r, u)
  <2>1. r \in RoomType /\ g \in GameType
    BY DEF Good, Base, SeatsTyped, RoomType
  <2>2. GameHandleGuess(r, u) = s
    BY <1>2 DEF GameHandleGuess
  <2> HIDE DEF table, found
  <2>3. s.game = [g EXCEPT !.scores = table, !.guessed = found]
    BY <2>1 DEF RoomType, GameType
  <2>4. /\ s.state = r.state /\ s.players = r.players /\ s.active = r.active
        /\ s.total_rounds = r.total_rounds /\ s.owner = r.owner
    BY <2>1 DEF RoomType
  <2> HIDE DEF s
  <2>5. /\ s.game.round = g.round /\ s.game.total = g.total
        /\ s.game.drawer = g.drawer /\ s.game.drawer_index = g.drawer_index
        /\ s.game.open /\ s.game.scores = table /\ s.game.guessed = found
    BY <2>1, <2>3 DEF GameType
  <2> QED BY <1>2, <2>2, <2>4, <2>5 DEF table, found
<1> QED BY <1>1, <1>2

\* The scores after a correct guess: who has an entry, and who has how much.
LEMMA GuessScores ==
  ASSUME NEW r, Good(r), Sound(r), r.game.open,
         NEW u \in Users, HasPlayer(r, u), ~HasGuessed(r, u)
  PROVE  LET old == r.game.scores
             new == GameHandleGuess(r, u).game.scores
         IN  /\ new[u] # NoEntry
             /\ \A v \in Users : HasPlayer(r, v) /\ old[v] # NoEntry => new[v] # NoEntry
             /\ old[u] # NoEntry => \A v \in Users : new[v] >= old[v]
<1> DEFINE g == r.game
           order == Len(g.guessed) + 1
           mine == AddPoints(r, g.scores, u, GuesserPoints(order))
           table == AddPoints(r, mine, g.drawer, DrawerPoints(order))
<1>1. GameHandleGuess(r, u).game.scores = table
  BY HandleGuessFields
<1>2. g.scores \in ScoreTables /\ r.state = "PLAYING"
  BY DEF Good, Base, SeatsTyped, RoomType, GameType, GameOnlyInPlay, NoGame
<1>3. GuesserPoints(order) \in Nat /\ DrawerPoints(order) \in Nat
  BY DEF GuesserPoints, DrawerPoints
<1>4. g.drawer \in Users /\ HasPlayer(r, g.drawer) /\ g.scores[g.drawer] # NoEntry
  BY <1>2, SeatFacts DEF Good, Base, DrawerSeated, Sound, Playable, ActiveScored,
     ActiveSeats, HasPlayer
<1> HIDE DEF order
<1>5. /\ mine \in ScoreTables /\ mine[u] # NoEntry
      /\ \A v \in Users : HasPlayer(r, v) /\ g.scores[v] # NoEntry => mine[v] # NoEntry
      /\ g.scores[u] # NoEntry => \A v \in Users : mine[v] >= g.scores[v]
  BY <1>2, <1>3, AddPointsEntries
<1> HIDE DEF mine
<1>6. mine[g.drawer] # NoEntry
  BY <1>4, <1>5
<1>7. /\ table \in ScoreTables
      /\ \A v \in Users : HasPlayer(r, v) /\ mine[v] # NoEntry => table[v] # NoEntry
      /\ \A v \in Users : table[v] >= mine[v]
  BY <1>3, <1>4, <1>5, <1>6, AddPointsEntries
<1> HIDE DEF table
<1>8. \A v \in Users : g.scores[v] \in Int /\ mine[v] \in Int /\ table[v] \in Int
  BY <1>2, <1>5, <1>7 DEF ScoreTables, NoEntry
<1> QED BY <1>1, <1>5, <1>7, <1>8

\* A correct guess of a player who is not the drawer leaves a sound room.
LEMMA HandleGuessSound ==
  ASSUME NEW r, Good(r), Sound(r), r.state = "PLAYING", r.game.open,
         NEW u \in Users, HasPlayer(r, u), u # r.game.drawer
  PROVE  Sound(GameHandleGuess(r, u))
<1> DEFINE s == GameHandleGuess(r, u)
           n == Len(r.game.guessed)
<1>1. CASE HasGuessed(r, u)
  BY <1>1, HandleGuessFields
<1>2. CASE ~HasGuessed(r, u)
  <2>1. /\ s.state = r.state /\ s.players = r.players /\ s.active = r.active
        /\ s.total_rounds = r.total_rounds
        /\ s.game.round = r.game.round /\ s.game.total = r.game.total
        /\ s.game.drawer = r.game.drawer /\ s.game.open
        /\ s.game.guessed = IF n < MaxPlayersPerRoom
                            THEN Append(r.game.guessed, u) ELSE r.game.guessed
    BY <1>2, HandleGuessFields
  <2>2. /\ s.game.scores[u] # NoEntry
        /\ \A v \in Users : HasPlayer(r, v) /\ r.game.scores[v] # NoEntry
                              => s.game.scores[v] # NoEntry
    BY <1>2, GuessScores
  <2>3. r.game.guessed \in Seq(Users) /\ n \in Nat
    BY LenProperties DEF Good, Base, SeatsTyped, RoomType, GameType
  <2> HIDE DEF s
  <2>4. RoundsCounted(s) /\ EnoughActive(s) /\ RoundOpen(s)
    BY <2>1 DEF Sound, Playable, RoundsCounted, EnoughActive, RoundOpen, ActiveCount,
       ActiveSeats, Seats, Live
  <2>5. ActiveScored(s)
    <3>1. ASSUME NEW i \in ActiveSeats(r)  PROVE s.game.scores[r.players[i]] # NoEntry
      <4>1. r.players[i] \in Users /\ HasPlayer(r, r.players[i])
        BY SeatFacts DEF Good, Base, ActiveSeats, HasPlayer
      <4>2. r.game.scores[r.players[i]] # NoEntry
        BY DEF Sound, Playable, ActiveScored
      <4> QED BY <2>2, <4>1, <4>2
    <3> QED BY <2>1, <3>1 DEF ActiveScored, ActiveSeats, Seats
  <2>6. FindersListed(s)
    <3>1. \A v : HasPlayer(s, v) <=> HasPlayer(r, v)
      BY <2>1 DEF HasPlayer, Seats
    <3>2. \A i \in 1..n : r.game.guessed[i] \in Users /\ r.game.guessed[i] # u
      BY <1>2, <2>3, ElementOfSeq DEF HasGuessed
    <3>3. /\ \A i \in 1..n : /\ HasPlayer(r, r.game.guessed[i])
                             /\ r.game.guessed[i] # r.game.drawer
                             /\ r.game.scores[r.game.guessed[i]] # NoEntry
          /\ \A i, j \in 1..n : r.game.guessed[i] = r.game.guessed[j] => i = j
      BY DEF Sound, FindersListed
    <3>4. CASE n < MaxPlayersPerRoom
      <4>1. /\ Len(s.game.guessed) = n + 1 /\ s.game.guessed[n + 1] = u
            /\ \A i \in 1..n : s.game.guessed[i] = r.game.guessed[i]
        BY <2>1, <2>3, <3>4, AppendProperties
      <4>2. \A i \in 1..(n + 1) : i \in 1..n \/ i = n + 1
        BY <2>3
      <4> HIDE DEF n
      <4>3. ASSUME NEW i \in 1..(n + 1)
            PROVE  /\ HasPlayer(s, s.game.guessed[i])
                   /\ s.game.guessed[i] # s.game.drawer
                   /\ s.game.scores[s.game.guessed[i]] # NoEntry
        <5>1. CASE i \in 1..n
          BY <2>1, <2>2, <3>1, <3>2, <3>3, <4>1, <5>1
        <5>2. CASE i = n + 1
          BY <2>1, <2>2, <3>1, <4>1, <5>2
        <5> QED BY <4>2, <5>1, <5>2
      <4>4. \A i, j \in 1..(n + 1) : s.game.guessed[i] = s.game.guessed[j] => i = j
        BY <3>2, <3>3, <4>1, <4>2
      <4> QED BY <4>1, <4>3, <4>4 DEF FindersListed
    <3>5. CASE ~(n < MaxPlayersPerRoom)
      <4>1. s.game.guessed = r.game.guessed
        BY <2>1, <3>5
      <4> QED BY <2>1, <2>2, <3>1, <3>2, <3>3, <4>1 DEF FindersListed
    <3> QED BY <3>4, <3>5
  <2> QED BY <2>4, <2>5, <2>6 DEF Sound, Playable, s
<1> QED BY <1>1, <1>2

\* A correct guess, with the next round when everybody has found the word.
LEMMA ProcessGuessSound ==
  ASSUME NEW r, Good(r), Sound(r), r.state = "PLAYING", r.game.open,
         NEW u \in Users, HasPlayer(r, u), u # r.game.drawer
  PROVE  Sound(ProcessGuess(r, u))
<1> DEFINE s == GameHandleGuess(r, u)
<1>1. Good(s) /\ s.state = "PLAYING" /\ Sound(s)
  BY HandleGuessGood, HandleGuessSound
<1>2. ProcessGuess(r, u) = IF AllFound(s) THEN NextRound(s) ELSE s
  BY DEF ProcessGuess
<1> HIDE DEF s
<1> QED BY <1>1, <1>2, NextRoundSound DEF Good, Sound

-----------------------------------------------------------------------------
\* The leave code: a game goes on only while two players are active.
LEMMA LeaveRoomSound ==
  ASSUME NEW r, Good(r), Sound(r), Live(r), NEW u \in Users, HasPlayer(r, u)
  PROVE  Sound(LeaveRoom(r, u))
<1> DEFINE s == RoomRemovePlayer(r, u)
           endGame == r.state = "PLAYING" /\ TooFewToPlay(s)
           kept == EnsureActiveOwner(IF endGame THEN RoomEndGame(s) ELSE s)
<1>1. LeaveRoom(r, u) = IF ActiveSeats(s) = {} THEN Destroyed
                        ELSE IF RoundOfDrawer(r, u) /\ ~endGame THEN NextRound(kept)
                        ELSE kept
  BY DEF LeaveRoom
<1>2. CASE ActiveSeats(s) = {}
  <2>1. Destroyed.state # "PLAYING" /\ Destroyed.game = NoGame /\ ~Live(Destroyed)
    BY DEF Destroyed, NoRoom, Live
  <2> QED BY <1>1, <1>2, <2>1, IdleSound
<1>3. CASE ActiveSeats(s) # {}
  <2>1. /\ Base(s) /\ IsActive(s, s.owner) /\ s.state = r.state
        /\ s.game = r.game /\ s.total_rounds = r.total_rounds
        /\ r.state = "PLAYING" =>
             s.players = r.players /\ ActiveSeats(s) \subseteq ActiveSeats(r)
    BY <1>3, RemovePlayerBase
  <2> HIDE DEF s
  <2>2. RoundsCounted(s) /\ Live(s) /\ s \in RoomType
    BY <2>1 DEF Sound, Playable, RoundsCounted, Live, Base, SeatsTyped
  <2>3. CASE endGame
    <3>1. Good(RoomEndGame(s)) /\ IsActive(RoomEndGame(s), RoomEndGame(s).owner)
      BY <2>1, EndGameGood
    <3>2. kept = RoomEndGame(s)
      BY <2>3, <3>1 DEF EnsureActiveOwner
    <3> QED BY <1>1, <1>3, <2>2, <2>3, <3>2, EndGameSound
  <2>4. CASE ~endGame
    <3>1. kept = s
      BY <2>1, <2>4 DEF EnsureActiveOwner
    <3>2. EnoughActive(s)
      BY <2>1, <2>4, ActiveCountNat DEF Base, EnoughActive, TooFewToPlay
    <3>3. ActiveScored(s)
      BY <2>1 DEF Sound, Playable, ActiveScored
    <3>4. CASE RoundOfDrawer(r, u)
      <4>1. s.state = "PLAYING"
        BY <2>1, <3>4 DEF RoundOfDrawer
      <4> QED BY <1>1, <1>3, <2>1, <2>2, <2>4, <3>1, <3>2, <3>3, <3>4, <4>1, NextRoundSound
              DEF Playable
    <3>5. CASE ~RoundOfDrawer(r, u)
      <4>1. r.game.open => r.state = "PLAYING"
        BY DEF Good, Base, GameOnlyInPlay, NoGame
      <4>2. FindersListed(s)
        BY <2>1, <4>1 DEF Sound, FindersListed, HasPlayer, Seats
      <4>3. RoundOpen(s)
        BY <2>1 DEF Sound, RoundOpen
      <4>4. LeaveRoom(r, u) = s
        BY <1>1, <1>3, <2>4, <3>1, <3>5
      <4> QED BY <2>2, <3>2, <3>3, <4>2, <4>3, <4>4 DEF Sound, Playable
    <3> QED BY <3>4, <3>5
  <2> QED BY <2>3, <2>4
<1> QED BY <1>2, <1>3


-----------------------------------------------------------------------------
\* A round that ends leaves a room that exists.
LEMMA NextRoundLive ==
  ASSUME NEW r, r \in RoomType, r.state = "PLAYING"
  PROVE  Live(NextRound(r))
<1>1. RoomEndGame(r).state = "FINISHED"
  BY DEF RoomEndGame, RoomType
<1>2. ASSUME NEW k, NEW i  PROVE OpenRound(r, k, i).state = "PLAYING"
  BY OpenRoundFields
<1> QED BY <1>1, <1>2, NextRoundCases DEF Live

\* A room somebody joins goes on existing, and only a waiting room starts to play.
LEMMA EnterRoomLive ==
  ASSUME NEW r, SeatsTyped(r), Live(r), NEW u \in Users
  PROVE  Live(EnterRoom(r, u))
<1>1. /\ SeatsTyped(RoomAddPlayer(r, u)) /\ RoomAddPlayer(r, u).state = r.state
      /\ Len(RoomAddPlayer(r, u).players) \in Nat
  BY AddPlayerSeats, SeatFacts
<1>2. CanStart(RoomAddPlayer(r, u)) => RoomStartGame(RoomAddPlayer(r, u)).state = "PLAYING"
  BY <1>1, StartGameFields DEF CanStart
<1> QED BY <1>1, <1>2 DEF EnterRoom, Live

\* The game and its first round leave every player in the same seat.
LEMMA FirstRoundFields ==
  ASSUME NEW r, Base(r), CanStart(r)
  PROVE  LET s == FirstRound(RoomStartGame(r))
         IN  s.state = "PLAYING" /\ s.players = r.players /\ s.game.open
<1>1. /\ RoomStartGame(r) \in RoomType /\ RoomStartGame(r).state = "PLAYING"
      /\ RoomStartGame(r).players = r.players
  BY StartGameGood, StartGameFields DEF Good, Base, SeatsTyped, CanStart
<1> QED BY <1>1, OpenRoundFields DEF FirstRound

\* A guess leaves a room that exists.
LEMMA ProcessGuessLive ==
  ASSUME NEW r, Good(r), r.state = "PLAYING", r.game.open, NEW u \in Users
  PROVE  Live(ProcessGuess(r, u))
<1>1. GameHandleGuess(r, u) \in RoomType /\ GameHandleGuess(r, u).state = "PLAYING"
  BY HandleGuessGood DEF Good, Base, SeatsTyped
<1> QED BY <1>1, NextRoundLive DEF ProcessGuess, Live

\* Nobody who leaves starts a game.
LEMMA LeaveStartsNothing ==
  ASSUME NEW r, Good(r), Live(r), NEW u \in Users, HasPlayer(r, u),
         r.state # "PLAYING"
  PROVE  LeaveRoom(r, u).state # "PLAYING"
<1> DEFINE s == RoomRemovePlayer(r, u)
<1>1. LeaveRoom(r, u) = IF ActiveSeats(s) = {} THEN Destroyed ELSE EnsureActiveOwner(s)
  BY DEF LeaveRoom, RoundOfDrawer
<1>2. CASE ActiveSeats(s) = {}
  BY <1>1, <1>2 DEF Destroyed, NoRoom
<1>3. CASE ActiveSeats(s) # {}
  <2>1. IsActive(s, s.owner) /\ s.state = r.state
    BY <1>3, RemovePlayerBase
  <2> HIDE DEF s
  <2> QED BY <1>1, <1>3, <2>1 DEF EnsureActiveOwner
<1> QED BY <1>2, <1>3
=============================================================================
