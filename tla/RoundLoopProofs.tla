--------------------------- MODULE RoundLoopProofs ---------------------------
(***************************************************************************)
(* The loop of RoundLoop finds what NextRound promises, for tables of any  *)
(* length and any number of rounds.                                        *)
(***************************************************************************)
EXTENDS RoundLoop, RoomLemmas

-----------------------------------------------------------------------------
\* A number is written in one way only as a multiple of n and a remainder.
LEMMA OneRemainder ==
  ASSUME NEW n \in Nat \ {0}, NEW p \in Nat, NEW q \in Nat,
         NEW r \in 0..(n - 1), NEW s \in 0..(n - 1),
         n * p + r = n * q + s
  PROVE  r = s
<1>1. ASSUME NEW a \in Nat, NEW b \in Nat, a < b  PROVE n * a + n <= n * b
  <2>1. PICK c \in Nat : b = a + 1 + c
    <3>1. b - a - 1 \in Nat /\ b = a + 1 + (b - a - 1)
      BY <1>1
    <3> QED BY <3>1
  <2>2. n * b = n * a + n + n * c
    BY <2>1
  <2>3. n * c \in Nat /\ n * a \in Nat
    OBVIOUS
  <2> QED BY <2>2, <2>3
<1>2. n * p \in Nat /\ n * q \in Nat
  OBVIOUS
<1>3. ~(p < q) /\ ~(q < p)
  BY <1>1, <1>2
<1>4. p = q
  BY <1>3
<1> QED BY <1>2, <1>4

\* The turn moved one seat at a time is the turn moved at once.
LEMMA Remainder ==
  ASSUME NEW n \in Nat \ {0}, NEW x \in Nat
  PROVE  /\ x < n => x % n = x
         /\ n <= x /\ x < n + n => x % n = x - n
         /\ (x + 1) % n = ((x % n) + 1) % n
<1>1. \A y \in Nat : y < n => y % n = y
  OBVIOUS
<1>2. n <= x /\ x < n + n => x % n = x - n
  OBVIOUS
<1>3. \A y \in Nat : y % n \in 0..(n - 1) /\ y \div n \in Nat /\ y = n * (y \div n) + (y % n)
  OBVIOUS
<1>4. (x + 1) % n = ((x % n) + 1) % n
  <2> DEFINE r == x % n
             p == x \div n
             q == (x + 1) \div n
             s == (x + 1) % n
  <2>1. /\ r \in 0..(n - 1) /\ p \in Nat /\ x = n * p + r
        /\ s \in 0..(n - 1) /\ q \in Nat /\ x + 1 = n * q + s
    BY <1>3
  <2> HIDE DEF r, p, q, s
  <2>2. CASE r + 1 < n
    <3>1. n * p \in Nat /\ n * q \in Nat
      BY <2>1
    <3>2. n * p + (r + 1) = n * q + s /\ r + 1 \in 0..(n - 1)
      BY <2>1, <2>2, <3>1
    <3>3. r + 1 = s
      BY <2>1, <3>2, OneRemainder
    <3>4. (r + 1) % n = r + 1
      BY <1>1, <2>1, <2>2
    <3> QED BY <3>3, <3>4 DEF r, s
  <2>3. CASE r + 1 = n
    <3>1. n * p \in Nat /\ n * q \in Nat /\ n * (p + 1) = n * p + n
      BY <2>1
    <3>2. n * (p + 1) + 0 = n * q + s /\ 0 \in 0..(n - 1) /\ p + 1 \in Nat
      BY <2>1, <2>3, <3>1
    <3>3. 0 = s
      BY <2>1, <3>2, OneRemainder
    <3>4. (r + 1) % n = 0
      BY <2>3
    <3> QED BY <3>3, <3>4 DEF r, s
  <2> QED BY <2>1, <2>2, <2>3
<1> QED BY <1>1, <1>2, <1>4


-----------------------------------------------------------------------------
\* What the loop needs of the room it starts from.
StartOK ==
  /\ start.state = "PLAYING" /\ start.game.open = FALSE
  /\ start \in RoomType /\ SeatsTyped(start) /\ Len(start.players) >= 1
  /\ start.game.drawer_index \in Seats(start)
  /\ start.game.drawer = start.players[start.game.drawer_index]
  /\ start.game.guessed = <<>>
  /\ start.game.round <= start.game.total

\* The room after k calls, none of which has opened a round.
Moved(k) ==
  [start EXCEPT !.game.round = start.game.round + k,
                !.game.drawer_index = SeatAfter(start, k),
                !.game.drawer = start.players[SeatAfter(start, k)]]

Empty(k) == start.active[SeatAfter(start, k)] # "active"

(***************************************************************************)
(* The inductive invariant: k calls have counted k rounds and passed k     *)
(* seats, none of them active; the attempts that are counted are these     *)
(* calls, but for the one that ended the game.                             *)
(***************************************************************************)
Looping ==
  \E k \in 0..RoundsLeft(start) :
    /\ room = Moved(k)
    /\ \A j \in 1..k : Empty(j)
    /\ game_ended <=> start.game.round + k >= start.game.total
    /\ ~game_ended => attempts = k
    /\ attempts <= k

LoopInv ==
  /\ StartOK
  /\ attempts \in Nat /\ \A j \in 1..attempts : Empty(j)
  /\ pc = "loop" => Looping
  /\ LoopAgrees

-----------------------------------------------------------------------------
\* Every table the loop starts from is that of a game whose round has ended.
LEMMA InitStart == Init => StartOK
<1> SUFFICES ASSUME Init  PROVE StartOK
  OBVIOUS
<1>1. PICK players \in Tables :
        \E active \in [1..Len(players) -> SeatStates],
           i \in 1..Len(players), total \in 1..MaxTotal :
          \E round \in 1..total : start = Playing(players, active, i, round, total)
  BY DEF Init
<1>2. PICK active \in [1..Len(players) -> SeatStates],
           i \in 1..Len(players), total \in 1..MaxTotal :
        \E round \in 1..total : start = Playing(players, active, i, round, total)
  BY <1>1
<1>3. PICK round \in 1..total : start = Playing(players, active, i, round, total)
  BY <1>2
<1>4. PICK n \in 1..MaxSeats : players \in [1..n -> Users]
  BY DEF Tables
<1>5. n \in Nat \ {0} /\ n <= MaxPlayersPerRoom /\ MaxSeats \in 0..MaxPlayersPerRoom
  BY RoomAssumption, LoopAssumption
<1>6. players \in Seq(Users) /\ Len(players) = n
  <2>1. players \in Seq(Users)
    BY <1>4, <1>5, SeqDef
  <2> QED BY <1>4, <1>5, <2>1, LenProperties
<1>7. active \in Seq(SeatStates) /\ Len(active) = n
  <2>1. active \in Seq(SeatStates)
    BY <1>5, <1>6, SeqDef
  <2> QED BY <1>5, <1>6, <2>1, LenProperties
<1>8. players[1] \in Users /\ players[i] \in Users
  BY <1>4, <1>5, <1>6
<1> DEFINE g == [round |-> round, total |-> total, drawer |-> players[i],
                 drawer_index |-> i, open |-> FALSE, scores |-> NoGame.scores,
                 guessed |-> <<>>]
<1>9. g \in GameType
  <2>1. round \in Nat /\ total \in Nat /\ i \in Nat \ {0} /\ <<>> \in Seq(Users)
    BY <1>5, <1>6, LoopAssumption, GameAssumption, EmptySeq
  <2>2. NoGame.scores \in ScoreTables
    BY NoGameTyped DEF GameType
  <2> QED BY <1>8, <2>1, <2>2 DEF GameType
<1>10. start = [state |-> "PLAYING", owner |-> players[1], max_players |-> MaxSeats,
               total_rounds |-> 1, players |-> players, active |-> active, game |-> g]
  BY <1>3 DEF Playing, NoRoom
<1>11. round <= total
  OBVIOUS
<1> HIDE DEF g
<1>12. start \in RoomType
  BY <1>5, <1>6, <1>7, <1>8, <1>9, <1>10 DEF RoomType, RoomStates
<1> QED BY <1>5, <1>6, <1>7, <1>10, <1>11, <1>12 DEF StartOK, SeatsTyped, Seats, g

\* Among the next Len(players) seats is every seat.
LEMMA AllSeatsPassed ==
  ASSUME StartOK, NEW i \in Seats(start)
  PROVE  \E j \in 1..Len(start.players) : SeatAfter(start, j) = i
<1> DEFINE n == Len(start.players)
           d == start.game.drawer_index
<1>1. n \in Nat \ {0} /\ d \in 1..n /\ i \in 1..n
  BY SeatFacts DEF StartOK, Seats
<1>2. CASE i > d
  <2>1. i - d \in 1..n /\ d - 1 + (i - d) = i - 1 /\ i - 1 \in Nat /\ i - 1 < n
    BY <1>1, <1>2
  <2>2. (i - 1) % n = i - 1
    BY <1>1, <2>1, Remainder
  <2> HIDE DEF n, d
  <2>3. ((d - 1 + (i - d)) % n) + 1 = i
    BY <1>1, <2>1, <2>2
  <2> QED BY <2>1, <2>3 DEF SeatAfter, n, d
<1>3. CASE ~(i > d)
  <2> DEFINE j == (i - d) + n
             x == d - 1 + j
  <2> HIDE DEF n, d
  <2>1. j \in 1..n /\ x \in Nat /\ n <= x /\ x < n + n /\ x - n = i - 1
    BY <1>1, <1>3
  <2> HIDE DEF x
  <2>2. x % n = i - 1
    BY <1>1, <2>1, Remainder
  <2>3. (x % n) + 1 = i
    BY <1>1, <2>2
  <2> QED BY <2>1, <2>3 DEF SeatAfter, n, d, x
<1> QED BY <1>2, <1>3


-----------------------------------------------------------------------------
\* The fields of the room the loop starts from, and of the room after k calls.
LEMMA MovedFields ==
  ASSUME StartOK, NEW k \in Nat
  PROVE  /\ start.game.round \in Nat /\ start.game.total \in Nat
         /\ RoundsLeft(start) \in Nat
         /\ Moved(k).game.round = start.game.round + k
         /\ Moved(k).game.total = start.game.total
         /\ Moved(k).game.drawer_index = SeatAfter(start, k)
         /\ Moved(k).players = start.players /\ Moved(k).active = start.active
<1>1. start \in RoomType /\ start.game \in GameType
  BY DEF StartOK, RoomType
<1>2. /\ start.game.round \in Nat /\ start.game.total \in Nat
      /\ start.game.round <= start.game.total
  BY <1>1 DEF StartOK, GameType
<1>3. Moved(k).game = [start.game EXCEPT
                          !.round = start.game.round + k,
                          !.drawer_index = SeatAfter(start, k),
                          !.drawer = start.players[SeatAfter(start, k)]]
  BY <1>1 DEF Moved, RoomType, GameType
<1>4. Moved(k).players = start.players /\ Moved(k).active = start.active
  BY <1>1 DEF Moved, RoomType
<1>5. /\ Moved(k).game.round = start.game.round + k
      /\ Moved(k).game.total = start.game.total
      /\ Moved(k).game.drawer_index = SeatAfter(start, k)
  BY <1>1, <1>3 DEF GameType
<1> QED BY <1>2, <1>4, <1>5 DEF RoundsLeft

\* No call has been made: the room is the one the loop starts from.
LEMMA NotMoved == StartOK => Moved(0) = start
<1> SUFFICES ASSUME StartOK  PROVE Moved(0) = start
  OBVIOUS
<1> DEFINE n == Len(start.players)
           d == start.game.drawer_index
<1>1. n \in Nat \ {0} /\ d \in 1..n
  BY SeatFacts DEF StartOK, Seats
<1>2. start \in RoomType /\ start.game \in GameType /\ start.game.round \in Nat
  BY DEF StartOK, RoomType, GameType
<1>3. SeatAfter(start, 0) = d
  <2> HIDE DEF n, d
  <2>1. d - 1 + 0 \in Nat /\ d - 1 + 0 < n
    BY <1>1
  <2>2. (d - 1 + 0) % n = d - 1 + 0
    BY <1>1, <2>1, Remainder
  <2>3. ((d - 1 + 0) % n) + 1 = d
    BY <1>1, <2>2
  <2> QED BY <2>3 DEF SeatAfter, n, d
<1>4. start.game.round + 0 = start.game.round
  BY <1>2
<1>5. [start.game EXCEPT !.round = start.game.round, !.drawer_index = d,
                         !.drawer = start.players[d]] = start.game
  <2>1. start.game.drawer = start.players[d] /\ start.game.drawer_index = d
    BY DEF StartOK
  <2> QED BY <1>2, <2>1 DEF GameType
<1>6. Moved(0) = [start EXCEPT !.game = start.game]
  BY <1>2, <1>3, <1>4, <1>5 DEF Moved, RoomType
<1> QED BY <1>2, <1>6 DEF RoomType

\* One call more moves the turn on by one seat.
LEMMA MovedOnce ==
  ASSUME StartOK, NEW k \in Nat, room = Moved(k)
  PROVE  TurnMoved(room) = Moved(k + 1)
<1> DEFINE n == Len(start.players)
           d == start.game.drawer_index
           x == d - 1 + k
<1>1. n \in Nat \ {0} /\ d \in 1..n
  BY SeatFacts DEF StartOK, Seats
<1>2. /\ room.game.round = start.game.round + k /\ start.game.round \in Nat
      /\ room.game.drawer_index = SeatAfter(start, k) /\ room.players = start.players
  BY MovedFields
<1>3. PickNextDrawerIndex(room) = SeatAfter(start, k + 1)
  <2> HIDE DEF n, d
  <2>1. x \in Nat /\ x + 1 = d - 1 + (k + 1)
    BY <1>1
  <2>2. (x + 1) % n = ((x % n) + 1) % n
    BY <1>1, <2>1, Remainder
  <2> QED BY <1>2, <2>1, <2>2 DEF PickNextDrawerIndex, SeatAfter, n, d
<1>4. room.game.round + 1 = start.game.round + (k + 1)
  BY <1>2
<1>5. start \in RoomType /\ start.game \in GameType
  BY DEF StartOK, RoomType
<1> DEFINE next == SeatAfter(start, k + 1)
<1>7. TurnMoved(room) = [room EXCEPT !.game.round = start.game.round + (k + 1),
                                     !.game.drawer_index = next,
                                     !.game.drawer = start.players[next]]
  <2>1. TurnMoved(room) =
          [room EXCEPT !.game.round = room.game.round + 1,
                       !.game.drawer_index = PickNextDrawerIndex(room),
                       !.game.drawer = room.players[PickNextDrawerIndex(room)]]
    BY DEF TurnMoved
  <2> QED BY <1>2, <1>3, <1>4, <2>1
<1> HIDE DEF next
<1> DEFINE round == start.game.round + (k + 1)
           drawer == start.players[next]
           old == [start.game EXCEPT !.round = start.game.round + k,
                                     !.drawer_index = SeatAfter(start, k),
                                     !.drawer = start.players[SeatAfter(start, k)]]
           new == [start.game EXCEPT !.round = round, !.drawer_index = next,
                                     !.drawer = drawer]
<1>8. room = [start EXCEPT !.game = old]
  BY <1>5 DEF Moved, RoomType
<1>9. [old EXCEPT !.round = round, !.drawer_index = next, !.drawer = drawer] = new
  <2> HIDE DEF round, drawer
  <2> QED BY <1>5 DEF GameType
<1>10. TurnMoved(room) = [start EXCEPT !.game = new]
  <2> HIDE DEF round, drawer, old, new
  <2>1. TurnMoved(room) = [room EXCEPT !.game =
          [room.game EXCEPT !.round = round, !.drawer_index = next, !.drawer = drawer]]
    BY <1>7 DEF round, drawer
  <2> QED BY <1>5, <1>8, <1>9, <2>1 DEF RoomType
<1>11. Moved(k + 1) = [start EXCEPT !.game = new]
  BY <1>5 DEF Moved, RoomType, next
<1> QED BY <1>10, <1>11

(***************************************************************************)
(* What NextRound makes of the room: the round of the first call that      *)
(* finds an active seat, or the end of the game when there is none.        *)
(***************************************************************************)
LEMMA NothingToOpen ==
  ASSUME StartOK, NEW k \in Nat, \A j \in 1..k : Empty(j),
         k >= RoundsLeft(start) \/ k >= Len(start.players) + 1
  PROVE  NextRound(start) = RoomEndGame(Moved(k))
<1>1. RoundsLeft(start) \in Nat /\ Len(start.players) \in Nat
  BY MovedFields, SeatFacts DEF StartOK
<1>2. \A j \in Attempts(start) : j \in 1..k
  BY <1>1 DEF Attempts
<1>3. Attempts(start) = {}
  BY <1>2 DEF Attempts, Empty
<1>4. RoomEndGame(Moved(k)) = RoomEndGame(start)
  BY DEF RoomEndGame, Moved, StartOK, RoomType
<1> QED BY <1>3, <1>4 DEF NextRound

LEMMA FirstToOpen ==
  ASSUME StartOK, NEW k \in Nat, \A j \in 1..k : Empty(j), ~Empty(k + 1),
         k + 1 <= RoundsLeft(start), k + 1 <= Len(start.players) + 1
  PROVE  NextRound(start) =
           [Moved(k + 1) EXCEPT !.game.open = TRUE, !.game.guessed = <<>>]
<1>1. RoundsLeft(start) \in Nat /\ Len(start.players) \in Nat
  BY MovedFields, SeatFacts DEF StartOK
<1>2. k + 1 \in Attempts(start)
  BY <1>1 DEF Attempts, Empty
<1>3. ASSUME NEW j \in Attempts(start), j <= k + 1  PROVE j = k + 1
  <2>1. j \in Nat /\ ~(j \in 1..k) /\ j >= 1
    BY DEF Attempts, Empty
  <2> QED BY <1>3, <2>1
<1>4. NextRound(start) =
        OpenRound(start, start.game.round + (k + 1), SeatAfter(start, k + 1))
  BY <1>2, <1>3, NextRoundCases
<1>5. start \in RoomType /\ start.game \in GameType
  BY DEF StartOK, RoomType
<1> DEFINE next == SeatAfter(start, k + 1)
           round == start.game.round + (k + 1)
<1>6. [Moved(k + 1) EXCEPT !.game.open = TRUE, !.game.guessed = <<>>]
      = OpenRound(start, round, next)
  <2>1. Moved(k + 1) = [start EXCEPT !.game.round = round, !.game.drawer_index = next,
                                     !.game.drawer = start.players[next]]
    BY DEF Moved
  <2> HIDE DEF next, round
  <2> QED BY <1>5, <2>1 DEF OpenRound, RoomType, GameType
<1> QED BY <1>4, <1>6


-----------------------------------------------------------------------------
\* The inductive invariant holds when protocol_handle_round_timeout is called.
LEMMA InitInv == Init => LoopInv
<1> SUFFICES ASSUME Init  PROVE LoopInv
  OBVIOUS
<1>1. StartOK /\ room = start /\ attempts = 0 /\ pc = "loop"
      /\ (game_ended <=> start.game.round >= start.game.total)
  BY InitStart DEF Init
<1>2. Moved(0) = start /\ RoundsLeft(start) \in Nat /\ start.game.round \in Nat
  BY <1>1, NotMoved, MovedFields
<1>3. start.game.round + 0 = start.game.round
  BY <1>2
<1>4. Looping
  <2>1. 0 \in 0..RoundsLeft(start) /\ attempts <= 0
    BY <1>1, <1>2
  <2>2. \A j \in 1..0 : Empty(j)
    OBVIOUS
  <2> QED BY <1>1, <1>2, <1>3, <2>1, <2>2 DEF Looping
<1> QED BY <1>1, <1>4 DEF LoopInv, LoopAgrees

\* Every call of game_start_round, and the return, keep the inductive invariant.
LEMMA NextInv == LoopInv /\ [Next]_vars => LoopInv'
<1> SUFFICES ASSUME LoopInv, [Next]_vars  PROVE LoopInv'
  OBVIOUS
<1>1. ASSUME pc = "loop", start' = start, attempts' = attempts, pc' = "done",
             room' = NextRound(start)
      PROVE  LoopInv'
  BY <1>1 DEF LoopInv, LoopAgrees, StartOK, Empty
<1>2. ASSUME pc = "loop", NEW k \in 0..RoundsLeft(start), room = Moved(k),
             \A j \in 1..k : Empty(j),
             game_ended <=> start.game.round + k >= start.game.total,
             ~game_ended => attempts = k, attempts <= k,
             Next
      PROVE  LoopInv'
  <2>0. /\ StartOK /\ k \in Nat
        /\ start.game.round \in Nat /\ start.game.total \in Nat
        /\ RoundsLeft(start) = start.game.total - start.game.round
        /\ Len(start.players) \in Nat
    <3>1. StartOK /\ 0 \in Nat
      BY DEF LoopInv
    <3>2. start.game.round \in Nat /\ start.game.total \in Nat /\ RoundsLeft(start) \in Nat
      BY <3>1, MovedFields
    <3> QED BY <3>1, <3>2, SeatFacts DEF StartOK, RoundsLeft
  <2>1. /\ room.players = start.players /\ room.active = start.active
        /\ room.game.round = start.game.round + k /\ room.game.total = start.game.total
    BY <1>2, <2>0, MovedFields
  <2>2. /\ TurnMoved(room) = Moved(k + 1)
        /\ Moved(k + 1).game.round = start.game.round + (k + 1)
        /\ Moved(k + 1).game.total = start.game.total
        /\ Moved(k + 1).active = start.active
        /\ Moved(k + 1).game.drawer_index = SeatAfter(start, k + 1)
    <3>1. k + 1 \in Nat
      BY <2>0
    <3> QED BY <1>2, <2>0, <3>1, MovedOnce, MovedFields
  <2>3. DrawerIsActive(TurnMoved(room)) <=> ~Empty(k + 1)
    BY <2>2 DEF DrawerIsActive, Empty
  <2>4. CASE Finish
    <3>1. k >= RoundsLeft(start)
      BY <1>2, <2>0, <2>4 DEF Finish
    <3>2. room' = NextRound(start)
      BY <1>2, <2>0, <2>4, <3>1, NothingToOpen DEF Finish
    <3> QED BY <1>1, <1>2, <2>4, <3>2 DEF Finish
  <2>5. CASE GiveUp
    <3>1. k >= Len(start.players) + 1
      BY <1>2, <2>1, <2>5 DEF GiveUp, MaxAttempts
    <3>2. room' = NextRound(start)
      BY <1>2, <2>0, <2>5, <3>1, NothingToOpen DEF GiveUp
    <3> QED BY <1>1, <1>2, <2>5, <3>2 DEF GiveUp
  <2>6. CASE StartRound
    <3>1. k + 1 <= RoundsLeft(start) /\ k + 1 <= Len(start.players) + 1
      BY <1>2, <2>0, <2>1, <2>6 DEF StartRound, MaxAttempts
    <3>2. ~Empty(k + 1)
      BY <2>3, <2>6 DEF StartRound
    <3>3. room' = NextRound(start)
      BY <1>2, <2>0, <2>2, <2>6, <3>1, <3>2, FirstToOpen DEF StartRound
    <3> QED BY <1>1, <1>2, <2>6, <3>3 DEF StartRound
  <2>7. CASE SkipRound
    <3>1. /\ start' = start /\ pc' = "loop" /\ room' = Moved(k + 1) /\ Empty(k + 1)
          /\ k + 1 \in 0..RoundsLeft(start) /\ attempts = k
      BY <1>2, <2>0, <2>1, <2>2, <2>3, <2>7 DEF SkipRound
    <3>2. game_ended' <=> start.game.round + (k + 1) >= start.game.total
      <4>1. game_ended' <=> room'.game.round >= room.game.total
        BY <2>7, Zenon DEF SkipRound
      <4> QED BY <2>1, <2>2, <3>1, <4>1
    <3>3. /\ attempts' \in Nat /\ attempts' <= k + 1
          /\ ~game_ended' => attempts' = k + 1
      BY <2>0, <2>7, <3>1 DEF SkipRound
    <3>4. \A j \in 1..(k + 1) : Empty(j)
      <4>1. \A j \in 1..(k + 1) : j \in 1..k \/ j = k + 1
        BY <2>0
      <4> QED BY <1>2, <3>1, <4>1
    <3>5. /\ \A j : (Empty(j))' <=> Empty(j)
          /\ Moved(k + 1)' = Moved(k + 1)
          /\ RoundsLeft(start)' = RoundsLeft(start)
      BY <3>1 DEF Empty, Moved
    <3>6. Looping'
      <4> DEFINE P(i) == /\ room' = (Moved(i))'
                         /\ \A j \in 1..i : (Empty(j))'
                         /\ game_ended' <=> start'.game.round + i >= start'.game.total
                         /\ ~game_ended' => attempts' = i
                         /\ attempts' <= i
      <4>1. P(k + 1)
        BY <3>1, <3>2, <3>3, <3>4, <3>5
      <4>2. k + 1 \in 0..(RoundsLeft(start))'
        BY <3>1, <3>5
      <4> HIDE DEF P
      <4>3. \E i \in 0..(RoundsLeft(start))' : P(i)
        BY <4>1, <4>2
      <4> QED BY <4>3 DEF P, Looping
    <3>7. \A j \in 1..attempts' : (Empty(j))'
      <4>1. \A j \in 1..attempts' : j \in 1..(k + 1)
        BY <2>0, <3>3
      <4> QED BY <3>4, <3>5, <4>1
    <3>8. StartOK'
      BY <2>0, <3>1 DEF StartOK
    <3> QED BY <3>1, <3>3, <3>6, <3>7, <3>8 DEF LoopInv, LoopAgrees
  <2> QED BY <1>2, <2>4, <2>5, <2>6, <2>7 DEF Next
<1>3. CASE pc = "loop" /\ Next
  BY <1>2, <1>3 DEF LoopInv, Looping
<1>4. CASE pc # "loop" /\ Next
  BY <1>4 DEF Next, Finish, StartRound, SkipRound, GiveUp
<1>5. CASE UNCHANGED vars
  BY <1>5 DEF vars, LoopInv, StartOK, Looping, LoopAgrees, Empty, Moved
<1> QED BY <1>3, <1>4, <1>5

\* The inductive invariant holds in every state of the loop.
THEOREM LoopInvariance == Spec => []LoopInv
<1> QED BY InitInv, NextInv, PTL DEF Spec

(***************************************************************************)
(* The calls of game_start_round, one after the other, leave the room that *)
(* NextRound promises: the abstraction all of GameRoom and Server rest on. *)
(***************************************************************************)
THEOREM LoopDoesNextRound == Spec => []LoopAgrees
<1>1. LoopInv => LoopAgrees
  BY DEF LoopInv
<1> QED BY <1>1, LoopInvariance, PTL

(***************************************************************************)
(* The limit of player_count + 1 attempts is never what ends the loop:     *)
(* with an active player, fewer calls fail than there are seats.           *)
(***************************************************************************)
THEOREM LoopFindsSomebody == Spec => []SomebodyIsFound
<1>1. LoopInv => SomebodyIsFound
  <2> SUFFICES ASSUME LoopInv, NEW i \in ActiveSeats(start)
               PROVE  attempts < Len(start.players)
    BY DEF SomebodyIsFound
  <2>1. PICK j \in 1..Len(start.players) : SeatAfter(start, j) = i
    BY AllSeatsPassed DEF LoopInv, ActiveSeats
  <2>2. ~Empty(j)
    BY <2>1 DEF Empty, ActiveSeats
  <2>3. ~(j \in 1..attempts)
    BY <2>2 DEF LoopInv
  <2>4. Len(start.players) \in Nat /\ attempts \in Nat
    BY SeatFacts DEF LoopInv, StartOK
  <2> QED BY <2>3, <2>4
<1> QED BY <1>1, LoopInvariance, PTL
=============================================================================
