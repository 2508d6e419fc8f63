--------------------------- MODULE RecordsProofs ---------------------------
(***************************************************************************)
(* What holds of the rows the server writes about its rooms, whatever      *)
(* statement the database is lost at and however often the server crashes  *)
(* or is restarted, for every number of users, rooms and rows.             *)
(***************************************************************************)
EXTENDS Records, RoomLemmas

-----------------------------------------------------------------------------
(***************************************************************************)
(* The fields of the database record.  The rows of the last three tables   *)
(* are constrained by what they refer to, below, not by a type.            *)
(***************************************************************************)
RoomRows == [code : Nat, status : {"waiting", "in_progress"}]
SeatRows == [room : Nat, user : Users, order : Nat]
RoundRows == [room : Nat, round : Nat, draw : Nat]
HistoryEntries == [user : Users, score : Nat, rank : Nat]

Typed(d) ==
  d \in [fuse : {NoFuse} \cup Nat, link : Links, crashed : BOOLEAN, id : Nat,
         rooms : Seq(RoomRows), room_players : Seq(SeatRows),
         game_rounds : Seq(RoundRows), game_history : Seq(HistoryEntries),
         guesses : {d.guesses}, score_details : {d.score_details},
         chat_messages : {d.chat_messages}]

\* What the rows refer to exists, and belongs to one room.
Fits(d, row) ==
  /\ row.round \in 1..Len(d.game_rounds) /\ row.player \in 1..Len(d.room_players)
  /\ d.game_rounds[row.round].room = d.room_players[row.player].room

RoundFits(d, row) ==
  row.draw \in 1..Len(d.room_players) /\ d.room_players[row.draw].room = row.room

ChatFits(d, row) ==
  row.player \in 1..Len(d.room_players) /\ d.room_players[row.player].room = row.room

RowsOK(d) ==
  /\ \A row \in d.guesses \cup d.score_details : Fits(d, row)
  /\ \A k \in 1..Len(d.game_rounds) : RoundFits(d, d.game_rounds[k])
  /\ \A row \in d.chat_messages : ChatFits(d, row)

Fine(d) == Typed(d) /\ RowsOK(d)

\* The tables whose ids the server remembers are as they were.
Kept(d, e) ==
  /\ Len(e.rooms) = Len(d.rooms)
  /\ e.room_players = d.room_players /\ e.game_rounds = d.game_rounds

LEMMA KeptTwice ==
  ASSUME NEW c, NEW d, NEW e, Kept(c, d), Kept(d, e)  PROVE Kept(c, e)
BY DEF Kept

-----------------------------------------------------------------------------
\* Statements that write nothing: only the link, the fuse and crashed change.
Unwritten(d, e) ==
  /\ Typed(e)
  /\ e.id = d.id /\ e.rooms = d.rooms /\ Kept(d, e)
  /\ e.guesses = d.guesses /\ e.score_details = d.score_details
  /\ e.chat_messages = d.chat_messages /\ e.game_history = d.game_history
  /\ d.crashed => e.crashed

LEMMA UnwrittenFine ==
  ASSUME NEW d, NEW e, Fine(d), Unwritten(d, e)  PROVE Fine(e) /\ Kept(d, e)
BY DEF Unwritten, Fine, RowsOK, Kept, Fits, RoundFits, ChatFits

LEMMA UnwrittenSelf == ASSUME NEW d, Typed(d)  PROVE Unwritten(d, d)
BY DEF Unwritten, Kept

LEMMA UnwrittenTwice ==
  ASSUME NEW c, NEW d, NEW e, Unwritten(c, d), Unwritten(d, e)  PROVE Unwritten(c, e)
BY DEF Unwritten, Kept

LEMMA SpendWritesNothing ==
  ASSUME NEW d, Typed(d)
  PROVE  Unwritten(d, Spend(d)) /\ Spend(d).crashed = d.crashed
<1>. DEFINE f == IF d.fuse > 0 THEN d.fuse - 1 ELSE d.fuse
<1>1. f \in {NoFuse} \cup Nat
  BY DEF Typed, NoFuse
<1>2. Spend(d) = [d EXCEPT !.link = "open", !.fuse = f]
  BY DEF Spend
<1>. HIDE DEF f
<1> QED BY <1>1, <1>2 DEF Typed, Unwritten, Kept, Links

LEMMA QueryWritesNothing == ASSUME NEW d, Typed(d)  PROVE Unwritten(d, Query(d))
<1>1. Unwritten(d, [d EXCEPT !.link = "null"])
  BY DEF Typed, Unwritten, Kept, Links
<1> QED BY <1>1, UnwrittenSelf, SpendWritesNothing DEF Query

LEMMA InsertIdWritesNothing ==
  ASSUME NEW d, Typed(d)
  PROVE  Unwritten(d, InsertId(d)) /\ (d.link = "null" => InsertId(d).crashed)
<1>1. Unwritten(d, [d EXCEPT !.crashed = TRUE]) /\ [d EXCEPT !.crashed = TRUE].crashed
  BY DEF Typed, Unwritten, Kept
<1> QED BY <1>1, UnwrittenSelf DEF InsertId

LEMMA SelectWritesNothing == ASSUME NEW d, Typed(d)  PROVE Unwritten(d, Select(d))
BY UnwrittenSelf, QueryWritesNothing DEF Select

\* A statement that is not answered, and whose id is asked for, is fatal.
LEMMA LostStatement ==
  ASSUME NEW d, Typed(d), Ready(d), ~Answers(d)
  PROVE  Unwritten(d, InsertId(Query(d))) /\ InsertId(Query(d)).crashed
<1>1. Unwritten(d, Query(d)) /\ Typed(Query(d))
  BY QueryWritesNothing DEF Unwritten
<1>2. Query(d).link = "null"
  BY DEF Query, Ready, Typed
<1> QED BY <1>1, <1>2, InsertIdWritesNothing, UnwrittenTwice

\* The requests about accounts.
LEMMA AccountWritesNothing ==
  ASSUME NEW d, Typed(d)
  PROVE  /\ Unwritten(d, Query(d)) /\ Unwritten(d, Select(d))
         /\ Unwritten(d, RegisterUser(d)) /\ Unwritten(d, ChangePassword(d))
<1>1. Unwritten(d, Query(d)) /\ Typed(Query(d))
  BY QueryWritesNothing DEF Unwritten
<1>2. Unwritten(d, Query(Query(d))) /\ Typed(Query(Query(d)))
  <2>1. Unwritten(d, Query(Query(d)))
    BY <1>1, QueryWritesNothing, UnwrittenTwice
  <2> QED BY <2>1 DEF Unwritten
<1>3. Unwritten(d, InsertId(Query(Query(d))))
  BY <1>2, InsertIdWritesNothing, UnwrittenTwice
<1> QED
  BY <1>1, <1>3, UnwrittenSelf, SelectWritesNothing DEF RegisterUser, ChangePassword

-----------------------------------------------------------------------------
\* A sequence with one element more.
LEMMA OneMore ==
  ASSUME NEW S, NEW s \in Seq(S), NEW x \in S
  PROVE  /\ Append(s, x) \in Seq(S) /\ Len(Append(s, x)) = Len(s) + 1
         /\ \A i \in 1..Len(s) : Append(s, x)[i] = s[i]
         /\ Append(s, x)[Len(s) + 1] = x
BY AppendProperties

\* The id of the last row is forgotten at the end of a handler.
LEMMA NumberForgotten ==
  ASSUME NEW d, Fine(d), NEW e, e = [d EXCEPT !.id = 0]
  PROVE  Fine(e) /\ Kept(d, e) /\ e.id = 0 /\ e.crashed = d.crashed
<1>1. /\ Typed(e) /\ Kept(d, e) /\ e.id = 0 /\ e.crashed = d.crashed
      /\ e.guesses = d.guesses /\ e.score_details = d.score_details
      /\ e.chat_messages = d.chat_messages
  BY DEF Fine, Typed, Kept
<1> QED BY <1>1 DEF Fine, RowsOK, Kept, Fits, RoundFits, ChatFits

\* The row of a room: its id, or 0 if it could not be written.
LEMMA InsertCases ==
  ASSUME NEW d, Fine(d), NEW table, NEW row, NEW e, e = Insert(d, table, row)
  PROVE  \/ Fine(e) /\ Kept(d, e) /\ e.id = 0 /\ e.crashed = d.crashed
         \/ Fine(e) /\ Kept(d, e) /\ e.crashed
         \/ \E s : /\ Typed(s) /\ Unwritten(d, s) /\ ~d.crashed /\ ~s.crashed
                   /\ e = [s EXCEPT ![table] = Append(s[table], row),
                                    !.id = Len(d[table]) + 1]
<1>1. Typed(d)
  BY DEF Fine
<1>2. PICK s : s = Spend(d)
  OBVIOUS
<1>3. Unwritten(d, s) /\ Typed(s) /\ s.crashed = d.crashed
  BY <1>1, <1>2, SpendWritesNothing DEF Unwritten
<1>4. CASE ~Ready(d)
  <2>1. e = [d EXCEPT !.id = 0]
    BY <1>4 DEF Insert
  <2>2. Fine(e) /\ Kept(d, e) /\ e.id = 0 /\ e.crashed = d.crashed
    BY <2>1, NumberForgotten
  <2> QED BY <2>2
<1>5. CASE Ready(d) /\ ~Answers(d)
  <2>1. e = InsertId(Query(d))
    BY <1>5 DEF Insert
  <2>2. Unwritten(d, e) /\ e.crashed
    BY <1>1, <1>5, <2>1, LostStatement
  <2> QED BY <2>2, UnwrittenFine
<1>6. CASE Ready(d) /\ Answers(d) /\ ~Accepts(d, table, row)
  <2>1. e = [s EXCEPT !.id = 0]
    BY <1>2, <1>6 DEF Insert
  <2>2. Fine(s) /\ Kept(d, s)
    BY <1>3, UnwrittenFine
  <2>3. Fine(e) /\ Kept(s, e) /\ e.id = 0 /\ e.crashed = s.crashed
    BY <2>1, <2>2, NumberForgotten
  <2> QED BY <1>3, <2>2, <2>3, KeptTwice
<1>7. CASE Ready(d) /\ Answers(d) /\ Accepts(d, table, row)
  <2>1. e = [s EXCEPT ![table] = Append(s[table], row), !.id = Len(d[table]) + 1]
    BY <1>2, <1>7 DEF Insert
  <2> QED BY <1>3, <1>7, <2>1 DEF Ready
<1> QED BY <1>4, <1>5, <1>6, <1>7

(***************************************************************************)
(* The tables only grow: what an id refers to stays what it was.           *)
(***************************************************************************)
Same(s, t) == Len(s) <= Len(t) /\ \A k \in 1..Len(s) : t[k] = s[k]

Grown(d, e) ==
  /\ Len(d.rooms) <= Len(e.rooms)
  /\ Same(d.room_players, e.room_players) /\ Same(d.game_rounds, e.game_rounds)

LEMMA Lengths ==
  ASSUME NEW d, Typed(d)
  PROVE  /\ Len(d.rooms) \in Nat /\ Len(d.room_players) \in Nat
         /\ Len(d.game_rounds) \in Nat
BY LenProperties DEF Typed

LEMMA KeptIsGrown == ASSUME NEW d, NEW e, Typed(d), Kept(d, e)  PROVE Grown(d, e)
BY Lengths DEF Kept, Grown, Same

LEMMA GrownTwice ==
  ASSUME NEW c, NEW d, NEW e, Typed(c), Typed(d), Typed(e), Grown(c, d), Grown(d, e)
  PROVE  Grown(c, e)
<1>1. ASSUME NEW s, NEW t, NEW u, Len(s) \in Nat, Len(t) \in Nat, Len(u) \in Nat,
             Same(s, t), Same(t, u)
      PROVE  Same(s, u)
  <2>1. \A k \in 1..Len(s) : k \in 1..Len(t)
    BY <1>1 DEF Same
  <2> QED BY <1>1, <2>1 DEF Same
<1>2. Same(c.room_players, e.room_players) /\ Same(c.game_rounds, e.game_rounds)
  BY <1>1, Lengths DEF Grown
<1>3. Len(c.rooms) <= Len(e.rooms)
  BY Lengths DEF Grown
<1> QED BY <1>2, <1>3 DEF Grown

\* A row that fits goes on to fit, whatever is written later.
LEMMA FitsStays ==
  ASSUME NEW d, NEW e, Typed(d), Typed(e), Grown(d, e), NEW row
  PROVE  /\ Fits(d, row) => Fits(e, row)
         /\ RoundFits(d, row) => RoundFits(e, row)
         /\ ChatFits(d, row) => ChatFits(e, row)
<1>1. /\ \A k \in 1..Len(d.room_players) :
            k \in 1..Len(e.room_players) /\ e.room_players[k] = d.room_players[k]
      /\ \A k \in 1..Len(d.game_rounds) :
            k \in 1..Len(e.game_rounds) /\ e.game_rounds[k] = d.game_rounds[k]
  BY Lengths DEF Grown, Same
<1> QED BY <1>1 DEF Fits, RoundFits, ChatFits

\* So only new rows can go wrong.
LEMMA NewRows ==
  ASSUME NEW d, NEW e, Fine(d), Typed(e), Grown(d, e),
         \A row \in (e.guesses \cup e.score_details) \ (d.guesses \cup d.score_details) :
            Fits(e, row),
         \A k \in 1..Len(e.game_rounds) :
            k > Len(d.game_rounds) => RoundFits(e, e.game_rounds[k]),
         \A row \in e.chat_messages \ d.chat_messages : ChatFits(e, row)
  PROVE  Fine(e)
<1>1. Typed(d)
  BY DEF Fine
<1>2. \A row \in e.guesses \cup e.score_details : Fits(e, row)
  BY <1>1, FitsStays DEF Fine, RowsOK
<1>3. ASSUME NEW k \in 1..Len(e.game_rounds), ~(k > Len(d.game_rounds))
      PROVE  RoundFits(e, e.game_rounds[k])
    <2>1. k \in 1..Len(d.game_rounds) /\ e.game_rounds[k] = d.game_rounds[k]
      BY <1>1, <1>3, Lengths DEF Grown, Same
    <2> QED BY <1>1, <2>1, FitsStays DEF Fine, RowsOK
<1>4. \A row \in e.chat_messages : ChatFits(e, row)
  BY <1>1, FitsStays DEF Fine, RowsOK
<1> QED BY <1>2, <1>3, <1>4 DEF Fine, RowsOK

\* The row of a room.
LEMMA InsertRoom ==
  ASSUME NEW d, Fine(d), NEW row \in RoomRows, NEW e, e = Insert(d, "rooms", row)
  PROVE  /\ Fine(e) /\ Grown(d, e)
         /\ ~e.crashed => e.id \in 0..Len(e.rooms)
<1>1. Typed(d) /\ d.rooms \in Seq(RoomRows) /\ Len(d.rooms) \in Nat
  BY Lengths DEF Fine, Typed
<1>2. CASE Fine(e) /\ Kept(d, e) /\ e.id = 0 /\ e.crashed = d.crashed
  BY <1>1, <1>2, KeptIsGrown DEF Kept
<1>3. CASE Fine(e) /\ Kept(d, e) /\ e.crashed
  BY <1>1, <1>3, KeptIsGrown
<1>4. ASSUME NEW s, Typed(s), Unwritten(d, s), ~s.crashed, ~d.crashed,
             e = [s EXCEPT !["rooms"] = Append(s["rooms"], row), !.id = Len(d["rooms"]) + 1]
      PROVE  /\ Fine(e) /\ Grown(d, e)
             /\ ~e.crashed => e.id \in 0..Len(e.rooms)
  <2>1. PICK t : t = Append(d.rooms, row)
    OBVIOUS
  <2>2. PICK n \in Nat : n = Len(d.rooms) + 1
    BY <1>1
  <2>3. t \in Seq(RoomRows) /\ Len(t) = n
    BY <1>1, <2>1, <2>2, OneMore
  <2>4. e = [s EXCEPT !.rooms = t, !.id = n]
    BY <1>4, <2>1, <2>2 DEF Unwritten
  <2>5. /\ Typed(e) /\ e.rooms = t /\ e.id = n /\ ~e.crashed
        /\ e.room_players = s.room_players /\ e.game_rounds = s.game_rounds
        /\ e.guesses = s.guesses /\ e.score_details = s.score_details
        /\ e.chat_messages = s.chat_messages
    BY <1>4, <2>3, <2>4 DEF Typed
  <2>6. Fine(s) /\ s.room_players = d.room_players /\ s.game_rounds = d.game_rounds
    BY <1>4, UnwrittenFine DEF Kept
  <2>7. Grown(d, e)
    <3>1. Same(d.room_players, e.room_players) /\ Same(d.game_rounds, e.game_rounds)
      BY <1>1, <2>5, <2>6, Lengths DEF Same
    <3>2. Len(d.rooms) <= Len(e.rooms)
      BY <1>1, <2>2, <2>3, <2>5
    <3> QED BY <3>1, <3>2 DEF Grown
  <2>8. Fine(e)
    <3>1. /\ e.guesses = d.guesses /\ e.score_details = d.score_details
          /\ e.chat_messages = d.chat_messages
      BY <1>4, <2>5 DEF Unwritten
    <3>2. \A k \in 1..Len(e.game_rounds) : ~(k > Len(d.game_rounds))
      BY <1>1, <2>5, <2>6, Lengths
    <3> QED BY <2>5, <2>7, <3>1, <3>2, NewRows
  <2>9. e.id \in 0..Len(e.rooms)
    BY <2>2, <2>3, <2>5
  <2> QED BY <2>7, <2>8, <2>9
<1> QED BY <1>2, <1>3, <1>4, InsertCases


\* The row of a seat.
LEMMA InsertSeat ==
  ASSUME NEW d, Fine(d), NEW row \in SeatRows, NEW e, e = Insert(d, "room_players", row)
  PROVE  /\ Fine(e) /\ Grown(d, e)
         /\ ~e.crashed => /\ e.id \in 0..Len(e.room_players)
                          /\ e.id > 0 => e.room_players[e.id] = row
<1>1. Typed(d) /\ d.room_players \in Seq(SeatRows) /\ Len(d.room_players) \in Nat
  BY Lengths DEF Fine, Typed
<1>2. CASE Fine(e) /\ Kept(d, e) /\ e.id = 0 /\ e.crashed = d.crashed
  BY <1>1, <1>2, KeptIsGrown DEF Kept
<1>3. CASE Fine(e) /\ Kept(d, e) /\ e.crashed
  BY <1>1, <1>3, KeptIsGrown
<1>4. ASSUME NEW s, Typed(s), Unwritten(d, s), ~s.crashed, ~d.crashed,
             e = [s EXCEPT !["room_players"] = Append(s["room_players"], row),
                           !.id = Len(d["room_players"]) + 1]
      PROVE  /\ Fine(e) /\ Grown(d, e)
             /\ ~e.crashed => /\ e.id \in 0..Len(e.room_players)
                              /\ e.id > 0 => e.room_players[e.id] = row
  <2>1. PICK t : t = Append(d.room_players, row)
    OBVIOUS
  <2>2. PICK n \in Nat : n = Len(d.room_players) + 1
    BY <1>1
  <2>3. /\ t \in Seq(SeatRows) /\ Len(t) = n /\ t[n] = row
        /\ \A k \in 1..Len(d.room_players) : t[k] = d.room_players[k]
    BY <1>1, <2>1, <2>2, OneMore
  <2>4. e = [s EXCEPT !.room_players = t, !.id = n]
    BY <1>4, <2>1, <2>2 DEF Unwritten, Kept
  <2>5. /\ Typed(e) /\ e.room_players = t /\ e.id = n /\ ~e.crashed
        /\ e.rooms = s.rooms /\ e.game_rounds = s.game_rounds
        /\ e.guesses = s.guesses /\ e.score_details = s.score_details
        /\ e.chat_messages = s.chat_messages
    BY <1>4, <2>3, <2>4 DEF Typed
  <2>6. Fine(s) /\ s.rooms = d.rooms /\ s.game_rounds = d.game_rounds
    BY <1>4, UnwrittenFine DEF Kept, Unwritten
  <2>7. Grown(d, e)
    <3>1. Same(d.room_players, e.room_players) /\ Same(d.game_rounds, e.game_rounds)
      BY <1>1, <2>2, <2>3, <2>5, <2>6, Lengths DEF Same
    <3>2. Len(d.rooms) <= Len(e.rooms)
      BY <1>1, <2>5, <2>6, Lengths
    <3> QED BY <3>1, <3>2 DEF Grown
  <2>8. Fine(e)
    <3>1. /\ e.guesses = d.guesses /\ e.score_details = d.score_details
          /\ e.chat_messages = d.chat_messages
      BY <1>4, <2>5 DEF Unwritten
    <3>2. \A k \in 1..Len(e.game_rounds) : ~(k > Len(d.game_rounds))
      BY <1>1, <2>5, <2>6, Lengths
    <3> QED BY <2>5, <2>7, <3>1, <3>2, NewRows
  <2>9. e.id \in 0..Len(e.room_players) /\ e.room_players[e.id] = row
    BY <2>2, <2>3, <2>5
  <2> QED BY <2>7, <2>8, <2>9
<1> QED BY <1>2, <1>3, <1>4, InsertCases

\* The row of a round, whose drawer has a row in the same room.
LEMMA InsertRound ==
  ASSUME NEW d, Fine(d), NEW row \in RoundRows, RoundFits(d, row),
         NEW e, e = Insert(d, "game_rounds", row)
  PROVE  /\ Fine(e) /\ Grown(d, e)
         /\ ~e.crashed => /\ e.id \in 0..Len(e.game_rounds)
                          /\ e.id > 0 => e.game_rounds[e.id] = row
<1>1. Typed(d) /\ d.game_rounds \in Seq(RoundRows) /\ Len(d.game_rounds) \in Nat
  BY Lengths DEF Fine, Typed
<1>2. CASE Fine(e) /\ Kept(d, e) /\ e.id = 0 /\ e.crashed = d.crashed
  BY <1>1, <1>2, KeptIsGrown DEF Kept
<1>3. CASE Fine(e) /\ Kept(d, e) /\ e.crashed
  BY <1>1, <1>3, KeptIsGrown
<1>4. ASSUME NEW s, Typed(s), Unwritten(d, s), ~s.crashed, ~d.crashed,
             e = [s EXCEPT !["game_rounds"] = Append(s["game_rounds"], row),
                           !.id = Len(d["game_rounds"]) + 1]
      PROVE  /\ Fine(e) /\ Grown(d, e)
             /\ ~e.crashed => /\ e.id \in 0..Len(e.game_rounds)
                              /\ e.id > 0 => e.game_rounds[e.id] = row
  <2>1. PICK t : t = Append(d.game_rounds, row)
    OBVIOUS
  <2>2. PICK n \in Nat : n = Len(d.game_rounds) + 1
    BY <1>1
  <2>3. /\ t \in Seq(RoundRows) /\ Len(t) = n /\ t[n] = row
        /\ \A k \in 1..Len(d.game_rounds) : t[k] = d.game_rounds[k]
    BY <1>1, <2>1, <2>2, OneMore
  <2>4. e = [s EXCEPT !.game_rounds = t, !.id = n]
    BY <1>4, <2>1, <2>2 DEF Unwritten, Kept
  <2>5. /\ Typed(e) /\ e.game_rounds = t /\ e.id = n /\ ~e.crashed
        /\ e.rooms = s.rooms /\ e.room_players = s.room_players
        /\ e.guesses = s.guesses /\ e.score_details = s.score_details
        /\ e.chat_messages = s.chat_messages
    BY <1>4, <2>3, <2>4 DEF Typed
  <2>6. Fine(s) /\ s.rooms = d.rooms /\ s.room_players = d.room_players
    BY <1>4, UnwrittenFine DEF Kept, Unwritten
  <2>7. Grown(d, e)
    <3>1. Same(d.room_players, e.room_players) /\ Same(d.game_rounds, e.game_rounds)
      BY <1>1, <2>2, <2>3, <2>5, <2>6, Lengths DEF Same
    <3>2. Len(d.rooms) <= Len(e.rooms)
      BY <1>1, <2>5, <2>6, Lengths
    <3> QED BY <3>1, <3>2 DEF Grown
  <2>8. Fine(e)
    <3>1. /\ e.guesses = d.guesses /\ e.score_details = d.score_details
          /\ e.chat_messages = d.chat_messages
      BY <1>4, <2>5 DEF Unwritten
    <3>2. RoundFits(e, row)
      BY <1>1, <2>5, <2>7, FitsStays
    <3>3. \A k \in 1..Len(e.game_rounds) : k > Len(d.game_rounds) => e.game_rounds[k] = row
      BY <1>1, <2>2, <2>3, <2>5
    <3> QED BY <2>5, <2>7, <3>1, <3>2, <3>3, NewRows
  <2>9. e.id \in 0..Len(e.game_rounds) /\ e.game_rounds[e.id] = row
    BY <2>2, <2>3, <2>5
  <2> QED BY <2>7, <2>8, <2>9
<1> QED BY <1>2, <1>3, <1>4, InsertCases

-----------------------------------------------------------------------------
\* Statements that store a row nobody will refer to.
LEMMA SaveFine ==
  ASSUME NEW d, Fine(d), NEW table \in {"guesses", "score_details"},
         NEW row, Fits(d, row), NEW e, e = Save(d, table, row)
  PROVE  Fine(e) /\ Kept(d, e)
<1>1. Typed(d)
  BY DEF Fine
<1>2. PICK s : s = Spend(d)
  OBVIOUS
<1>3. Unwritten(d, s) /\ Typed(s)
  BY <1>1, <1>2, SpendWritesNothing DEF Unwritten
<1>4. CASE ~Ready(d)
  BY <1>1, <1>4, UnwrittenSelf, UnwrittenFine DEF Save
<1>5. CASE Ready(d) /\ ~Answers(d)
  BY <1>1, <1>5, LostStatement, UnwrittenFine DEF Save
<1>6. CASE Ready(d) /\ Answers(d)
  <2>1. PICK t : t = s[table] \cup {row}
    OBVIOUS
  <2>2. e = [s EXCEPT ![table] = t]
    BY <1>2, <1>6, <2>1 DEF Save
  <2>3. /\ Typed(e) /\ Kept(s, e) /\ e.chat_messages = s.chat_messages
        /\ e.guesses \cup e.score_details = s.guesses \cup s.score_details \cup {row}
    BY <1>3, <2>1, <2>2 DEF Typed, Kept
  <2>4. Kept(d, e)
    BY <1>3, <2>3, KeptTwice DEF Unwritten
  <2>5. Grown(d, e) /\ Fits(e, row)
    BY <1>1, <2>3, <2>4, KeptIsGrown, FitsStays
  <2>6. \A r \in (e.guesses \cup e.score_details) \ (d.guesses \cup d.score_details) :
          Fits(e, r)
    BY <1>3, <2>3, <2>5 DEF Unwritten
  <2>7. \A k \in 1..Len(e.game_rounds) : ~(k > Len(d.game_rounds))
    BY <1>1, <2>4, Lengths DEF Kept
  <2>8. e.chat_messages = d.chat_messages
    BY <1>3, <2>3 DEF Unwritten
  <2> QED BY <2>3, <2>4, <2>5, <2>6, <2>7, <2>8, NewRows
<1> QED BY <1>4, <1>5, <1>6

LEMMA SaveReconnectingFine ==
  ASSUME NEW d, Fine(d), NEW row, ChatFits(d, row),
         NEW e, e = SaveReconnecting(d, "chat_messages", row)
  PROVE  Fine(e) /\ Kept(d, e)
<1>1. Typed(d)
  BY DEF Fine
<1>2. PICK s : s = Spend(d)
  OBVIOUS
<1>3. Unwritten(d, s) /\ Typed(s)
  BY <1>1, <1>2, SpendWritesNothing DEF Unwritten
<1>4. CASE d.crashed \/ d.link = "none" \/ ~Answers(d)
  BY <1>1, <1>4, QueryWritesNothing, UnwrittenFine DEF SaveReconnecting
<1>5. CASE ~(d.crashed \/ d.link = "none" \/ ~Answers(d))
  <2>1. PICK t : t = s.chat_messages \cup {row}
    OBVIOUS
  <2>2. e = [s EXCEPT !.chat_messages = t]
    BY <1>2, <1>5, <2>1 DEF SaveReconnecting
  <2>3. /\ Typed(e) /\ Kept(s, e) /\ e.chat_messages = s.chat_messages \cup {row}
        /\ e.guesses = s.guesses /\ e.score_details = s.score_details
    BY <1>3, <2>1, <2>2 DEF Typed, Kept
  <2>4. Kept(d, e)
    BY <1>3, <2>3, KeptTwice DEF Unwritten
  <2>5. Grown(d, e) /\ ChatFits(e, row)
    BY <1>1, <2>3, <2>4, KeptIsGrown, FitsStays
  <2>6. \A k \in 1..Len(e.game_rounds) : ~(k > Len(d.game_rounds))
    BY <1>1, <2>4, Lengths DEF Kept
  <2>7. e.guesses = d.guesses /\ e.score_details = d.score_details
        /\ e.chat_messages = d.chat_messages \cup {row}
    BY <1>3, <2>3 DEF Unwritten
  <2> QED BY <2>3, <2>4, <2>5, <2>6, <2>7, NewRows
<1> QED BY <1>4, <1>5

LEMMA MarkInProgressFine ==
  ASSUME NEW d, Fine(d), NEW k \in 1..Len(d.rooms), NEW e, e = MarkInProgress(d, k)
  PROVE  Fine(e) /\ Kept(d, e)
<1>1. Typed(d)
  BY DEF Fine
<1>2. PICK s : s = Spend(d)
  OBVIOUS
<1>3. Unwritten(d, s) /\ Typed(s) /\ Fine(s) /\ s.rooms = d.rooms
  BY <1>1, <1>2, SpendWritesNothing, UnwrittenFine DEF Unwritten
<1>4. CASE d.crashed \/ d.link = "none" \/ ~Answers(d)
  BY <1>1, <1>4, QueryWritesNothing, UnwrittenFine DEF MarkInProgress
<1>5. CASE ~(d.crashed \/ d.link = "none" \/ ~Answers(d))
  <2>1. PICK t : t = [s.rooms EXCEPT ![k].status = "in_progress"]
    OBVIOUS
  <2>2. e = [s EXCEPT !.rooms = t]
    BY <1>2, <1>5, <2>1 DEF MarkInProgress
  <2>3. t \in Seq(RoomRows) /\ Len(t) = Len(s.rooms)
    <3>1. s.rooms \in Seq(RoomRows) /\ k \in 1..Len(s.rooms)
      BY <1>3 DEF Typed
    <3>2. s.rooms[k] \in RoomRows
      BY <3>1, ElementOfSeq
    <3>3. [s.rooms[k] EXCEPT !.status = "in_progress"] \in RoomRows
      BY <3>2 DEF RoomRows
    <3>4. t = [s.rooms EXCEPT ![k] = [s.rooms[k] EXCEPT !.status = "in_progress"]]
      BY <2>1
    <3> QED BY <3>1, <3>3, <3>4, ExceptSeq
  <2>4. /\ Typed(e) /\ Kept(s, e)
        /\ e.guesses = s.guesses /\ e.score_details = s.score_details
        /\ e.chat_messages = s.chat_messages
    BY <1>3, <2>2, <2>3 DEF Typed, Kept
  <2>5. Fine(e)
    BY <1>3, <2>4 DEF Fine, RowsOK, Kept, Fits, RoundFits, ChatFits
  <2> QED BY <1>3, <2>4, <2>5, KeptTwice DEF Unwritten
<1> QED BY <1>4, <1>5

LEMMA SaveGameHistoryFine ==
  ASSUME NEW d, Fine(d), NEW rows \in Seq(HistoryEntries),
         NEW e, e = SaveGameHistory(d, rows)
  PROVE  Fine(e) /\ Kept(d, e)
<1>1. Typed(d) /\ Len(rows) \in Nat
  BY LenProperties DEF Fine
<1>2. PICK a \in Nat : a = IF d.fuse \in 0..Len(rows) THEN d.fuse ELSE Len(rows)
  BY <1>1
<1>3. PICK f : f = IF d.fuse > 0 THEN d.fuse - a ELSE d.fuse
  OBVIOUS
<1>4. f \in {NoFuse} \cup Nat
  BY <1>1, <1>2, <1>3 DEF Typed, NoFuse
<1>5. PICK l : l = IF a < Len(rows) THEN "null" ELSE d.link
  OBVIOUS
<1>6. l \in Links
  BY <1>1, <1>5 DEF Typed, Links
<1>7. PICK h : h = d.game_history \o SubSeq(rows, 1, a)
  OBVIOUS
<1>8. h \in Seq(HistoryEntries)
  <2>1. a <= Len(rows)
    BY <1>1, <1>2
  <2>2. SubSeq(rows, 1, a) \in Seq(HistoryEntries)
    BY <1>1, <2>1, SubSeqProperties, ElementOfSeq
  <2>3. d.game_history \in Seq(HistoryEntries)
    BY <1>1 DEF Typed
  <2> QED BY <1>7, <2>2, <2>3, ConcatProperties
<1>9. CASE ~Ready(d)
  BY <1>1, <1>9, UnwrittenSelf, UnwrittenFine DEF SaveGameHistory
<1>10. CASE Ready(d)
  <2>1. e = [d EXCEPT !.game_history = h, !.fuse = f, !.link = l]
    BY <1>2, <1>3, <1>5, <1>7, <1>10 DEF SaveGameHistory
  <2>2. /\ Typed(e) /\ Kept(d, e)
        /\ e.guesses = d.guesses /\ e.score_details = d.score_details
        /\ e.chat_messages = d.chat_messages
    BY <1>1, <1>4, <1>6, <1>8, <2>1 DEF Typed, Kept
  <2>3. Fine(e)
    BY <2>2 DEF Fine, RowsOK, Kept, Fits, RoundFits, ChatFits
  <2> QED BY <2>2, <2>3
<1> QED BY <1>9, <1>10


-----------------------------------------------------------------------------
(***************************************************************************)
(* The seats that a handler leaves behind: a game keeps them as they are,  *)
(* a player who enters takes the next one, and one who leaves outside a    *)
(* game makes the later ones move up.                                      *)
(***************************************************************************)
LEMMA NextRoundSeats ==
  ASSUME NEW r, r \in RoomType
  PROVE  NextRound(r).players = r.players
<1>1. RoomEndGame(r).players = r.players
  BY DEF RoomEndGame, RoomType
<1> QED BY <1>1, NextRoundCases, OpenRoundFields

LEMMA NextRoundTable ==
  ASSUME NEW r, r \in RoomType
  PROVE  NextRound(r).state = "PLAYING" => NextRound(r).game.scores = r.game.scores
<1>1. RoomEndGame(r).state = "FINISHED"
  BY DEF RoomEndGame, RoomType
<1> QED BY <1>1, NextRoundCases, OpenRoundFields

LEMMA ProcessGuessSeats ==
  ASSUME NEW r, Good(r), r.state = "PLAYING", r.game.open, NEW u \in Users
  PROVE  ProcessGuess(r, u).players = r.players
<1>1. PICK s : s = GameHandleGuess(r, u)
  OBVIOUS
<1>2. s.players = r.players
  BY <1>1, HandleGuessFields
<1>3. s \in RoomType
  BY <1>1, HandleGuessGood DEF Good, Base, SeatsTyped
<1> QED BY <1>1, <1>2, <1>3, NextRoundSeats DEF ProcessGuess

LEMMA EnterRoomSeats ==
  ASSUME NEW r, SeatsTyped(r), NEW u \in Users
  PROVE  EnterRoom(r, u).players = Append(r.players, u)
<1>1. PICK s : s = RoomAddPlayer(r, u)
  OBVIOUS
<1>2. s.players = Append(r.players, u)
  BY <1>1 DEF RoomAddPlayer, SeatsTyped, RoomType
<1>3. SeatsTyped(s)
  BY <1>1, AddPlayerSeats
<1>4. RoomStartGame(s).players = s.players
  <2>1. PICK f : f = [i \in Seats(s) |-> "active"]
    OBVIOUS
  <2>2. PICK t : t = [s EXCEPT !.state = "PLAYING", !.active = f]
    OBVIOUS
  <2>3. t.players = s.players /\ [t EXCEPT !.game = GameInit(t)].players = t.players
    BY <1>3, <2>2 DEF SeatsTyped, RoomType
  <2> QED BY <2>1, <2>2, <2>3 DEF RoomStartGame
<1> QED BY <1>1, <1>2, <1>4 DEF EnterRoom

LEMMA VacatedSeats ==
  ASSUME NEW r, r \in RoomType, NEW u
  PROVE  /\ RoomRemovePlayer(r, u).players =
              IF r.state = "PLAYING" THEN r.players ELSE RemoveAt(r.players, SeatOf(r, u))
         /\ RoomRemovePlayer(r, u).state = r.state
<1>1. PICK s : s = IF r.state = "PLAYING"
                   THEN [r EXCEPT !.active[SeatOf(r, u)] = "left"]
                   ELSE [r EXCEPT !.players = RemoveAt(r.players, SeatOf(r, u)),
                                  !.active  = RemoveAt(r.active, SeatOf(r, u))]
  OBVIOUS
<1>2. /\ s.players = IF r.state = "PLAYING" THEN r.players
                     ELSE RemoveAt(r.players, SeatOf(r, u))
      /\ s.state = r.state
      /\ [s EXCEPT !.owner = FirstActive(s)].players = s.players
      /\ [s EXCEPT !.owner = FirstActive(s)].state = s.state
  <2>1. CASE r.state = "PLAYING"
    BY <1>1, <2>1 DEF RoomType
  <2>2. CASE r.state # "PLAYING"
    BY <1>1, <2>2 DEF RoomType
  <2> QED BY <2>1, <2>2
<1>3. RoomRemovePlayer(r, u) = PassOwnership(s, u)
  BY <1>1 DEF RoomRemovePlayer
<1> QED BY <1>2, <1>3 DEF PassOwnership

LEMMA LeaveRoomSeats ==
  ASSUME NEW r, Good(r), Live(r), NEW u \in Users, HasPlayer(r, u),
         NEW s, s = LeaveRoom(r, u)
  PROVE  \/ ~Live(s) /\ s.players = <<>> /\ s.state # "PLAYING"
         \/ /\ Live(s)
            /\ s.players = IF r.state = "PLAYING" THEN r.players
                           ELSE RemoveAt(r.players, SeatOf(r, u))
            /\ s.state = "PLAYING" => r.state = "PLAYING" /\ s.game.scores = r.game.scores
<1>1. r \in RoomType
  BY DEF Good, Base, SeatsTyped
<1>2. PICK t : t = RoomRemovePlayer(r, u)
  OBVIOUS
<1>3. PICK e : e = (r.state = "PLAYING" /\ TooFewToPlay(t))
  OBVIOUS
<1>4. PICK k : k = EnsureActiveOwner(IF e THEN RoomEndGame(t) ELSE t)
  OBVIOUS
<1>5. s = IF ActiveSeats(t) = {} THEN Destroyed
          ELSE IF RoundOfDrawer(r, u) /\ ~e THEN NextRound(k) ELSE k
  BY <1>2, <1>3, <1>4 DEF LeaveRoom
<1>6. CASE ActiveSeats(t) = {}
  BY <1>5, <1>6 DEF Destroyed, NoRoom, Live
<1>7. CASE ActiveSeats(t) # {}
  <2>1. Base(t) /\ IsActive(t, t.owner) /\ t.state = r.state /\ t.game = r.game
    BY <1>2, <1>7, RemovePlayerBase
  <2>2. t.players = IF r.state = "PLAYING" THEN r.players
                    ELSE RemoveAt(r.players, SeatOf(r, u))
    BY <1>1, <1>2, VacatedSeats
  <2>3. t \in RoomType
    BY <2>1 DEF Base, SeatsTyped
  <2>4. CASE e
    <3>1. PICK q : q = RoomEndGame(t)
      OBVIOUS
    <3>2. q.players = t.players /\ q.active = t.active /\ q.state = "FINISHED"
          /\ q.owner = t.owner
      BY <2>3, <3>1 DEF RoomEndGame, RoomType
    <3>3. IsActive(q, q.owner)
      BY <2>1, <3>2 DEF IsActive, ActiveSeats, Seats
    <3>4. k = q
      BY <1>4, <2>4, <3>1, <3>3 DEF EnsureActiveOwner
    <3> QED BY <1>5, <1>7, <2>2, <2>4, <3>2, <3>4 DEF Live
  <2>5. CASE ~e
    <3>1. k = t
      BY <1>4, <2>1, <2>5 DEF EnsureActiveOwner
    <3>2. CASE RoundOfDrawer(r, u)
      <4>1. t.state = "PLAYING" /\ s = NextRound(t)
        BY <1>5, <1>7, <2>1, <2>5, <3>1, <3>2 DEF RoundOfDrawer
      <4> QED BY <2>1, <2>2, <2>3, <4>1, NextRoundSeats, NextRoundLive, NextRoundTable
    <3>3. CASE ~RoundOfDrawer(r, u)
      <4>1. s = t
        BY <1>5, <1>7, <2>5, <3>1, <3>3
      <4> QED BY <2>1, <2>2, <4>1 DEF Live
    <3> QED BY <3>2, <3>3
  <2> QED BY <2>4, <2>5
<1> QED BY <1>6, <1>7

-----------------------------------------------------------------------------
(***************************************************************************)
(* What the server remembers of the rows of room r is right: an id is 0,   *)
(* or that of a row of this room, and for a seat of its user.              *)
(***************************************************************************)
SeatRight(p, u, k, d) ==
  p > 0 => /\ p <= Len(d.room_players)
           /\ d.room_players[p].room = k /\ d.room_players[p].user = u

MemoryOK(r, i, d) ==
  /\ i \in [next_room_id : Nat \ {0}, room : Nat, players : Seq(Nat), round : Nat]
  /\ i.room <= Len(d.rooms)
  /\ Len(i.players) = Len(r.players)
  /\ \A k \in 1..Len(r.players) : SeatRight(i.players[k], r.players[k], i.room, d)
  /\ i.round > 0 => i.round <= Len(d.game_rounds) /\ d.game_rounds[i.round].room = i.room

IInv ==
  /\ Good(room) /\ Sound(room)
  /\ Fine(database)
  /\ MemoryOK(room, ids, database)

LEMMA MemoryStays ==
  ASSUME NEW r, NEW i, NEW d, NEW e, SeatsTyped(r), Typed(d), Typed(e),
         MemoryOK(r, i, d), Grown(d, e)
  PROVE  MemoryOK(r, i, e)
<1>1. /\ Len(d.rooms) \in Nat /\ Len(e.rooms) \in Nat
      /\ Len(d.room_players) \in Nat /\ Len(e.room_players) \in Nat
      /\ Len(d.game_rounds) \in Nat /\ Len(e.game_rounds) \in Nat
  BY Lengths
<1>2. ASSUME NEW p \in Nat, NEW u, NEW k, SeatRight(p, u, k, d)
      PROVE  SeatRight(p, u, k, e)
  BY <1>1, <1>2 DEF SeatRight, Grown, Same
<1>3. \A k \in 1..Len(r.players) : i.players[k] \in Nat
  BY ElementOfSeq DEF MemoryOK
<1>4. i.room <= Len(e.rooms)
  BY <1>1 DEF MemoryOK, Grown
<1>5. i.round > 0 => i.round <= Len(e.game_rounds) /\ e.game_rounds[i.round].room = i.room
  BY <1>1 DEF MemoryOK, Grown, Same
<1> QED BY <1>2, <1>3, <1>4, <1>5 DEF MemoryOK

LEMMA NothingToRemember ==
  ASSUME NEW r, r.players = <<>>, NEW n \in Nat \ {0}, NEW d, Typed(d)
  PROVE  MemoryOK(r, [NoIds EXCEPT !.next_room_id = n], d)
<1>1. PICK i : i = [NoIds EXCEPT !.next_room_id = n]
  OBVIOUS
<1>2. /\ i \in [next_room_id : Nat \ {0}, room : Nat, players : Seq(Nat), round : Nat]
      /\ i.room = 0 /\ i.players = <<>> /\ i.round = 0
  BY <1>1, EmptySeq DEF NoIds
<1>3. Len(i.players) = Len(r.players) /\ 1..Len(r.players) = {}
  BY <1>2
<1> QED BY <1>1, <1>2, <1>3, Lengths DEF MemoryOK

LEMMA NothingAtAll == ASSUME NEW d, Typed(d)  PROVE MemoryOK(NoRoom, NoIds, d)
<1>1. /\ NoIds \in [next_room_id : Nat \ {0}, room : Nat, players : Seq(Nat), round : Nat]
      /\ NoIds.next_room_id = 1 /\ NoRoom.players = <<>> /\ 1 \in Nat \ {0}
  BY EmptySeq DEF NoIds, NoRoom
<1>2. NoIds = [NoIds EXCEPT !.next_room_id = 1]
  BY <1>1
<1> QED BY <1>1, <1>2, NothingToRemember

\* The end of every handler, the crash included.
LEMMA FinishKeeps ==
  ASSUME NEW r, NEW i, NEW d, Good(r), Sound(r), Fine(d),
         ~d.crashed => MemoryOK(r, i, d), Finish(r, i, d)
  PROVE  IInv'
<1>1. PICK e : e = [d EXCEPT !.id = 0]
  OBVIOUS
<1>2. Fine(e) /\ Kept(d, e) /\ e.id = 0 /\ e.crashed = d.crashed /\ Typed(d) /\ Typed(e)
  BY <1>1, NumberForgotten DEF Fine
<1>3. database' = e
  BY <1>1 DEF Finish
<1>4. CASE d.crashed
  <2>1. room' = NoRoom /\ ids' = NoIds
    BY <1>4 DEF Finish
  <2>2. MemoryOK(NoRoom, NoIds, e)
    BY <1>2, NothingAtAll
  <2>3. Sound(NoRoom)
    BY IdleSound DEF NoRoom, Live
  <2> QED BY <1>2, <1>3, <2>1, <2>2, <2>3, NoRoomGood DEF IInv
<1>5. CASE ~d.crashed
  <2>1. room' = r /\ ids' = i
    BY <1>5 DEF Finish
  <2>2. SeatsTyped(r)
    BY DEF Good, Base
  <2>3. MemoryOK(r, i, e)
    BY <1>2, <1>5, <2>2, MemoryStays, KeptIsGrown
  <2> QED BY <1>2, <1>3, <2>1, <2>3 DEF IInv
<1> QED BY <1>4, <1>5


-----------------------------------------------------------------------------
\* The row remembered for user u is one of this room.
LEMMA PlayerRowRight ==
  ASSUME IInv, NEW u
  PROVE  /\ PlayerRow(u) \in Nat
         /\ PlayerRow(u) > 0 => /\ PlayerRow(u) \in 1..Len(database.room_players)
                                /\ database.room_players[PlayerRow(u)].room = ids.room
<1>1. CASE ~HasPlayer(room, u)
  BY <1>1 DEF PlayerRow
<1>2. CASE HasPlayer(room, u)
  <2>1. PICK k \in Seats(room) : k = SeatOf(room, u)
    BY <1>2, SeatOfUser DEF IInv, Good, Base
  <2>2. PlayerRow(u) = ids.players[k]
    BY <1>2, <2>1 DEF PlayerRow
  <2>3. k \in 1..Len(ids.players) /\ ids.players \in Seq(Nat)
    BY DEF IInv, MemoryOK, Seats
  <2>4. ids.players[k] \in Nat
    BY <2>3, ElementOfSeq
  <2>5. SeatRight(ids.players[k], room.players[k], ids.room, database)
    BY DEF IInv, MemoryOK, Seats
  <2>6. Len(database.room_players) \in Nat
    BY Lengths DEF IInv, Fine
  <2> QED BY <2>2, <2>4, <2>5, <2>6 DEF SeatRight
<1> QED BY <1>1, <1>2

\* A row about a player and the present round joins rows of one room.
LEMMA SaveIfKnownFine ==
  ASSUME IInv, NEW d, Fine(d), Kept(database, d),
         NEW table \in {"guesses", "score_details"}, NEW u,
         NEW row, row.round = ids.round, row.player = PlayerRow(u),
         NEW e, e = SaveIfKnown(d, table, u, row)
  PROVE  Fine(e) /\ Kept(database, e)
<1>1. CASE ~(ids.round > 0 /\ PlayerRow(u) > 0)
  BY <1>1 DEF SaveIfKnown
<1>2. CASE ids.round > 0 /\ PlayerRow(u) > 0
  <2>1. e = Save(d, table, row)
    BY <1>2 DEF SaveIfKnown
  <2>2. /\ ids.round \in Nat /\ ids.round <= Len(database.game_rounds)
        /\ database.game_rounds[ids.round].room = ids.room
    BY <1>2 DEF IInv, MemoryOK
  <2>3. Len(database.game_rounds) \in Nat
    BY Lengths DEF IInv, Fine
  <2>4. ids.round \in 1..Len(database.game_rounds)
    BY <1>2, <2>2, <2>3
  <2>5. Fits(d, row)
    BY <1>2, <2>2, <2>4, PlayerRowRight DEF Fits, Kept
  <2> QED BY <2>1, <2>5, SaveFine, KeptTwice
<1> QED BY <1>1, <1>2

(***************************************************************************)
(* The sort.  SortsBefore is a strict order of the scoring seats, so that  *)
(* each place from 1 to their number is taken by exactly one of them.      *)
(***************************************************************************)
LEMMA ScoringFacts ==
  ASSUME NEW r, SeatsTyped(r)
  PROVE  /\ IsFiniteSet(ScoringSeats(r)) /\ Cardinality(ScoringSeats(r)) \in Nat
         /\ ScoringSeats(r) \subseteq Seats(r)
         /\ \A i \in ScoringSeats(r) : /\ i \in Nat /\ r.players[i] \in Users
                                       /\ r.game.scores[r.players[i]] \in Nat
<1>1. 1 \in Int /\ Len(r.players) \in Int
  BY SeatFacts
<1>2. IsFiniteSet(Seats(r)) /\ ScoringSeats(r) \subseteq Seats(r)
  BY <1>1, FS_Interval DEF Seats, ScoringSeats
<1>3. IsFiniteSet(ScoringSeats(r)) /\ Cardinality(ScoringSeats(r)) \in Nat
  BY <1>2, FS_Subset, FS_CardinalityType
<1>4. r.game.scores \in ScoreTables
  BY DEF SeatsTyped, RoomType, GameType
<1>5. \A i \in ScoringSeats(r) : /\ i \in Nat /\ r.players[i] \in Users
                                 /\ r.game.scores[r.players[i]] \in Nat
  BY <1>4, SeatFacts DEF ScoreTables, ScoringSeats
<1> QED BY <1>2, <1>3, <1>5

LEMMA PlacesDiffer ==
  ASSUME NEW r, SeatsTyped(r), NEW i \in ScoringSeats(r), NEW j \in ScoringSeats(r),
         SortsBefore(r, j, i)
  PROVE  SortedPlace(r, j) < SortedPlace(r, i)
<1>1. PICK A : A = {k \in ScoringSeats(r) : SortsBefore(r, k, j)}
  OBVIOUS
<1>2. PICK B : B = {k \in ScoringSeats(r) : SortsBefore(r, k, i)}
  OBVIOUS
<1>3. A \subseteq B
  BY <1>1, <1>2, ScoringFacts DEF SortsBefore
<1>4. j \in B /\ j \notin A
  BY <1>1, <1>2, ScoringFacts DEF SortsBefore
<1>5. IsFiniteSet(B) /\ IsFiniteSet(A)
  BY <1>1, <1>2, ScoringFacts, FS_Subset
<1>6. Cardinality(A) \in Nat /\ Cardinality(B) \in Nat
  BY <1>5, FS_CardinalityType
<1>7. Cardinality(A) <= Cardinality(B) /\ Cardinality(A) # Cardinality(B)
  BY <1>3, <1>4, <1>5, FS_Subset
<1>8. SortedPlace(r, j) = 1 + Cardinality(A) /\ SortedPlace(r, i) = 1 + Cardinality(B)
  BY <1>1, <1>2 DEF SortedPlace
<1> QED BY <1>6, <1>7, <1>8

LEMMA PlaceInRange ==
  ASSUME NEW r, SeatsTyped(r), NEW i \in ScoringSeats(r)
  PROVE  SortedPlace(r, i) \in 1..Cardinality(ScoringSeats(r))
<1>1. PICK A : A = {k \in ScoringSeats(r) : SortsBefore(r, k, i)}
  OBVIOUS
<1>2. A \subseteq ScoringSeats(r) /\ i \notin A
  BY <1>1, ScoringFacts DEF SortsBefore
<1>3. IsFiniteSet(A)
  BY <1>2, ScoringFacts, FS_Subset
<1>4. Cardinality(A) \in Nat
  BY <1>3, FS_CardinalityType
<1>5. /\ Cardinality(A) <= Cardinality(ScoringSeats(r))
      /\ Cardinality(A) # Cardinality(ScoringSeats(r))
  BY <1>2, ScoringFacts, FS_Subset
<1>6. SortedPlace(r, i) = 1 + Cardinality(A)
  BY <1>1 DEF SortedPlace
<1> QED BY <1>4, <1>5, <1>6, ScoringFacts

\* The seat that HistoryRows chooses for rank k exists.
LEMMA SeatOfRank ==
  ASSUME NEW r, SeatsTyped(r), NEW k \in 1..Cardinality(ScoringSeats(r))
  PROVE  \E i \in ScoringSeats(r) : SortedPlace(r, i) = k
<1>1. PICK C : C = ScoringSeats(r)
  OBVIOUS
<1>2. PICK n \in Nat : n = Cardinality(C)
  BY <1>1, ScoringFacts
<1>3. PICK f : f = [i \in C |-> SortedPlace(r, i)]
  OBVIOUS
<1>4. f \in [C -> 1..n]
  BY <1>1, <1>2, <1>3, PlaceInRange
<1>5. ASSUME NEW i \in C, NEW j \in C, i # j  PROVE f[i] # f[j]
  <2>1. SortsBefore(r, i, j) \/ SortsBefore(r, j, i)
    BY <1>1, <1>5, ScoringFacts DEF SortsBefore
  <2>2. SortedPlace(r, i) < SortedPlace(r, j) \/ SortedPlace(r, j) < SortedPlace(r, i)
    BY <1>1, <2>1, PlacesDiffer
  <2>3. SortedPlace(r, i) \in Nat /\ SortedPlace(r, j) \in Nat
    BY <1>1, <1>2, PlaceInRange
  <2> QED BY <1>3, <2>2, <2>3
<1>6. f \in Injection(C, 1..n)
  BY <1>4, <1>5 DEF Injection, IsInjective
<1>7. IsFiniteSet(1..n) /\ Cardinality(1..n) = n
  BY FS_Interval
<1>8. f \in Surjection(C, 1..n)
  BY <1>2, <1>6, <1>7, FS_Injection
<1>9. PICK i \in C : f[i] = k
  BY <1>1, <1>2, <1>8 DEF Surjection
<1> QED BY <1>1, <1>3, <1>9

\* One row for each scoring seat, in falling order of the scores.
LEMMA HistoryInOrder ==
  ASSUME NEW r, SeatsTyped(r), NEW n, n = Cardinality(ScoringSeats(r)),
         NEW h, h = HistoryRows(r)
  PROVE  /\ n \in Nat /\ h \in Seq(HistoryEntries) /\ Len(h) = n
         /\ \A k \in 1..n :
              \E i \in ScoringSeats(r) : /\ SortedPlace(r, i) = k
                                         /\ h[k] = HistoryRow(r, i, k)
<1>1. n \in Nat
  BY ScoringFacts
<1>2. ASSUME NEW k \in 1..n
      PROVE  /\ \E i \in ScoringSeats(r) : SortedPlace(r, i) = k /\ h[k] = HistoryRow(r, i, k)
             /\ h[k] \in HistoryEntries
  <2>1. PICK i : i = CHOOSE j \in ScoringSeats(r) : SortedPlace(r, j) = k
    OBVIOUS
  <2>2. i \in ScoringSeats(r) /\ SortedPlace(r, i) = k
    BY <2>1, SeatOfRank
  <2>3. h[k] = HistoryRow(r, i, k)
    BY <2>1 DEF HistoryRows
  <2>4. HistoryRow(r, i, k) \in HistoryEntries
    BY <1>1, <2>2, ScoringFacts DEF HistoryRow, HistoryEntries
  <2> QED BY <2>2, <2>3, <2>4
<1>3. h = [k \in 1..n |-> h[k]]
  BY DEF HistoryRows
<1>4. h \in [1..n -> HistoryEntries]
  BY <1>2, <1>3
<1>5. h \in Seq(HistoryEntries)
  BY <1>1, <1>4, SeqDef
<1>6. Len(h) = n
  BY <1>1, <1>4, <1>5, LenProperties
<1> QED BY <1>1, <1>2, <1>5, <1>6

LEMMA SaveIfOverFine ==
  ASSUME NEW d, Fine(d), NEW r, SeatsTyped(r), NEW after, NEW e, e = SaveIfOver(d, r, after)
  PROVE  Fine(e) /\ Kept(d, e)
<1>1. Kept(d, d)
  BY DEF Kept
<1>2. HistoryRows(r) \in Seq(HistoryEntries)
  BY HistoryInOrder
<1> QED BY <1>1, <1>2, SaveGameHistoryFine DEF SaveIfOver

\* Where the seats stay, so does the memory of their rows.
LEMMA MemoryOfSeats ==
  ASSUME NEW r, NEW s, s.players = r.players, NEW i, NEW q, NEW d, NEW e,
         SeatsTyped(r), Fine(d), Fine(e), MemoryOK(r, i, d), Kept(d, e)
  PROVE  MemoryOK(s, ForgetRound(i, q), e) /\ MemoryOK(s, i, e)
<1>1. MemoryOK(r, i, e)
  BY MemoryStays, KeptIsGrown DEF Fine
<1>2. MemoryOK(s, i, e)
  BY <1>1 DEF MemoryOK
<1>3. MemoryOK(s, [i EXCEPT !.round = 0], e)
  BY <1>2 DEF MemoryOK
<1> QED BY <1>2, <1>3 DEF ForgetRound

-----------------------------------------------------------------------------
\* The row of a user who takes a seat.
LEMMA SeatRowFine ==
  ASSUME NEW d, Fine(d), NEW k \in Nat, NEW u \in Users, NEW order \in Nat,
         NEW e, e = SeatRow(d, k, u, order)
  PROVE  /\ Fine(e) /\ Grown(d, e) /\ (d.crashed => e.crashed)
         /\ ~e.crashed => e.id \in Nat /\ SeatRight(e.id, u, k, e)
<1>1. CASE k > 0
  <2>1. PICK row : row = [room |-> k, user |-> u, order |-> order]
    OBVIOUS
  <2>2. row \in SeatRows /\ row.room = k /\ row.user = u
    BY <2>1 DEF SeatRows
  <2>3. e = Insert(d, "room_players", row)
    BY <1>1, <2>1 DEF SeatRow
  <2>4. d.crashed => e.crashed
    BY <2>3 DEF Insert, Ready, Fine, Typed
  <2>5. /\ Fine(e) /\ Grown(d, e)
        /\ ~e.crashed => /\ e.id \in 0..Len(e.room_players)
                         /\ e.id > 0 => e.room_players[e.id] = row
    BY <2>2, <2>3, InsertSeat
  <2>6. Len(e.room_players) \in Nat
    BY <2>5, Lengths DEF Fine
  <2> QED BY <2>2, <2>4, <2>5, <2>6 DEF SeatRight
<1>2. CASE ~(k > 0)
  <2>1. e = [d EXCEPT !.id = 0]
    BY <1>2 DEF SeatRow
  <2>2. Fine(e) /\ Kept(d, e) /\ e.id = 0 /\ e.crashed = d.crashed
    BY <2>1, NumberForgotten
  <2> QED BY <2>2, KeptIsGrown DEF SeatRight, Fine
<1> QED BY <1>1, <1>2

LEMMA CreateKeeps ==
  ASSUME IInv, NEW u \in Users, NEW m, NEW n, CreateRoom(u, m, n)
  PROVE  IInv'
<1>1. PICK d : d = Insert(database, "rooms",
                         [code |-> ids.next_room_id, status |-> "waiting"])
  OBVIOUS
<1>2. PICK e : e = SeatRow(d, d.id, u, 1)
  OBVIOUS
<1>3. PICK r : r = RoomCreate(u, m, n)
  OBVIOUS
<1>4. PICK i : i = [next_room_id |-> ids.next_room_id + 1, room |-> d.id,
                    players |-> <<e.id>>, round |-> 0]
  OBVIOUS
<1>5. Finish(r, i, e) /\ m \in 2..MaxPlayersPerRoom /\ n \in 1..10
  BY <1>1, <1>2, <1>3, <1>4 DEF CreateRoom
<1>6. Good(r) /\ Sound(r)
  <2>1. Sound(r)
    BY <1>3, <1>5, IdleSound DEF RoomCreate
  <2> QED BY <1>3, <1>5, <2>1, RoomCreateGood
<1>7. ids.next_room_id \in Nat \ {0}
  BY DEF IInv, MemoryOK
<1>8. Fine(d) /\ Grown(database, d) /\ (~d.crashed => d.id \in 0..Len(d.rooms))
  <2>1. [code |-> ids.next_room_id, status |-> "waiting"] \in RoomRows
    BY <1>7 DEF RoomRows
  <2> QED BY <1>1, <2>1, InsertRoom DEF IInv
<1>9. d.id \in Nat
  BY <1>8 DEF Fine, Typed
<1>10. /\ Fine(e) /\ Grown(d, e) /\ (d.crashed => e.crashed)
       /\ ~e.crashed => e.id \in Nat /\ SeatRight(e.id, u, d.id, e)
  BY <1>2, <1>8, <1>9, SeatRowFine
<1>11. ASSUME ~e.crashed  PROVE MemoryOK(r, i, e)
  <2>1. d.id \in 0..Len(d.rooms) /\ e.id \in Nat /\ SeatRight(e.id, u, d.id, e)
    BY <1>8, <1>10, <1>11
  <2>2. d.id <= Len(e.rooms)
    BY <1>8, <1>10, <2>1, Lengths DEF Grown, Fine
  <2>3. PICK s : s = <<e.id>>
    OBVIOUS
  <2>4. s \in Seq(Nat) /\ Len(s) = 1 /\ s[1] = e.id
    BY <2>1, <2>3
  <2>5. r.players = <<u>> /\ Len(r.players) = 1 /\ r.players[1] = u
    BY <1>3 DEF RoomCreate
  <2>6. /\ i \in [next_room_id : Nat \ {0}, room : Nat, players : Seq(Nat), round : Nat]
        /\ i.room = d.id /\ i.players = s /\ i.round = 0
    BY <1>4, <1>7, <1>9, <2>3, <2>4
  <2>7. \A k \in 1..1 : SeatRight(i.players[k], r.players[k], i.room, e)
    BY <2>1, <2>4, <2>5, <2>6
  <2> QED BY <2>2, <2>4, <2>5, <2>6, <2>7 DEF MemoryOK
<1> QED BY <1>5, <1>6, <1>10, <1>11, FinishKeeps


\* A player who enters: the new row, if there is one, is that of the new seat.
LEMMA MemoryOfOneMore ==
  ASSUME NEW r, NEW s, NEW u, NEW i, NEW d, NEW p \in Nat,
         SeatsTyped(r), u \in Users, s.players = Append(r.players, u),
         MemoryOK(r, i, d), SeatRight(p, u, i.room, d)
  PROVE  MemoryOK(s, [i EXCEPT !.players = Append(i.players, p)], d)
<1>1. PICK a : a = Append(i.players, p)
  OBVIOUS
<1>2. PICK j : j = [i EXCEPT !.players = a]
  OBVIOUS
<1>3. PICK n \in Nat : n = Len(r.players)
  BY SeatFacts
<1>4. i.players \in Seq(Nat) /\ Len(i.players) = n
  BY <1>3 DEF MemoryOK
<1>5. a \in Seq(Nat) /\ Len(a) = n + 1 /\ (\A k \in 1..n : a[k] = i.players[k]) /\ a[n + 1] = p
  BY <1>1, <1>4, OneMore
<1>6. /\ Len(s.players) = n + 1 /\ s.players[n + 1] = u
      /\ \A k \in 1..n : s.players[k] = r.players[k]
  BY <1>3, OneMore DEF SeatsTyped, RoomType
<1>7. /\ j \in [next_room_id : Nat \ {0}, room : Nat, players : Seq(Nat), round : Nat]
      /\ j.room = i.room /\ j.players = a /\ j.round = i.round
  BY <1>2, <1>5 DEF MemoryOK
<1>8. ASSUME NEW k \in 1..(n + 1)
      PROVE  SeatRight(j.players[k], s.players[k], j.room, d)
  <2>1. CASE k = n + 1
    BY <1>5, <1>6, <1>7, <2>1
  <2>2. CASE k # n + 1
    <3>1. k \in 1..n
      BY <2>2
    <3> QED BY <1>3, <1>5, <1>6, <1>7, <3>1 DEF MemoryOK
  <2> QED BY <2>1, <2>2
<1>9. /\ j.room <= Len(d.rooms)
      /\ j.round > 0 => j.round <= Len(d.game_rounds) /\ d.game_rounds[j.round].room = j.room
  BY <1>7 DEF MemoryOK
<1> QED BY <1>1, <1>2, <1>5, <1>6, <1>7, <1>8, <1>9 DEF MemoryOK

LEMMA JoinKeeps == ASSUME IInv, NEW u \in Users, JoinRoom(u)  PROVE IInv'
<1>1. PICK r : r = EnterRoom(room, u)
  OBVIOUS
<1>2. PICK d : d = SeatRow(database, ids.room, u, Len(r.players))
  OBVIOUS
<1>3. PICK e : e = IF room.state = r.state THEN d ELSE Select(d)
  OBVIOUS
<1>4. PICK i : i = [ids EXCEPT !.players = Append(ids.players, d.id)]
  OBVIOUS
<1>5. Finish(r, i, e) /\ Live(room) /\ ~IsFull(room) /\ ~HasPlayer(room, u)
  BY <1>1, <1>2, <1>3, <1>4 DEF JoinRoom, RememberSeat
<1>6. Good(room) /\ Sound(room) /\ SeatsTyped(room) /\ Fine(database)
      /\ MemoryOK(room, ids, database)
  BY DEF IInv, Good, Base
<1>7. Good(r) /\ Sound(r) /\ r.players = Append(room.players, u)
  BY <1>1, <1>5, <1>6, EnterRoomGood, EnterRoomSound, EnterRoomSeats
<1>8. Len(r.players) \in Nat /\ ids.room \in Nat
  BY <1>6, <1>7, SeatFacts DEF Good, Base, MemoryOK
<1>9. /\ Fine(d) /\ Grown(database, d)
      /\ ~d.crashed => d.id \in Nat /\ SeatRight(d.id, u, ids.room, d)
  BY <1>2, <1>6, <1>8, SeatRowFine
<1>10. Fine(e) /\ Kept(d, e) /\ (d.crashed => e.crashed)
  <2>1. Unwritten(d, d) /\ Unwritten(d, Select(d))
    BY <1>9, UnwrittenSelf, SelectWritesNothing DEF Fine
  <2>2. Unwritten(d, e)
    BY <1>3, <2>1
  <2> QED BY <1>9, <2>2, UnwrittenFine DEF Unwritten
<1>11. ASSUME ~e.crashed  PROVE MemoryOK(r, i, e)
  <2>1. d.id \in Nat /\ SeatRight(d.id, u, ids.room, d)
    BY <1>9, <1>10, <1>11
  <2>2. MemoryOK(room, ids, d)
    BY <1>6, <1>9, MemoryStays DEF Fine
  <2>3. MemoryOK(r, i, d)
    BY <1>4, <1>6, <1>7, <2>1, <2>2, MemoryOfOneMore
  <2> QED BY <1>7, <1>9, <1>10, <2>3, MemoryOfSeats DEF Good, Base
<1> QED BY <1>5, <1>7, <1>10, <1>11, FinishKeeps

\* The row of the first round: of this room, by a drawer of this room.
LEMMA StartKeeps == ASSUME IInv, NEW u \in Users, StartGame(u)  PROVE IInv'
<1>1. PICK r : r = FirstRound(RoomStartGame(room))
  OBVIOUS
<1>2. PICK w : w = Select(database)
  OBVIOUS
<1>3. PICK p : p = PlayerRow(r.game.drawer)
  OBVIOUS
<1>4. PICK row : row = [room |-> ids.room, round |-> r.game.round, draw |-> p]
  OBVIOUS
<1>5. PICK d : d = IF ids.room > 0 /\ p > 0 THEN Insert(w, "game_rounds", row)
                   ELSE [w EXCEPT !.id = 0]
  OBVIOUS
<1>6. PICK e : e = IF ids.room > 0 THEN MarkInProgress(d, ids.room) ELSE d
  OBVIOUS
<1>7. PICK i : i = [ids EXCEPT !.round = d.id]
  OBVIOUS
<1>8. Finish(r, i, e) /\ CanStart(room)
  BY <1>1, <1>2, <1>3, <1>4, <1>5, <1>6, <1>7 DEF StartGame
<1>9. Good(room) /\ Sound(room) /\ Base(room) /\ SeatsTyped(room) /\ Fine(database)
      /\ Typed(database) /\ MemoryOK(room, ids, database)
  BY DEF IInv, Good, Base, Fine
<1>10. Good(r) /\ Sound(r) /\ r.players = room.players
  BY <1>1, <1>8, <1>9, FirstRoundGood, FirstRoundFields
<1>11. Unwritten(database, w) /\ Fine(w) /\ Kept(database, w) /\ Typed(w)
  BY <1>2, <1>9, SelectWritesNothing, UnwrittenFine DEF Fine
<1>12. MemoryOK(room, ids, w) /\ ids.room \in Nat /\ ids.room <= Len(w.rooms)
  <2>1. MemoryOK(room, ids, w)
    BY <1>9, <1>11, MemoryStays, KeptIsGrown
  <2> QED BY <2>1 DEF MemoryOK
<1>13. p \in Nat /\ (p > 0 => /\ p \in 1..Len(w.room_players)
                              /\ w.room_players[p].room = ids.room)
  BY <1>3, <1>11, PlayerRowRight DEF Kept
<1>14. /\ Fine(d) /\ Grown(w, d)
       /\ ~d.crashed => /\ d.id \in 0..Len(d.game_rounds)
                        /\ d.id > 0 => d.game_rounds[d.id].room = ids.room
  <2>1. CASE ids.room > 0 /\ p > 0
    <3>1. r.game.round \in Nat
      BY <1>10 DEF Good, Base, SeatsTyped, RoomType, GameType
    <3>2. row \in RoundRows /\ row.room = ids.room /\ row.draw = p
      BY <1>4, <1>12, <1>13, <3>1 DEF RoundRows
    <3>3. RoundFits(w, row)
      BY <1>13, <2>1, <3>2 DEF RoundFits
    <3>4. d = Insert(w, "game_rounds", row)
      BY <1>5, <2>1
    <3> QED BY <1>11, <3>2, <3>3, <3>4, InsertRound
  <2>2. CASE ~(ids.room > 0 /\ p > 0)
    <3>1. d = [w EXCEPT !.id = 0]
      BY <1>5, <2>2
    <3>2. Fine(d) /\ Kept(w, d) /\ d.id = 0
      BY <1>11, <3>1, NumberForgotten
    <3> QED BY <1>11, <3>2, KeptIsGrown, Lengths DEF Fine
  <2> QED BY <2>1, <2>2
<1>15. Fine(e) /\ Kept(d, e) /\ (d.crashed => e.crashed)
  <2>1. CASE ids.room > 0
    <3>1. ids.room \in 1..Len(d.rooms)
      BY <1>11, <1>12, <1>14, <2>1, Lengths DEF Grown, Fine
    <3>2. e = MarkInProgress(d, ids.room)
      BY <1>6, <2>1
    <3>3. d.crashed => e.crashed
      BY <3>2 DEF MarkInProgress, Query
    <3> QED BY <1>14, <3>1, <3>2, <3>3, MarkInProgressFine
  <2>2. CASE ~(ids.room > 0)
    BY <1>6, <1>14, <2>2 DEF Kept
  <2> QED BY <2>1, <2>2
<1>16. ASSUME ~e.crashed  PROVE MemoryOK(r, i, e)
  <2>1. d.id \in 0..Len(d.game_rounds) /\ (d.id > 0 => d.game_rounds[d.id].room = ids.room)
    BY <1>14, <1>15, <1>16
  <2>2. MemoryOK(room, ids, d)
    BY <1>9, <1>11, <1>12, <1>14, MemoryStays DEF Fine
  <2>3. Len(d.game_rounds) \in Nat
    BY <1>14, Lengths DEF Fine
  <2>4. /\ i \in [next_room_id : Nat \ {0}, room : Nat, players : Seq(Nat), round : Nat]
        /\ i.room = ids.room /\ i.players = ids.players /\ i.round = d.id
    BY <1>7, <2>1, <2>2, <2>3 DEF MemoryOK
  <2>5. MemoryOK(room, i, d)
    BY <2>1, <2>2, <2>3, <2>4 DEF MemoryOK
  <2> QED BY <1>9, <1>10, <1>14, <1>15, <2>5, MemoryOfSeats
<1> QED BY <1>8, <1>10, <1>15, <1>16, FinishKeeps

-----------------------------------------------------------------------------
LEMMA GuessRightKeeps == ASSUME IInv, NEW u \in Users, GuessRight(u)  PROVE IInv'
<1>1. PICK s : s = GameHandleGuess(room, u)
  OBVIOUS
<1>2. PICK r : r = ProcessGuess(room, u)
  OBVIOUS
<1>3. PICK order : order = Len(s.game.guessed)
  OBVIOUS
<1>4. PICK x : x = GuessRow(u, TRUE)
  OBVIOUS
<1>5. PICK y : y = ScoreRow(u, GuesserPoints(order))
  OBVIOUS
<1>6. PICK z : z = ScoreRow(s.game.drawer, DrawerPoints(order))
  OBVIOUS
<1>7. PICK d : d = SaveIfKnown(database, "guesses", u, x)
  OBVIOUS
<1>8. PICK e : e = SaveIfKnown(d, "score_details", u, y)
  OBVIOUS
<1>9. PICK f : f = SaveIfKnown(e, "score_details", s.game.drawer, z)
  OBVIOUS
<1>10. PICK h : h = SaveIfOver(f, s, r)
  OBVIOUS
<1>11. /\ room.state = "PLAYING" /\ room.game.open /\ HasPlayer(room, u)
       /\ u # room.game.drawer /\ Finish(r, ForgetRound(ids, r), h)
  BY <1>1, <1>2, <1>3, <1>4, <1>5, <1>6, <1>7, <1>8, <1>9, <1>10 DEF GuessRight
<1>12. Good(room) /\ Sound(room) /\ SeatsTyped(room) /\ Fine(database)
       /\ MemoryOK(room, ids, database)
  BY DEF IInv, Good, Base
<1>13. Good(r) /\ Sound(r) /\ r.players = room.players
  BY <1>2, <1>11, <1>12, ProcessGuessGood, ProcessGuessSound, ProcessGuessSeats
<1>14. SeatsTyped(s)
  BY <1>1, <1>11, <1>12, HandleGuessGood DEF Good, Base
<1>15. /\ x.round = ids.round /\ x.player = PlayerRow(u)
       /\ y.round = ids.round /\ y.player = PlayerRow(u)
       /\ z.round = ids.round /\ z.player = PlayerRow(s.game.drawer)
  BY <1>4, <1>5, <1>6 DEF GuessRow, ScoreRow
<1>16. Kept(database, database)
  BY DEF Kept
<1>17. Fine(d) /\ Kept(database, d)
  BY <1>7, <1>12, <1>15, <1>16, SaveIfKnownFine
<1>18. Fine(e) /\ Kept(database, e)
  BY <1>8, <1>15, <1>17, SaveIfKnownFine
<1>19. Fine(f) /\ Kept(database, f)
  BY <1>9, <1>15, <1>18, SaveIfKnownFine
<1>20. Fine(h) /\ Kept(database, h)
  BY <1>10, <1>14, <1>19, SaveIfOverFine, KeptTwice
<1>21. MemoryOK(r, ForgetRound(ids, r), h)
  BY <1>12, <1>13, <1>20, MemoryOfSeats
<1> QED BY <1>11, <1>13, <1>20, <1>21, FinishKeeps

LEMMA WrongGuessFine ==
  ASSUME IInv, NEW u \in Users, NEW d,
         d \in {database, SaveIfKnown(database, "guesses", u, GuessRow(u, FALSE))}
  PROVE  Fine(d) /\ Kept(database, d)
<1>1. PICK x : x = GuessRow(u, FALSE)
  OBVIOUS
<1>2. x.round = ids.round /\ x.player = PlayerRow(u)
  BY <1>1 DEF GuessRow
<1>3. Fine(database) /\ Kept(database, database)
  BY DEF IInv, Kept
<1>4. d = database \/ d = SaveIfKnown(database, "guesses", u, x)
  BY <1>1
<1> QED BY <1>2, <1>3, <1>4, SaveIfKnownFine

\* A text that is not the word changes neither the room nor what is remembered.
LEMMA TextKeeps ==
  ASSUME IInv, NEW d, Fine(d), Kept(database, d), Finish(room, ids, d)
  PROVE  IInv'
<1>1. MemoryOK(room, ids, d)
  BY MemoryOfSeats DEF IInv, Good, Base
<1> QED BY <1>1, FinishKeeps DEF IInv

LEMMA ChatKeeps == ASSUME IInv, NEW u \in Users, Chat(u)  PROVE IInv'
<1>1. PICK d : d = SaveWrongGuess(u)
  OBVIOUS
<1>2. PICK x : x = ChatRow(u)
  OBVIOUS
<1>3. PICK e : e = IF ids.room > 0 /\ PlayerRow(u) > 0
                   THEN SaveReconnecting(d, "chat_messages", x) ELSE d
  OBVIOUS
<1>4. Finish(room, ids, e)
  BY <1>1, <1>2, <1>3 DEF Chat
<1>5. Fine(d) /\ Kept(database, d)
  BY <1>1, WrongGuessFine DEF SaveWrongGuess
<1>6. CASE ids.room > 0 /\ PlayerRow(u) > 0
  <2>1. x.room = ids.room /\ x.player = PlayerRow(u)
    BY <1>2 DEF ChatRow
  <2>2. ChatFits(d, x)
    BY <1>5, <1>6, <2>1, PlayerRowRight DEF ChatFits, Kept
  <2>3. Fine(e) /\ Kept(d, e)
    BY <1>3, <1>5, <1>6, <2>2, SaveReconnectingFine
  <2> QED BY <1>4, <1>5, <2>3, KeptTwice, TextKeeps
<1>7. CASE ~(ids.room > 0 /\ PlayerRow(u) > 0)
  BY <1>3, <1>4, <1>5, <1>7, TextKeeps
<1> QED BY <1>6, <1>7

LEMMA TimeoutKeeps == ASSUME IInv, RoundTimeout  PROVE IInv'
<1>1. PICK r : r = NextRound(room)
  OBVIOUS
<1>2. PICK h : h = SaveIfOver(database, room, r)
  OBVIOUS
<1>3. room.state = "PLAYING" /\ Finish(r, ForgetRound(ids, r), h)
  BY <1>1, <1>2 DEF RoundTimeout
<1>4. Good(room) /\ Sound(room) /\ Base(room) /\ SeatsTyped(room) /\ Fine(database)
      /\ Playable(room) /\ room \in RoomType /\ MemoryOK(room, ids, database)
  BY <1>3 DEF IInv, Good, Base, Sound, SeatsTyped
<1>5. Good(r) /\ Sound(r) /\ r.players = room.players
  BY <1>1, <1>3, <1>4, NextRoundGood, NextRoundSound, NextRoundSeats
<1>6. Fine(h) /\ Kept(database, h)
  BY <1>2, <1>4, SaveIfOverFine
<1>7. MemoryOK(r, ForgetRound(ids, r), h)
  BY <1>4, <1>5, <1>6, MemoryOfSeats
<1> QED BY <1>3, <1>5, <1>6, <1>7, FinishKeeps


\* The array of ids shifts along with the array of seats.
LEMMA MemoryOfOneLess ==
  ASSUME NEW r, NEW s, NEW k \in Seats(r), NEW i, NEW d,
         SeatsTyped(r), s.players = RemoveAt(r.players, k), MemoryOK(r, i, d)
  PROVE  MemoryOK(s, [i EXCEPT !.players = RemoveAt(i.players, k)], d)
<1>1. PICK a : a = RemoveAt(i.players, k)
  OBVIOUS
<1>2. PICK j : j = [i EXCEPT !.players = a]
  OBVIOUS
<1>3. PICK n \in Nat : n = Len(r.players)
  BY SeatFacts
<1>4. i.players \in Seq(Nat) /\ Len(i.players) = n /\ k \in 1..n
  BY <1>3 DEF MemoryOK, Seats
<1>5. /\ a \in Seq(Nat) /\ Len(a) = n - 1
      /\ \A q \in 1..(n - 1) : a[q] = IF q < k THEN i.players[q] ELSE i.players[q + 1]
  BY <1>1, <1>4, RemoveAtSeat
<1>6. /\ Len(s.players) = n - 1
      /\ \A q \in 1..(n - 1) :
           s.players[q] = IF q < k THEN r.players[q] ELSE r.players[q + 1]
  <2>1. r.players \in Seq(Users) /\ Len(r.players) = n
    BY <1>3 DEF SeatsTyped, RoomType
  <2>2. PICK p \in Seq(Users) : p = r.players
    BY <2>1
  <2>3. /\ Len(RemoveAt(p, k)) = Len(p) - 1
        /\ \A q \in 1..(Len(p) - 1) :
             RemoveAt(p, k)[q] = IF q < k THEN p[q] ELSE p[q + 1]
    <3>1. k \in 1..Len(p)
      BY <1>4, <2>1, <2>2
    <3> QED BY <2>2, <3>1, RemoveAtSeat
  <2> QED BY <2>1, <2>2, <2>3
<1>7. /\ j \in [next_room_id : Nat \ {0}, room : Nat, players : Seq(Nat), round : Nat]
      /\ j.room = i.room /\ j.players = a /\ j.round = i.round
  <2>1. i \in [next_room_id : Nat \ {0}, room : Nat, players : Seq(Nat), round : Nat]
    BY DEF MemoryOK
  <2> QED BY <1>2, <1>5, <2>1
<1>8. ASSUME NEW q \in 1..(n - 1)
      PROVE  SeatRight(j.players[q], s.players[q], j.room, d)
  <2>1. \A x \in 1..n : SeatRight(i.players[x], r.players[x], i.room, d)
    BY <1>3 DEF MemoryOK
  <2>2. CASE q < k
    <3>1. q \in 1..n /\ a[q] = i.players[q] /\ s.players[q] = r.players[q]
      BY <1>3, <1>5, <1>6, <2>2
    <3> QED BY <1>7, <2>1, <3>1
  <2>3. CASE ~(q < k)
    <3>1. q + 1 \in 1..n /\ a[q] = i.players[q + 1] /\ s.players[q] = r.players[q + 1]
      BY <1>3, <1>5, <1>6, <2>3
    <3> QED BY <1>7, <2>1, <3>1
  <2> QED BY <2>2, <2>3
<1>9. /\ j.room <= Len(d.rooms)
      /\ j.round > 0 => j.round <= Len(d.game_rounds) /\ d.game_rounds[j.round].room = j.room
  BY <1>7 DEF MemoryOK
<1> QED BY <1>1, <1>2, <1>5, <1>6, <1>7, <1>8, <1>9 DEF MemoryOK

LEMMA LeaveKeeps == ASSUME IInv, NEW u \in Users, LeaveRoomOf(u)  PROVE IInv'
<1>1. PICK r : r = LeaveRoom(room, u)
  OBVIOUS
<1>2. PICK k : k = SeatOf(room, u)
  OBVIOUS
<1>3. PICK i : i = IF ~Live(r) THEN [NoIds EXCEPT !.next_room_id = ids.next_room_id]
                   ELSE IF room.state = "PLAYING" THEN ids
                   ELSE [ids EXCEPT !.players = RemoveAt(ids.players, k)]
  OBVIOUS
<1>4. PICK h : h = SaveIfOver(database, room, r)
  OBVIOUS
<1>5. Live(room) /\ HasPlayer(room, u) /\ Finish(r, ForgetRound(i, r), h)
  BY <1>1, <1>2, <1>3, <1>4 DEF LeaveRoomOf, ShiftDown
<1>6. Good(room) /\ Sound(room) /\ SeatsTyped(room) /\ Fine(database) /\ Typed(database)
      /\ MemoryOK(room, ids, database)
  BY DEF IInv, Good, Base, Fine
<1>7. Good(r) /\ Sound(r) /\ SeatsTyped(r)
  BY <1>1, <1>5, <1>6, LeaveRoomGood, LeaveRoomSound DEF Good, Base
<1>8. \/ ~Live(r) /\ r.players = <<>>
      \/ Live(r) /\ r.players = IF room.state = "PLAYING" THEN room.players
                                ELSE RemoveAt(room.players, k)
  BY <1>1, <1>2, <1>5, <1>6, LeaveRoomSeats
<1>9. MemoryOK(r, i, database)
  <2>1. CASE ~Live(r)
    <3>1. ids.next_room_id \in Nat \ {0}
      BY <1>6 DEF MemoryOK
    <3> QED BY <1>3, <1>6, <1>8, <2>1, <3>1, NothingToRemember
  <2>2. CASE Live(r) /\ room.state = "PLAYING"
    <3>1. i = ids /\ r.players = room.players
      BY <1>3, <1>8, <2>2
    <3> QED BY <1>6, <3>1 DEF MemoryOK
  <2>3. CASE Live(r) /\ room.state # "PLAYING"
    <3>1. /\ i = [ids EXCEPT !.players = RemoveAt(ids.players, k)]
          /\ r.players = RemoveAt(room.players, k)
      BY <1>3, <1>8, <2>3
    <3>2. k \in Seats(room)
      BY <1>2, <1>5, <1>6, SeatOfUser
    <3> QED BY <1>6, <3>1, <3>2, MemoryOfOneLess
  <2> QED BY <2>1, <2>2, <2>3
<1>10. Fine(h) /\ Kept(database, h)
  BY <1>4, <1>6, SaveIfOverFine
<1>11. MemoryOK(r, ForgetRound(i, r), h)
  BY <1>6, <1>7, <1>9, <1>10, MemoryOfSeats
<1> QED BY <1>5, <1>7, <1>10, <1>11, FinishKeeps

-----------------------------------------------------------------------------
LEMMA AccountKeeps == ASSUME IInv, Account  PROVE IInv'
<1>1. PICK d \in {Query(database), RegisterUser(database), ChangePassword(database),
                  Select(database)} : Finish(room, ids, d)
  BY DEF Account
<1>2. Fine(d) /\ Kept(database, d)
  BY AccountWritesNothing, UnwrittenFine DEF IInv, Fine
<1> QED BY <1>1, <1>2, TextKeeps

\* The link and the fuse are of no consequence for the rows.
LEMMA LinkKeeps ==
  ASSUME IInv, NEW k \in Links, NEW f \in {NoFuse} \cup Nat, NEW c \in BOOLEAN,
         NEW d, d = [database EXCEPT !.crashed = c, !.link = k, !.fuse = f]
  PROVE  Fine(d) /\ Kept(database, d)
<1>1. Typed(database) /\ Fine(database)
  BY DEF IInv, Fine
<1>2. /\ Typed(d) /\ Kept(database, d) /\ d.guesses = database.guesses
      /\ d.score_details = database.score_details
      /\ d.chat_messages = database.chat_messages
  BY <1>1 DEF Typed, Kept
<1> QED BY <1>1, <1>2 DEF Fine, RowsOK, Fits, RoundFits, ChatFits, Kept

LEMMA LinkStepKeeps ==
  ASSUME IInv, Recover \/ Restart \/ \E k \in Fuses : Lose(k)  PROVE IInv'
<1>1. /\ Typed(database) /\ database.link \in Links /\ database.crashed \in BOOLEAN
      /\ database.fuse \in {NoFuse} \cup Nat
  BY DEF IInv, Fine, Typed
<1>2. ASSUME NEW d, Fine(d), Kept(database, d), database' = d, room' = room, ids' = ids
      PROVE  IInv'
  <2>1. MemoryOK(room, ids, d)
    BY <1>2, MemoryOfSeats DEF IInv, Good, Base
  <2> QED BY <1>2, <2>1 DEF IInv
<1>3. CASE Recover
  <2>1. PICK d : d = [database EXCEPT !.fuse = NoFuse]
    OBVIOUS
  <2>2. d = [database EXCEPT !.crashed = database.crashed, !.link = database.link,
                             !.fuse = NoFuse]
    BY <1>1, <2>1 DEF Typed
  <2>3. Fine(d) /\ Kept(database, d)
    BY <1>1, <2>2, LinkKeeps
  <2> QED BY <1>2, <1>3, <2>1, <2>3 DEF Recover
<1>4. ASSUME NEW k \in Fuses, Lose(k)  PROVE IInv'
  <2>1. PICK d : d = [database EXCEPT !.fuse = k]
    OBVIOUS
  <2>2. d = [database EXCEPT !.crashed = database.crashed, !.link = database.link,
                             !.fuse = k]
    BY <1>1, <2>1 DEF Typed
  <2>3. k \in Nat
    BY RecordsAssumption
  <2>4. Fine(d) /\ Kept(database, d)
    BY <1>1, <2>2, <2>3, LinkKeeps
  <2> QED BY <1>2, <1>4, <2>1, <2>4 DEF Lose
<1>5. CASE Restart
  <2>1. PICK l : l = IF Answers(database) THEN "open" ELSE "none"
    OBVIOUS
  <2>2. PICK d : d = [database EXCEPT !.crashed = FALSE, !.link = l]
    OBVIOUS
  <2>3. d = [database EXCEPT !.crashed = FALSE, !.link = l, !.fuse = database.fuse]
    BY <1>1, <2>2 DEF Typed
  <2>4. Fine(d) /\ Kept(database, d)
    BY <1>1, <2>1, <2>3, LinkKeeps DEF Links
  <2>5. MemoryOK(NoRoom, NoIds, d)
    BY <2>4, NothingAtAll DEF Fine
  <2>6. Sound(NoRoom)
    BY IdleSound DEF NoRoom, Live
  <2>7. database' = d /\ room' = NoRoom /\ ids' = NoIds
    BY <1>5, <2>1, <2>2 DEF Restart
  <2> QED BY <2>4, <2>5, <2>6, <2>7, NoRoomGood DEF IInv
<1> QED BY <1>3, <1>4, <1>5

LEMMA RecordsInitGood == RecordsInit => IInv
<1> SUFFICES ASSUME RecordsInit  PROVE IInv
  OBVIOUS
<1>1. room = NoRoom /\ ids = NoIds /\ database = EmptyDatabase
  BY DEF RecordsInit, Init
<1>2. Typed(EmptyDatabase)
  BY EmptySeq DEF EmptyDatabase, Typed, Links, NoFuse
<1>3. Fine(EmptyDatabase)
  BY <1>2, EmptySeq DEF EmptyDatabase, Fine, RowsOK
<1>4. MemoryOK(NoRoom, NoIds, EmptyDatabase)
  BY <1>2, NothingAtAll
<1>5. Sound(NoRoom)
  BY IdleSound DEF NoRoom, Live
<1> QED BY <1>1, <1>3, <1>4, <1>5, NoRoomGood DEF IInv

\* Every handler, every loss and every restart keeps the inductive invariant.
LEMMA RecordsNextGood == IInv /\ [RecordsNext]_recordVars => IInv'
<1> SUFFICES ASSUME IInv, [RecordsNext]_recordVars  PROVE IInv'
  OBVIOUS
<1>1. ASSUME NEW u \in Users, NEW m \in RequestedSizes, NEW n \in RequestedRounds,
             CreateRoom(u, m, n)
      PROVE  IInv'
  BY <1>1, CreateKeeps
<1>2. ASSUME NEW u \in Users, JoinRoom(u)  PROVE IInv'
  BY <1>2, JoinKeeps
<1>3. ASSUME NEW u \in Users, StartGame(u)  PROVE IInv'
  BY <1>3, StartKeeps
<1>4. ASSUME NEW u \in Users, LeaveRoomOf(u)  PROVE IInv'
  BY <1>4, LeaveKeeps
<1>5. ASSUME NEW u \in Users, GuessRight(u)  PROVE IInv'
  BY <1>5, GuessRightKeeps
<1>6. ASSUME NEW u \in Users, GuessWrong(u)  PROVE IInv'
  <2>1. PICK d : d = SaveIfKnown(database, "guesses", u, GuessRow(u, FALSE))
    OBVIOUS
  <2>2. Fine(d) /\ Kept(database, d)
    BY <1>6, <2>1, WrongGuessFine
  <2> QED BY <1>6, <2>1, <2>2, TextKeeps DEF GuessWrong
<1>7. ASSUME NEW u \in Users, Chat(u)  PROVE IInv'
  BY <1>7, ChatKeeps
<1>8. CASE RoundTimeout
  BY <1>8, TimeoutKeeps
<1>9. CASE Account
  BY <1>9, AccountKeeps
<1>10. CASE Recover \/ Restart \/ \E k \in Fuses : Lose(k)
  BY <1>10, LinkStepKeeps
<1>11. CASE UNCHANGED recordVars
  <2>1. room' = room /\ ids' = ids /\ database' = database
    BY <1>11 DEF recordVars
  <2> QED BY <2>1 DEF IInv
<1> QED BY <1>1, <1>2, <1>3, <1>4, <1>5, <1>6, <1>7, <1>8, <1>9, <1>10, <1>11 DEF RecordsNext

\* The inductive invariant holds in every state Records can reach.
THEOREM RecordsInvariance == RecordsSpec => []IInv
<1> QED BY RecordsInitGood, RecordsNextGood, PTL DEF RecordsSpec

-----------------------------------------------------------------------------
(***************************************************************************)
(* Every id that is remembered is that of a row that exists, and there is  *)
(* one for every seat, whatever statements the database did not answer.    *)
(***************************************************************************)
THEOREM RecordsTypes == RecordsSpec => []RecordsTypeOK
<1>1. ASSUME IInv  PROVE RecordsTypeOK
  <2>1. TypeOK
    BY <1>1 DEF IInv, Good, Base, SeatsTyped, TypeOK
  <2>2. MemoryOK(room, ids, database) /\ Typed(database)
    BY <1>1 DEF IInv, Fine
  <2>3. PICK n \in Nat : n = Len(database.room_players)
    BY <2>2, Lengths
  <2>4. \A k \in 1..Len(ids.players) : ids.players[k] \in 0..n
    <3>1. ASSUME NEW k \in 1..Len(ids.players)  PROVE ids.players[k] \in 0..n
      <4>1. ids.players[k] \in Nat
        BY <2>2, ElementOfSeq DEF MemoryOK
      <4>2. SeatRight(ids.players[k], room.players[k], ids.room, database)
        BY <2>2 DEF MemoryOK
      <4> QED BY <2>3, <4>1, <4>2 DEF SeatRight
    <3> QED BY <3>1
  <2>5. ids.players \in Seq(0..n)
    <3>1. ids.players \in Seq(Nat)
      BY <2>2 DEF MemoryOK
    <3>2. PICK k \in Nat : k = Len(ids.players)
      BY <3>1, LenProperties
    <3>3. ids.players \in [1..k -> Nat]
      BY <3>1, <3>2, LenProperties
    <3>4. ids.players \in [1..k -> 0..n]
      BY <2>4, <3>2, <3>3
    <3> QED BY <3>4, SeqDef
  <2>6. ids.room \in 0..Len(database.rooms) /\ ids.round \in 0..Len(database.game_rounds)
    BY <2>2, Lengths DEF MemoryOK
  <2>7. ids \in [next_room_id : Nat \ {0}, room : 0..Len(database.rooms),
                 players : Seq(0..Len(database.room_players)),
                 round : 0..Len(database.game_rounds)]
    <3>1. ids \in [next_room_id : Nat \ {0}, room : Nat, players : Seq(Nat), round : Nat]
      BY <2>2 DEF MemoryOK
    <3> QED BY <2>3, <2>5, <2>6, <3>1
  <2>8. Len(ids.players) = Len(room.players)
    BY <2>2 DEF MemoryOK
  <2> QED BY <2>1, <2>2, <2>7, <2>8 DEF RecordsTypeOK, Typed
<1> QED BY <1>1, RecordsInvariance, PTL

(***************************************************************************)
(* The id remembered for a seat is that of a row of this room and of the   *)
(* user in that seat, through every shift of the seats, every row that     *)
(* could not be written and every crash.                                   *)
(***************************************************************************)
THEOREM SeatsKeepTheirRows == RecordsSpec => []SeatsHaveTheirRows
<1>1. IInv => SeatsHaveTheirRows
  BY DEF IInv, MemoryOK, SeatRight, SeatsHaveTheirRows, Seats
<1> QED BY <1>1, RecordsInvariance, PTL

(***************************************************************************)
(* Rounds, guesses, points and chat messages join rows of one room, also   *)
(* those written before a restart gave the same room_id to another room.   *)
(***************************************************************************)
THEOREM RowsBelongTogether == RecordsSpec => []RowsFitTogether
<1>1. IInv => RowsFitTogether
  BY DEF IInv, Fine, RowsOK, Fits, RoundFits, ChatFits, RowsFitTogether, SameRoom
<1> QED BY <1>1, RecordsInvariance, PTL


-----------------------------------------------------------------------------
(***************************************************************************)
(* The history of a game.  Nobody has an entry in the score table who has  *)
(* no seat, so there are as many entries as scoring seats.                 *)
(***************************************************************************)
ScoredSeated(r) == \A u \in Users : r.game.scores[u] # NoEntry => HasPlayer(r, u)

LEMMA IdleScored ==
  ASSUME NEW r, Good(r), r.state # "PLAYING"  PROVE ScoredSeated(r)
BY DEF ScoredSeated, Good, Base, GameOnlyInPlay, NoGame

\* While the seats stay, or are followed by more, only the entries matter.
LEMMA ScoredStays ==
  ASSUME NEW r, NEW s, SeatsTyped(r), ScoredSeated(r), s.game.scores = r.game.scores,
         s.players = r.players \/ \E u \in Users : s.players = Append(r.players, u)
  PROVE  ScoredSeated(s)
<1>1. CASE s.players = r.players
  BY <1>1 DEF ScoredSeated, HasPlayer, Seats
<1>2. ASSUME NEW u \in Users, s.players = Append(r.players, u)
      PROVE  ScoredSeated(s)
  <2>1. r.players \in Seq(Users) /\ Len(r.players) \in Nat
    BY SeatFacts DEF SeatsTyped, RoomType
  <2>2. /\ Len(s.players) = Len(r.players) + 1
        /\ \A i \in 1..Len(r.players) : s.players[i] = r.players[i]
    BY <1>2, <2>1, OneMore
  <2>3. \A v : HasPlayer(r, v) => HasPlayer(s, v)
    BY <2>1, <2>2 DEF HasPlayer, Seats
  <2> QED BY <2>3 DEF ScoredSeated
<1> QED BY <1>1, <1>2

LEMMA GuessScored ==
  ASSUME NEW r, Good(r), r.state = "PLAYING", r.game.open, ScoredSeated(r),
         NEW u \in Users, HasPlayer(r, u)
  PROVE  ScoredSeated(GameHandleGuess(r, u))
<1>1. PICK s : s = GameHandleGuess(r, u)
  OBVIOUS
<1>2. CASE HasGuessed(r, u)
  BY <1>1, <1>2, HandleGuessFields
<1>3. CASE ~HasGuessed(r, u)
  <2>1. PICK order : order = Len(r.game.guessed) + 1
    OBVIOUS
  <2>2. PICK mine : mine = AddPoints(r, r.game.scores, u, GuesserPoints(order))
    OBVIOUS
  <2>3. /\ s.players = r.players
        /\ s.game.scores = AddPoints(r, mine, r.game.drawer, DrawerPoints(order))
    BY <1>1, <1>3, <2>1, <2>2, HandleGuessFields
  <2>4. HasPlayer(r, r.game.drawer) /\ r.game.drawer \in Users
    BY SeatFacts DEF Good, Base, DrawerSeated, HasPlayer
  <2>5. ASSUME NEW t \in ScoreTables, NEW v \in Users, HasPlayer(r, v), NEW p \in Nat,
               \A x \in Users : t[x] # NoEntry => HasPlayer(r, x)
        PROVE  /\ AddPoints(r, t, v, p) \in ScoreTables
               /\ \A x \in Users : AddPoints(r, t, v, p)[x] # NoEntry => HasPlayer(r, x)
    <3>1. PICK w : w = IF t[v] # NoEntry THEN t ELSE ZeroScores(r)
      OBVIOUS
    <3>2. AddPoints(r, t, v, p) = [w EXCEPT ![v] = w[v] + p]
      BY <3>1 DEF AddPoints
    <3>3. \A x \in Users : w[x] # NoEntry => HasPlayer(r, x)
      BY <2>5, <3>1 DEF ZeroScores
    <3>4. w \in ScoreTables
      BY <2>5, <3>1 DEF ZeroScores, ScoreTables
    <3>5. \A x \in Users : x # v => [w EXCEPT ![v] = w[v] + p][x] = w[x]
      BY <3>4 DEF ScoreTables
    <3>6. AddPoints(r, t, v, p) \in ScoreTables
      BY <2>5, AddPointsTyped
    <3> QED BY <2>5, <3>2, <3>3, <3>5, <3>6
  <2>6. GuesserPoints(order) \in Nat /\ DrawerPoints(order) \in Nat
    BY DEF GuesserPoints, DrawerPoints
  <2>7. r.game.scores \in ScoreTables
    BY DEF Good, Base, SeatsTyped, RoomType, GameType
  <2>8. mine \in ScoreTables /\ \A x \in Users : mine[x] # NoEntry => HasPlayer(r, x)
    BY <2>2, <2>5, <2>6, <2>7 DEF ScoredSeated
  <2>9. \A x \in Users : s.game.scores[x] # NoEntry => HasPlayer(r, x)
    BY <2>3, <2>4, <2>5, <2>6, <2>8
  <2> QED BY <1>1, <2>3, <2>9 DEF ScoredSeated, HasPlayer, Seats
<1> QED BY <1>2, <1>3

LEMMA ScoredStep ==
  ASSUME IInv, ScoredSeated(room), [RecordsNext]_recordVars  PROVE ScoredSeated(room')
<1>1. Good(room) /\ Sound(room) /\ Base(room) /\ SeatsTyped(room) /\ room \in RoomType
  BY DEF IInv, Good, Base, SeatsTyped
<1>2. IInv' /\ Good(room')
  BY RecordsNextGood DEF IInv
<1>3. ASSUME NEW r, NEW i, NEW d, Finish(r, i, d), r.state = "PLAYING" => ScoredSeated(r)
      PROVE  ScoredSeated(room')
  <2>1. CASE room' = r
    BY <1>2, <1>3, <2>1, IdleScored
  <2>2. CASE room' = NoRoom
    BY <1>2, <2>2, IdleScored DEF NoRoom
  <2> QED BY <1>3, <2>1, <2>2 DEF Finish
<1>4. ASSUME NEW u \in Users, NEW m, NEW n, CreateRoom(u, m, n)
      PROVE  ScoredSeated(room')
  <2>1. RoomCreate(u, m, n).state # "PLAYING"
    BY DEF RoomCreate
  <2> QED BY <1>3, <1>4, <2>1 DEF CreateRoom
<1>5. ASSUME NEW u \in Users, JoinRoom(u)  PROVE ScoredSeated(room')
  <2>1. PICK s : s = RoomAddPlayer(room, u)
    OBVIOUS
  <2>2. s.players = Append(room.players, u) /\ s.game = room.game /\ SeatsTyped(s)
        /\ s.state = room.state
    <3>1. SeatsTyped(s)
      BY <1>1, <2>1, AddPlayerSeats
    <3> QED BY <1>1, <2>1, <3>1 DEF RoomAddPlayer, RoomType
  <2>3. ScoredSeated(s)
    BY <1>1, <2>2, ScoredStays
  <2>4. CanStart(s) => ScoredSeated(RoomStartGame(s))
    <3>1. CanStart(s) => /\ RoomStartGame(s).players = s.players
                         /\ RoomStartGame(s).game.scores = ZeroScores(s)
      BY <2>2, StartGameFields DEF CanStart
    <3> QED BY <3>1 DEF ScoredSeated, ZeroScores, HasPlayer, Seats
  <2>5. ScoredSeated(EnterRoom(room, u))
    BY <2>1, <2>3, <2>4 DEF EnterRoom
  <2> QED BY <1>3, <1>5, <2>5 DEF JoinRoom
<1>6. ASSUME NEW u \in Users, StartGame(u)  PROVE ScoredSeated(room')
  <2>1. CanStart(room) /\ Len(room.players) >= 2
    BY <1>6 DEF StartGame, CanStart
  <2>2. PICK s : s = RoomStartGame(room)
    OBVIOUS
  <2>3. s.players = room.players /\ s.game.scores = ZeroScores(room) /\ s \in RoomType
    BY <1>1, <2>1, <2>2, StartGameFields, StartGameGood DEF Good, Base, SeatsTyped
  <2>4. FirstRound(s).players = room.players /\ FirstRound(s).game.scores = ZeroScores(room)
    BY <2>3, OpenRoundFields DEF FirstRound
  <2>5. ScoredSeated(FirstRound(s))
    BY <2>4 DEF ScoredSeated, ZeroScores, HasPlayer, Seats
  <2> QED BY <1>3, <1>6, <2>2, <2>5 DEF StartGame
<1>7. ASSUME NEW u \in Users, GuessRight(u)  PROVE ScoredSeated(room')
  <2>1. room.state = "PLAYING" /\ room.game.open /\ HasPlayer(room, u)
    BY <1>7 DEF GuessRight
  <2>2. PICK s : s = GameHandleGuess(room, u)
    OBVIOUS
  <2>3. Good(s) /\ ScoredSeated(s) /\ s \in RoomType /\ SeatsTyped(s)
    BY <1>1, <2>1, <2>2, HandleGuessGood, GuessScored DEF Good, Base, SeatsTyped
  <2>4. PICK r : r = ProcessGuess(room, u)
    OBVIOUS
  <2>5. CASE r = s
    BY <1>3, <1>7, <2>3, <2>4, <2>5 DEF GuessRight
  <2>6. CASE r = NextRound(s)
    <3>1. r.players = s.players /\ (r.state = "PLAYING" => r.game.scores = s.game.scores)
      BY <2>3, <2>6, NextRoundSeats, NextRoundTable
    <3>2. r.state = "PLAYING" => ScoredSeated(r)
      BY <2>3, <3>1, ScoredStays
    <3> QED BY <1>3, <1>7, <2>4, <3>2 DEF GuessRight
  <2> QED BY <2>2, <2>4, <2>5, <2>6 DEF ProcessGuess
<1>8. ASSUME RoundTimeout  PROVE ScoredSeated(room')
  <2>1. PICK r : r = NextRound(room)
    OBVIOUS
  <2>2. r.players = room.players /\ (r.state = "PLAYING" => r.game.scores = room.game.scores)
    BY <1>1, <2>1, NextRoundSeats, NextRoundTable
  <2>3. r.state = "PLAYING" => ScoredSeated(r)
    BY <1>1, <2>2, ScoredStays
  <2> QED BY <1>3, <1>8, <2>1, <2>3 DEF RoundTimeout
<1>9. ASSUME NEW u \in Users, LeaveRoomOf(u)  PROVE ScoredSeated(room')
  <2>1. Live(room) /\ HasPlayer(room, u)
    BY <1>9 DEF LeaveRoomOf
  <2>2. PICK r : r = LeaveRoom(room, u)
    OBVIOUS
  <2>3. r.state = "PLAYING" => r.players = room.players /\ r.game.scores = room.game.scores
    BY <1>1, <2>1, <2>2, LeaveRoomSeats
  <2>4. r.state = "PLAYING" => ScoredSeated(r)
    BY <1>1, <2>3, ScoredStays
  <2> QED BY <1>3, <1>9, <2>2, <2>4 DEF LeaveRoomOf
<1>10. ASSUME NEW u \in Users, GuessWrong(u) \/ Chat(u)  PROVE ScoredSeated(room')
  BY <1>3, <1>10 DEF GuessWrong, Chat
<1>11. ASSUME Account  PROVE ScoredSeated(room')
  BY <1>3, <1>11 DEF Account
<1>12. ASSUME Restart  PROVE ScoredSeated(room')
  BY <1>2, <1>12, IdleScored DEF Restart, NoRoom
<1>13. ASSUME room' = room  PROVE ScoredSeated(room')
  BY <1>13
<1> QED
  BY <1>4, <1>5, <1>6, <1>7, <1>8, <1>9, <1>10, <1>11, <1>12, <1>13
     DEF RecordsNext, Lose, Recover, recordVars


\* As many users have an entry in the score table as seats.
LEMMA EntriesAreSeats ==
  ASSUME NEW r, SeatsTyped(r), SeatsDistinct(r), ScoredSeated(r)
  PROVE  Cardinality({u \in Users : r.game.scores[u] # NoEntry})
           = Cardinality(ScoringSeats(r))
<1>1. PICK C : C = ScoringSeats(r)
  OBVIOUS
<1>2. PICK U : U = {u \in Users : r.game.scores[u] # NoEntry}
  OBVIOUS
<1>3. PICK f : f = [i \in C |-> r.players[i]]
  OBVIOUS
<1>4. f \in [C -> U]
  BY <1>1, <1>2, <1>3, ScoringFacts DEF ScoringSeats
<1>5. ASSUME NEW i \in C, NEW j \in C, f[i] = f[j]  PROVE i = j
  BY <1>1, <1>3, <1>5, ScoringFacts DEF SeatsDistinct
<1>6. ASSUME NEW u \in U  PROVE \E i \in C : f[i] = u
  BY <1>1, <1>2, <1>3 DEF ScoredSeated, HasPlayer, ScoringSeats
<1>7. f \in Injection(C, U) /\ f \in Surjection(C, U)
  BY <1>4, <1>5, <1>6 DEF Injection, IsInjective, Surjection
<1>8. ExistsBijection(C, U)
  BY <1>7 DEF ExistsBijection, Bijection
<1> QED BY <1>1, <1>2, <1>8, ScoringFacts, FS_Bijection

\* The sorted table is a history of the game.
LEMMA HistoryOfTable ==
  ASSUME NEW r, SeatsTyped(r), SeatsDistinct(r), ScoredSeated(r),
         NEW rows, Len(rows) = Len(HistoryRows(r)),
         \A k \in 1..Len(rows) : rows[k] = HistoryRows(r)[k]
  PROVE  IsHistoryOf(r.game.scores, rows)
<1>1. PICK n : n = Cardinality(ScoringSeats(r))
  OBVIOUS
<1>2. PICK h : h = HistoryRows(r)
  OBVIOUS
<1>3. /\ n \in Nat /\ Len(h) = n
      /\ \A k \in 1..n : \E i \in ScoringSeats(r) : /\ SortedPlace(r, i) = k
                                                    /\ h[k] = HistoryRow(r, i, k)
  BY <1>1, <1>2, HistoryInOrder
<1>4. Len(rows) = n /\ \A k \in 1..n : rows[k] = h[k]
  BY <1>2, <1>3
<1>5. Len(rows) = Cardinality({u \in Users : r.game.scores[u] # NoEntry})
  BY <1>1, <1>4, EntriesAreSeats
<1>6. ASSUME NEW k \in 1..n
      PROVE  rows[k].score = r.game.scores[rows[k].user] /\ rows[k].rank = k
  <2>1. PICK i \in ScoringSeats(r) : h[k] = HistoryRow(r, i, k)
    BY <1>3
  <2>2. rows[k] = HistoryRow(r, i, k)
    BY <1>4, <2>1
  <2> QED BY <2>2 DEF HistoryRow
<1>7. ASSUME NEW j \in 1..n, NEW k \in 1..n, j < k
      PROVE  rows[k].user # rows[j].user /\ rows[k].score <= rows[j].score
  <2>1. PICK a \in ScoringSeats(r) : SortedPlace(r, a) = j /\ h[j] = HistoryRow(r, a, j)
    BY <1>3
  <2>2. PICK b \in ScoringSeats(r) : SortedPlace(r, b) = k /\ h[k] = HistoryRow(r, b, k)
    BY <1>3
  <2>3. rows[j] = HistoryRow(r, a, j) /\ rows[k] = HistoryRow(r, b, k)
    BY <1>4, <2>1, <2>2
  <2>4. a # b
    BY <1>3, <1>7, <2>1, <2>2
  <2>5. r.players[a] # r.players[b]
    BY <2>4, ScoringFacts DEF SeatsDistinct
  <2>6. ~SortsBefore(r, b, a)
    <3>1. SortsBefore(r, b, a) => SortedPlace(r, b) < SortedPlace(r, a)
      BY PlacesDiffer
    <3> QED BY <1>3, <1>7, <2>1, <2>2, <3>1
  <2>7. r.game.scores[r.players[b]] <= r.game.scores[r.players[a]]
    BY <2>6, ScoringFacts DEF SortsBefore
  <2> QED BY <2>3, <2>5, <2>7 DEF HistoryRow
<1> QED BY <1>4, <1>5, <1>6, <1>7 DEF IsHistoryOf

\* The n elements of a sequence that follow its first m.
LEMMA Stretch ==
  ASSUME NEW S, NEW s \in Seq(S), NEW m \in Nat, NEW n \in Nat, m + n <= Len(s)
  PROVE  LET t == SubSeq(s, m + 1, m + n)
         IN  t \in Seq(S) /\ Len(t) = n /\ \A k \in 1..n : t[k] = s[m + k]
<1>1. PICK a \in Int : a = m + 1
  OBVIOUS
<1>2. PICK b \in Int : b = m + n
  OBVIOUS
<1>3. \A i \in a..b : s[i] \in S
  <2>1. \A i \in a..b : i \in 1..Len(s)
    BY <1>1, <1>2, LenProperties
  <2> QED BY <2>1, ElementOfSeq
<1>4. /\ SubSeq(s, a, b) \in Seq(S)
      /\ Len(SubSeq(s, a, b)) = IF a <= b THEN b - a + 1 ELSE 0
      /\ \A k \in 1..(b - a + 1) : SubSeq(s, a, b)[k] = s[a + k - 1]
  BY <1>3, SubSeqProperties
<1>5. b - a + 1 = n /\ (IF a <= b THEN b - a + 1 ELSE 0) = n
      /\ \A k \in 1..n : a + k - 1 = m + k
  BY <1>1, <1>2
<1> QED BY <1>1, <1>2, <1>4, <1>5

\* What is saved without an error is the whole history.
LEMMA SavedWhole ==
  ASSUME NEW d, Fine(d), d.game_history = database.game_history,
         NEW rows, rows \in Seq(HistoryEntries),
         NEW e, e = SaveGameHistory(d, rows), Ready(e),
         database' = [e EXCEPT !.id = 0]
  PROVE  Len(NewHistory) = Len(rows) /\ \A k \in 1..Len(rows) : NewHistory[k] = rows[k]
<1>1. Typed(d) /\ d.fuse \in {NoFuse} \cup Nat
  BY DEF Fine, Typed
<1>2. PICK n \in Nat : n = Len(rows)
  BY LenProperties
<1>3. PICK a \in Nat : a = IF d.fuse \in 0..n THEN d.fuse ELSE n
  BY <1>2
<1>4. Ready(d)
  BY DEF SaveGameHistory
<1>5. PICK h : h = d.game_history \o SubSeq(rows, 1, a)
  OBVIOUS
<1>6. PICK f : f = IF d.fuse > 0 THEN d.fuse - a ELSE d.fuse
  OBVIOUS
<1>7. PICK l : l = IF a < n THEN "null" ELSE d.link
  OBVIOUS
<1>8. e = [d EXCEPT !.game_history = h, !.fuse = f, !.link = l]
  BY <1>2, <1>3, <1>4, <1>5, <1>6, <1>7 DEF SaveGameHistory
<1>9. e.link = l /\ e.game_history = h
  BY <1>1, <1>8 DEF Typed
<1>10. a = n
  BY <1>3, <1>7, <1>9 DEF Ready
<1>11. PICK old \in Seq(HistoryEntries) : old = database.game_history
  BY <1>1 DEF Typed
<1>12. PICK m \in Nat : m = Len(old)
  BY <1>11, LenProperties
<1>13. PICK s : s = SubSeq(rows, 1, n)
  OBVIOUS
<1>14. s \in Seq(HistoryEntries) /\ Len(s) = n /\ \A k \in 1..n : s[k] = rows[k]
  <2>1. PICK z \in Nat : z = 0
    OBVIOUS
  <2>2. z + 1 = 1 /\ z + n = n /\ \A k \in 1..n : z + k = k
    BY <2>1
  <2> QED BY <1>2, <1>13, <2>2, Stretch
<1>15. h = old \o s
  BY <1>5, <1>10, <1>11, <1>13
<1>16. /\ h \in Seq(HistoryEntries) /\ Len(h) = m + n
       /\ \A k \in 1..n : h[m + k] = s[k]
  <2>1. /\ h \in Seq(HistoryEntries) /\ Len(h) = m + n
        /\ \A i \in 1..(m + n) : h[i] = IF i <= m THEN old[i] ELSE s[i - m]
    BY <1>12, <1>14, <1>15, ConcatProperties
  <2>2. ASSUME NEW k \in 1..n  PROVE h[m + k] = s[k]
    <3>1. m + k \in 1..(m + n) /\ ~(m + k <= m) /\ (m + k) - m = k
      OBVIOUS
    <3> QED BY <2>1, <3>1
  <2> QED BY <2>1, <2>2
<1>17. database'.game_history = h
  BY <1>1, <1>8, <1>9 DEF Typed
<1>18. PICK new : new = SubSeq(h, m + 1, m + n)
  OBVIOUS
<1>19. NewHistory = new
  BY <1>11, <1>12, <1>16, <1>17, <1>18 DEF NewHistory
<1>20. Len(new) = n /\ \A k \in 1..n : new[k] = h[m + k]
  <2>1. h \in Seq(HistoryEntries) /\ m + n <= Len(h)
    BY <1>16
  <2> QED BY <1>18, <2>1, Stretch
<1> QED BY <1>2, <1>14, <1>16, <1>19, <1>20

\* The rows about guesses and points are stored elsewhere.
LEMMA SaveIsNoHistory ==
  ASSUME NEW d, Fine(d), NEW table \in {"guesses", "score_details"}, NEW u, NEW row
  PROVE  SaveIfKnown(d, table, u, row).game_history = d.game_history
<1>1. Typed(d)
  BY DEF Fine
<1>2. PICK s : s = Spend(d)
  OBVIOUS
<1>3. Unwritten(d, s) /\ Typed(s)
  BY <1>1, <1>2, SpendWritesNothing DEF Unwritten
<1>4. Save(d, table, row).game_history = d.game_history
  <2>1. CASE ~Ready(d)
    BY <2>1 DEF Save
  <2>2. CASE Ready(d) /\ ~Answers(d)
    <3>1. Unwritten(d, InsertId(Query(d)))
      BY <1>1, <2>2, LostStatement
    <3>2. Save(d, table, row) = InsertId(Query(d))
      BY <2>2 DEF Save
    <3> QED BY <3>1, <3>2 DEF Unwritten
  <2>3. CASE Ready(d) /\ Answers(d)
    <3>1. PICK t : t = s[table] \cup {row}
      OBVIOUS
    <3>2. Save(d, table, row) = [s EXCEPT ![table] = t]
      BY <1>2, <2>3, <3>1 DEF Save
    <3>3. [s EXCEPT ![table] = t].game_history = s.game_history
      BY <1>3 DEF Typed
    <3> QED BY <1>3, <3>2, <3>3 DEF Unwritten
  <2> QED BY <2>1, <2>2, <2>3
<1> QED BY <1>4 DEF SaveIfKnown


-----------------------------------------------------------------------------
\* A game that ends at s, after statements that left the history alone.
LEMMA EndIsRecorded ==
  ASSUME NEW s, Good(s), ScoredSeated(s), s.state = "PLAYING", s.game.scores \in LastTables,
         NEW d, Fine(d), d.game_history = database.game_history,
         NEW r, NEW i, NEW e, e = SaveIfOver(d, s, r), Finish(r, i, e)
  PROVE  HistoryStep
<1> SUFFICES ASSUME room'.state \in {"FINISHED", "DESTROYED"}, Ready(database')
             PROVE  IsHistoryOf(s.game.scores, NewHistory)
  BY DEF HistoryStep
<1>1. SeatsTyped(s) /\ SeatsDistinct(s)
  BY DEF Good, Base
<1>2. PICK rows : rows = HistoryRows(s)
  OBVIOUS
<1>3. rows \in Seq(HistoryEntries)
  BY <1>1, <1>2, HistoryInOrder
<1>4. Fine(e) /\ Typed(e) /\ database' = [e EXCEPT !.id = 0]
  BY <1>1, SaveIfOverFine DEF Finish, Fine
<1>5. Ready(e)
  BY <1>4 DEF Ready, Typed
<1>6. room' = r
  BY <1>5 DEF Finish, Ready
<1>7. e = SaveGameHistory(d, rows)
  BY <1>2, <1>6 DEF SaveIfOver
<1>8. Len(NewHistory) = Len(rows) /\ \A k \in 1..Len(rows) : NewHistory[k] = rows[k]
  BY <1>3, <1>4, <1>5, <1>7, SavedWhole
<1> QED BY <1>1, <1>2, <1>8, HistoryOfTable

LEMMA HistoryNext ==
  ASSUME IInv, ScoredSeated(room), RecordsNext  PROVE HistoryStep
<1> SUFFICES ASSUME room.state = "PLAYING"  PROVE HistoryStep
  BY DEF HistoryStep
<1>1. Good(room) /\ Sound(room) /\ SeatsTyped(room) /\ Fine(database)
  BY DEF IInv, Good, Base
<1>2. Live(room) /\ ~CanStart(room) /\ room.game.scores \in LastTables
  BY DEF Live, CanStart, LastTables
<1>3. ASSUME NEW i, NEW d, Finish(room, i, d)  PROVE HistoryStep
  BY <1>3 DEF HistoryStep, Finish, NoRoom
<1>4. ASSUME room' = room  PROVE HistoryStep
  BY <1>4 DEF HistoryStep
<1>5. ASSUME NEW u \in Users, NEW m, NEW n, CreateRoom(u, m, n)  PROVE HistoryStep
  BY <1>2, <1>5 DEF CreateRoom
<1>6. ASSUME NEW u \in Users, JoinRoom(u)  PROVE HistoryStep
  <2>1. PICK s : s = RoomAddPlayer(room, u)
    OBVIOUS
  <2>2. s.state = "PLAYING"
    BY <1>1, <2>1 DEF RoomAddPlayer, SeatsTyped, RoomType
  <2>3. EnterRoom(room, u) = s
    BY <2>1, <2>2 DEF EnterRoom, CanStart
  <2>4. room' = s \/ room' = NoRoom
    BY <1>6, <2>3 DEF JoinRoom, Finish
  <2> QED BY <2>2, <2>4 DEF HistoryStep, NoRoom
<1>7. ASSUME NEW u \in Users, StartGame(u)  PROVE HistoryStep
  BY <1>2, <1>7 DEF StartGame
<1>8. ASSUME NEW u \in Users, GuessRight(u)  PROVE HistoryStep
  <2>1. room.game.open /\ HasPlayer(room, u) /\ u # room.game.drawer
    BY <1>8 DEF GuessRight
  <2>2. PICK s : s = GameHandleGuess(room, u)
    OBVIOUS
  <2>3. Good(s) /\ s.state = "PLAYING" /\ ScoredSeated(s)
    BY <1>1, <2>1, <2>2, HandleGuessGood, GuessScored
  <2>4. s.game.scores \in LastTables
    BY <2>1, <2>2 DEF LastTables, MayGuess
  <2>5. PICK order : order = Len(s.game.guessed)
    OBVIOUS
  <2>6. PICK x : x = GuessRow(u, TRUE)
    OBVIOUS
  <2>7. PICK y : y = ScoreRow(u, GuesserPoints(order))
    OBVIOUS
  <2>8. PICK z : z = ScoreRow(s.game.drawer, DrawerPoints(order))
    OBVIOUS
  <2>9. PICK d : d = SaveIfKnown(database, "guesses", u, x)
    OBVIOUS
  <2>10. PICK e : e = SaveIfKnown(d, "score_details", u, y)
    OBVIOUS
  <2>11. PICK f : f = SaveIfKnown(e, "score_details", s.game.drawer, z)
    OBVIOUS
  <2>12. PICK r : r = ProcessGuess(room, u)
    OBVIOUS
  <2>13. Finish(r, ForgetRound(ids, r), SaveIfOver(f, s, r))
    BY <1>8, <2>2, <2>5, <2>6, <2>7, <2>8, <2>9, <2>10, <2>11, <2>12 DEF GuessRight
  <2>14. /\ x.round = ids.round /\ x.player = PlayerRow(u)
         /\ y.round = ids.round /\ y.player = PlayerRow(u)
         /\ z.round = ids.round /\ z.player = PlayerRow(s.game.drawer)
    BY <2>6, <2>7, <2>8 DEF GuessRow, ScoreRow
  <2>15. Kept(database, database)
    BY DEF Kept
  <2>16. Fine(d) /\ Kept(database, d) /\ d.game_history = database.game_history
    BY <1>1, <2>9, <2>14, <2>15, SaveIfKnownFine, SaveIsNoHistory
  <2>17. Fine(e) /\ Kept(database, e) /\ e.game_history = database.game_history
    BY <2>10, <2>14, <2>16, SaveIfKnownFine, SaveIsNoHistory
  <2>18. Fine(f) /\ f.game_history = database.game_history
    BY <2>11, <2>14, <2>17, SaveIfKnownFine, SaveIsNoHistory
  <2> QED BY <2>3, <2>4, <2>13, <2>18, EndIsRecorded
<1>9. CASE RoundTimeout
  <2>1. PICK r : r = NextRound(room)
    OBVIOUS
  <2>2. Finish(r, ForgetRound(ids, r), SaveIfOver(database, room, r))
    BY <1>9, <2>1 DEF RoundTimeout
  <2> QED BY <1>1, <1>2, <2>2, EndIsRecorded
<1>10. ASSUME NEW u \in Users, LeaveRoomOf(u)  PROVE HistoryStep
  <2>1. PICK r : r = LeaveRoom(room, u)
    OBVIOUS
  <2>2. \E i : Finish(r, i, SaveIfOver(database, room, r))
    BY <1>10, <2>1 DEF LeaveRoomOf
  <2> QED BY <1>1, <1>2, <2>2, EndIsRecorded
<1>11. ASSUME NEW u \in Users, GuessWrong(u) \/ Chat(u)  PROVE HistoryStep
  BY <1>3, <1>11 DEF GuessWrong, Chat
<1>12. CASE Account
  BY <1>3, <1>12 DEF Account
<1>13. CASE Restart
  BY <1>13 DEF Restart, HistoryStep, NoRoom
<1>14. CASE Recover \/ \E k \in Fuses : Lose(k)
  BY <1>4, <1>14 DEF Recover, Lose
<1> QED
  BY <1>5, <1>6, <1>7, <1>8, <1>9, <1>10, <1>11, <1>12, <1>13, <1>14 DEF RecordsNext

(***************************************************************************)
(* However a game ends, its whole score table is stored with the ranks of  *)
(* a sort by falling score, as long as the database answers: for any       *)
(* number of players and ties, and after players came and went.            *)
(***************************************************************************)
THEOREM HistoriesAreComplete == RecordsSpec => HistoryIsComplete
<1>1. RecordsInit => ScoredSeated(room)
  BY NoRoomGood, IdleScored DEF RecordsInit, Init, NoRoom
<1>2. IInv /\ ScoredSeated(room) /\ [RecordsNext]_recordVars => ScoredSeated(room)'
  BY ScoredStep
<1>3. IInv /\ ScoredSeated(room) /\ [RecordsNext]_recordVars => [HistoryStep]_recordVars
  BY HistoryNext
<1> QED BY <1>1, <1>2, <1>3, RecordsInvariance, PTL DEF RecordsSpec, HistoryIsComplete
=============================================================================
