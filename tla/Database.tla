------------------------------ MODULE Database ------------------------------
(***************************************************************************)
(* The server's link to MySQL and its statements                           *)
(* (src/src/server/database.c), as operators on a record that holds the    *)
(* link and the tables.  Every statement of a handler takes the record it  *)
(* finds to the record it leaves behind.                                   *)
(*                                                                         *)
(* The database may be lost at any statement, also in the middle of a      *)
(* handler: fuse says how many more statements it answers.  A process that *)
(* crashes executes nothing more.  A table is a sequence of rows where the *)
(* code uses the AUTO_INCREMENT ids, otherwise the set of its rows.        *)
(***************************************************************************)
EXTENDS Integers, Sequences, FiniteSets, SequencesExt

\* The database answers every statement to come.
NoFuse == -1

\* db is a null pointer; db->conn is one; there is a connection (maybe dead).
Links == {"none", "null", "open"}

EmptyDatabase ==
  [fuse |-> NoFuse, link |-> "open", crashed |-> FALSE, id |-> 0,
   rooms |-> <<>>, room_players |-> <<>>, game_rounds |-> <<>>,
   game_history |-> <<>>,
   guesses |-> {}, score_details |-> {}, chat_messages |-> {}]

Answers(d) == d.fuse # 0

\* A statement that the database answers.
Spend(d) ==
  [d EXCEPT !.link = "open", !.fuse = IF @ > 0 THEN @ - 1 ELSE @]

\* db_execute_query: ping or dial first; without an answer conn is left null.
Query(d) ==
  IF d.crashed \/ d.link = "none" THEN d
  ELSE IF Answers(d) THEN Spend(d)
  ELSE [d EXCEPT !.link = "null"]

\* The functions of phase 6 give up at once on a null connection.
Ready(d) == ~d.crashed /\ d.link = "open"

\* A SELECT of theirs, as for the words of a new game.
Select(d) == IF Ready(d) THEN Query(d) ELSE d

(***************************************************************************)
(* After a query that found no database, mysql_errno(NULL) reports no      *)
(* error and mysql_insert_id(NULL) dereferences the null pointer.          *)
(***************************************************************************)
InsertId(d) == IF d.link = "null" THEN [d EXCEPT !.crashed = TRUE] ELSE d

\* room_code is UNIQUE; the other keys hold, since rows are never deleted.
Accepts(d, table, row) ==
  table = "rooms" => \A i \in 1..Len(d.rooms) : d.rooms[i].code # row.code

\* An INSERT whose id is used: d.id is the new id, or 0 for no row.
Insert(d, table, row) ==
  IF ~Ready(d) THEN [d EXCEPT !.id = 0]
  ELSE IF ~Answers(d) THEN InsertId(Query(d))
  ELSE IF ~Accepts(d, table, row) THEN [Spend(d) EXCEPT !.id = 0]
  ELSE [Spend(d) EXCEPT ![table] = Append(@, row), !.id = Len(d[table]) + 1]

\* db_save_guess, db_save_score_detail: nobody uses the id they return.
Save(d, table, row) ==
  IF ~Ready(d) THEN d
  ELSE IF ~Answers(d) THEN InsertId(Query(d))
  ELSE [Spend(d) EXCEPT ![table] = @ \cup {row}]

(***************************************************************************)
(* db_save_game_history for some rows, one after the other.  It asks for   *)
(* no id, so it survives the loss: only the rows after it are missing.     *)
(***************************************************************************)
SaveGameHistory(d, rows) ==
  LET answered == IF d.fuse \in 0..Len(rows) THEN d.fuse ELSE Len(rows)
  IN  IF ~Ready(d) THEN d
      ELSE [d EXCEPT !.game_history = @ \o SubSeq(rows, 1, answered),
                     !.fuse = IF @ > 0 THEN @ - answered ELSE @,
                     !.link = IF answered < Len(rows) THEN "null" ELSE @]

\* An INSERT through db_execute_query itself, which reconnects first.
SaveReconnecting(d, table, row) ==
  IF d.crashed \/ d.link = "none" \/ ~Answers(d) THEN Query(d)
  ELSE [Spend(d) EXCEPT ![table] = @ \cup {row}]

\* UPDATE rooms: the room with this id is now in progress.
MarkInProgress(d, k) ==
  IF d.crashed \/ d.link = "none" \/ ~Answers(d) THEN Query(d)
  ELSE [Spend(d) EXCEPT !.rooms[k].status = "in_progress"]

\* db_register_user of a new name: a SELECT, then an INSERT whose id is used.
RegisterUser(d) ==
  IF d.crashed \/ d.link = "none" THEN d ELSE InsertId(Query(Query(d)))

\* db_change_password: only a SELECT that was answered leads to the UPDATE,
\* whose count of rows is then asked of the connection.
ChangePassword(d) ==
  IF Ready(Query(d)) THEN InsertId(Query(Query(d))) ELSE Query(d)
=============================================================================
