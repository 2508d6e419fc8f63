------------------------------ MODULE Framing ------------------------------
(***************************************************************************)
(* How messages travel on a TCP connection: [type:1][length:2][payload],   *)
(* written back to back into a stream that the other side reads in pieces  *)
(* of any size.  The server parses one message out of every recv() and     *)
(* forgets the rest (src/src/server/protocol_core.c, server.c); the        *)
(* gateway collects what it reads and takes out every complete message     *)
(* (MessageBuffer of src/src/gateway/utils.js).                            *)
(*                                                                         *)
(* A byte is the pair of the message it belongs to and its place in it, so *)
(* a reader that starts in the middle of a message can be told from one    *)
(* that starts at a header.  All messages have one length here.            *)
(***************************************************************************)
EXTENDS Integers, Sequences, SequencesExt

CONSTANTS
  HeaderSize,    \* bytes of the header (3 in the code)
  PayloadSize,   \* bytes of a payload
  BufferSize     \* BUFFER_SIZE, the most one recv() returns

ASSUME FramingAssumption ==
  /\ HeaderSize \in Nat \ {0}
  /\ PayloadSize \in Nat
  /\ BufferSize \in Nat
  /\ BufferSize >= HeaderSize + PayloadSize

Width == HeaderSize + PayloadSize

\* protocol_create_message: the bytes of message m.
Bytes(m) == [i \in 1..Width |-> <<m, i>>]

\* Messages are numbered from 1; these are what parsing may yield instead.
NoMessage == 0
Garbage == -1

StartsAtHeader(buffer) == Head(buffer)[2] = 1

\* Mutant: the payload length is not compared with what has been received.
ParseIncomplete(buffer) ==
  IF Len(buffer) < HeaderSize THEN {NoMessage}
  ELSE IF ~StartsAtHeader(buffer) THEN {NoMessage, Garbage}
  ELSE {Head(buffer)[1]}

(***************************************************************************)
(* protocol_parse_message, as the set of results it may have.  The payload *)
(* length is believed as it stands: from the middle of a message any two   *)
(* bytes are taken for it.                                                 *)
(***************************************************************************)
ParseMessage(buffer) ==
  IF Len(buffer) < HeaderSize THEN {NoMessage}
  ELSE IF ~StartsAtHeader(buffer) THEN {NoMessage, Garbage}
  ELSE IF Len(buffer) < Width THEN {NoMessage}
  ELSE {Head(buffer)[1]}

-----------------------------------------------------------------------------
Taken(buffer, n) == SubSeq(buffer, 1, n)

Remaining(buffer, n) == SubSeq(buffer, n + 1, Len(buffer))

\* Mutant: the reader takes out one message and waits for more data.
OneMessageAtMost(buffer) == IF Len(buffer) >= Width THEN 1 ELSE 0

\* MessageBuffer: how many complete messages the buffer begins with.
Complete(buffer) == Len(buffer) \div Width

\* MessageBuffer.extractMessages: the complete messages, in order.
ExtractMessages(buffer) ==
  [i \in 1..Complete(buffer) |-> buffer[(i - 1) * Width + 1][1]]

\* Mutant: the start of an incomplete message is thrown away.
NoRest(buffer) == <<>>

\* MessageBuffer.extractMessages: what stays in the buffer.
BufferRest(buffer) == Remaining(buffer, Complete(buffer) * Width)
=============================================================================
