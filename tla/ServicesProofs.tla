--------------------------- MODULE ServicesProofs ---------------------------
(***************************************************************************)
(* What holds of the connection service for any number of sockets,         *)
(* messages, broken connections and attempts.                              *)
(***************************************************************************)
EXTENDS Services, SequenceTheorems, TLAPS

-----------------------------------------------------------------------------
\* The messages of a queue to which one, or a second queue, has been added.
LEMMA QueueGrows ==
  ASSUME NEW S, NEW q \in Seq(S), NEW m \in S, NEW w \in Seq(S)
  PROVE  /\ Append(q, m) \in Seq(S) /\ ToSet(Append(q, m)) = ToSet(q) \cup {m}
         /\ w \o q \in Seq(S) /\ ToSet(w \o q) = ToSet(w) \cup ToSet(q)
<1>1. \A s \in Seq(S) : Len(s) \in Nat /\ ToSet(s) = {s[i] : i \in 1..Len(s)}
  BY LenProperties DEF ToSet
<1>2. ToSet(Append(q, m)) = ToSet(q) \cup {m} /\ Append(q, m) \in Seq(S)
  <2>1. /\ Append(q, m) \in Seq(S) /\ Len(Append(q, m)) = Len(q) + 1
        /\ \A i \in 1..Len(q) : Append(q, m)[i] = q[i]
        /\ Append(q, m)[Len(q) + 1] = m
    BY AppendProperties
  <2>2. \A i : i \in 1..(Len(q) + 1) <=> i \in 1..Len(q) \/ i = Len(q) + 1
    BY <1>1
  <2> QED BY <1>1, <2>1, <2>2
<1>3. ToSet(w \o q) = ToSet(w) \cup ToSet(q) /\ w \o q \in Seq(S)
  <2>1. /\ w \o q \in Seq(S) /\ Len(w \o q) = Len(w) + Len(q)
        /\ \A i \in 1..(Len(w) + Len(q)) :
             (w \o q)[i] = IF i <= Len(w) THEN w[i] ELSE q[i - Len(w)]
    BY ConcatProperties
  <2>2. ASSUME NEW i \in 1..(Len(w) + Len(q))  PROVE (w \o q)[i] \in ToSet(w) \cup ToSet(q)
    <3>1. CASE i <= Len(w)
      BY <1>1, <2>1, <3>1
    <3>2. CASE ~(i <= Len(w))
      <4>1. i - Len(w) \in 1..Len(q)
        BY <1>1, <3>2
      <4> QED BY <1>1, <2>1, <3>2, <4>1
    <3> QED BY <3>1, <3>2
  <2>3. ASSUME NEW i \in 1..Len(w)  PROVE w[i] \in ToSet(w \o q)
    <3>1. i \in 1..(Len(w) + Len(q)) /\ i <= Len(w)
      BY <1>1
    <3> QED BY <1>1, <2>1, <3>1
  <2>4. ASSUME NEW i \in 1..Len(q)  PROVE q[i] \in ToSet(w \o q)
    <3>1. /\ Len(w) + i \in 1..(Len(w) + Len(q)) /\ ~(Len(w) + i <= Len(w))
          /\ (Len(w) + i) - Len(w) = i
      BY <1>1
    <3> QED BY <1>1, <2>1, <3>1
  <2> QED BY <1>1, <2>1, <2>2, <2>3, <2>4
<1> QED BY <1>2, <1>3

\* The first of the messages that wait is one of them.
LEMMA HeadWaits ==
  ASSUME NEW S, NEW q \in Seq(S), q # <<>>
  PROVE  Head(q) \in S /\ Head(q) \in ToSet(q)
<1>1. Len(q) \in Nat /\ Len(q) # 0 /\ Head(q) = q[1]
  BY LenProperties, EmptySeq, HeadTailProperties
<1>2. 1 \in 1..Len(q)
  BY <1>1
<1> QED BY <1>1, <1>2, ElementOfSeq, LenProperties DEF ToSet


-----------------------------------------------------------------------------
\* The socket in use and its promise, the part that connect() writes.
SetupOK ==
  /\ sock \in [Sockets -> ReadyStates]
  /\ ws \in Sockets \cup {Null}
  /\ connectionPromise \in BOOLEAN /\ openTimers \in Nat
  /\ PromiseIsLive

\* Every message a page has sent is in one of the three places, and no other is.
MessagesOK ==
  /\ asked \in Nat
  /\ messageQueue \in Seq(Nat) /\ onWire \in Seq(Nat)
  /\ ToSet(messageQueue) \cup ToSet(onWire) \cup discarded = 1..asked

\* What the callbacks of sockets and timers write besides.
RetriesOK ==
  /\ isConnected \in BOOLEAN /\ reconnectTimer \in BOOLEAN
  /\ reconnectAttempts \in 0..MaxReconnectAttempts /\ queueTimers \in Nat
  /\ closeOnOpen \subseteq Sockets /\ byUser \subseteq Sockets

\* The inductive invariant of the service.
IInv == SetupOK /\ MessagesOK /\ RetriesOK

setup == <<sock, ws, connectionPromise, openTimers>>
messages == <<asked, messageQueue, onWire, discarded>>
retries == <<isConnected, reconnectTimer, reconnectAttempts, queueTimers, listeners>>

\* A part none of whose variables changes stays as it is.
LEMMA Untouched ==
  /\ SetupOK /\ UNCHANGED setup => SetupOK'
  /\ MessagesOK /\ UNCHANGED messages => MessagesOK'
  /\ RetriesOK /\ UNCHANGED retries => RetriesOK'
BY DEF SetupOK, setup, PromiseIsLive, MessagesOK, messages, RetriesOK, retries, listeners

-----------------------------------------------------------------------------
\* connect() makes a promise for the socket it makes, if it makes one.
LEMMA ConnectSetsUp ==
  ASSUME SetupOK, Connect  PROVE SetupOK'
<1>1. CASE MustConnect /\ OpenSocket
  <2>1. NewSocket \in Sockets
    BY <1>1 DEF OpenSocket, NewSocket, Unused
  <2>2. NewSocket # Null
    BY <2>1, ServicesAssumption DEF Sockets, Null
  <2> QED
    BY <1>1, <2>1, <2>2 DEF OpenSocket, SetupOK, PromiseIsLive, ReadyStates
<1>2. CASE UNCHANGED connection
  BY <1>2, Untouched DEF connection, setup
<1> QED BY <1>1, <1>2 DEF Connect

\* A message that a page sends joins one of the sequences; nothing else moves.
LEMMA SendKeeps ==
  ASSUME IInv, Send  PROVE SetupOK' /\ MessagesOK'
<1>1. asked \in Nat /\ asked' = asked + 1 /\ asked' \in Nat
  BY DEF IInv, MessagesOK, Send
<1>2. 1..asked' = (1..asked) \cup {asked'}
  BY <1>1
<1>3. messageQueue \in Seq(Nat) /\ onWire \in Seq(Nat) /\ discarded' = discarded
  BY DEF IInv, MessagesOK, Send
<1>4. CASE onWire' = Append(onWire, asked') /\ UNCHANGED <<messageQueue, connection>>
  <2>1. onWire' \in Seq(Nat) /\ ToSet(onWire') = ToSet(onWire) \cup {asked'}
    BY <1>1, <1>3, <1>4, QueueGrows
  <2>2. MessagesOK'
    BY <1>1, <1>2, <1>3, <1>4, <2>1 DEF IInv, MessagesOK
  <2>3. UNCHANGED setup
    BY <1>4 DEF connection, setup
  <2> QED BY <2>2, <2>3, Untouched DEF IInv
<1>5. CASE /\ messageQueue' = Append(messageQueue, asked') /\ UNCHANGED onWire
           /\ Connect \/ UNCHANGED connection
  <2>1. messageQueue' \in Seq(Nat) /\ ToSet(messageQueue') = ToSet(messageQueue) \cup {asked'}
    BY <1>1, <1>3, <1>5, QueueGrows
  <2>2. MessagesOK'
    BY <1>1, <1>2, <1>3, <1>5, <2>1 DEF IInv, MessagesOK
  <2>3. UNCHANGED connection => UNCHANGED setup
    BY DEF connection, setup
  <2> QED BY <1>5, <2>2, <2>3, ConnectSetsUp, Untouched DEF IInv
<1> QED BY <1>4, <1>5 DEF Send, SendMessage

\* The queue goes to the wire, or keeps its messages, one of them twice.
LEMMA QueueTimerKeeps ==
  ASSUME IInv, QueueTimer  PROVE MessagesOK'
<1>1. messageQueue \in Seq(Nat) /\ onWire \in Seq(Nat)
  BY DEF IInv, MessagesOK
<1>2. UNCHANGED <<asked, discarded>>
  BY DEF QueueTimer, history
<1>3. CASE UNCHANGED <<messageQueue, onWire>>
  BY <1>2, <1>3, Untouched DEF IInv, messages
<1>4. CASE onWire' = onWire \o messageQueue /\ messageQueue' = <<>>
  <2>1. onWire' \in Seq(Nat) /\ ToSet(onWire') = ToSet(onWire) \cup ToSet(messageQueue)
    BY <1>1, <1>4, QueueGrows, ConcatProperties, 0 \in Nat
  <2>2. messageQueue' \in Seq(Nat) /\ ToSet(messageQueue') = {}
    BY <1>4 DEF ToSet
  <2> QED BY <1>2, <2>1, <2>2 DEF IInv, MessagesOK
<1>5. CASE /\ messageQueue # <<>> /\ UNCHANGED onWire
           /\ messageQueue' = Append(messageQueue, Head(messageQueue))
  <2>1. Head(messageQueue) \in Nat /\ Head(messageQueue) \in ToSet(messageQueue)
    BY <1>1, <1>5, HeadWaits
  <2>. DEFINE h == Head(messageQueue)
  <2>2. /\ Append(messageQueue, h) \in Seq(Nat)
        /\ ToSet(Append(messageQueue, h)) = ToSet(messageQueue) \cup {h}
    <3>1. h \in Nat
      BY <2>1
    <3>. HIDE DEF h
    <3> QED BY <1>1, <3>1, QueueGrows
  <2>3. messageQueue' \in Seq(Nat) /\ ToSet(messageQueue') = ToSet(messageQueue)
    BY <1>5, <2>1, <2>2
  <2> QED BY <1>2, <1>5, <2>3 DEF IInv, MessagesOK
<1> QED BY <1>3, <1>4, <1>5 DEF QueueTimer, ProcessMessageQueue

\* A socket that closes takes any promise with it and may start a retry.
LEMMA OnCloseKeeps ==
  ASSUME IInv, NEW s \in Sockets, NEW userClosed \in BOOLEAN, OnClose(s, userClosed)
  PROVE  SetupOK' /\ RetriesOK'
<1>1. SetupOK'
  BY DEF IInv, SetupOK, OnClose, PromiseIsLive, ReadyStates
<1>2. reconnectAttempts' \in 0..MaxReconnectAttempts /\ reconnectTimer' \in BOOLEAN
  <2>1. CASE UNCHANGED <<reconnectAttempts, reconnectTimer>>
    BY <2>1 DEF IInv, RetriesOK
  <2>2. CASE /\ ~(reconnectAttempts >= MaxReconnectAttempts)
             /\ reconnectAttempts' = reconnectAttempts + 1 /\ reconnectTimer' = TRUE
    BY <2>2, ServicesAssumption DEF IInv, RetriesOK
  <2> QED BY <2>1, <2>2 DEF OnClose, AttemptReconnect
<1> QED BY <1>1, <1>2 DEF IInv, RetriesOK, OnClose


-----------------------------------------------------------------------------
LEMMA InitHolds == ASSUME Init  PROVE IInv
<1>1. ToSet(<<>>) = {}
  BY DEF ToSet
<1>2. SetupOK
  BY DEF Init, SetupOK, ReadyStates, PromiseIsLive
<1>3. MessagesOK
  BY <1>1 DEF Init, MessagesOK
<1>4. RetriesOK
  <2>1. 0 \in 0..MaxReconnectAttempts
    BY ServicesAssumption
  <2> QED BY <2>1 DEF Init, RetriesOK
<1> QED BY <1>2, <1>3, <1>4 DEF IInv

LEMMA StepHolds == ASSUME IInv, [Next]_vars  PROVE IInv'
<1>1. SetupOK /\ MessagesOK /\ RetriesOK
  BY DEF IInv
<1>2. CASE PageConnects
  <2>1. SetupOK'
    BY <1>1, <1>2, ConnectSetsUp DEF PageConnects, Connect
  <2>2. UNCHANGED messages /\ UNCHANGED retries
    BY <1>2 DEF PageConnects, messages, retries
  <2> QED BY <1>1, <2>1, <2>2, Untouched DEF IInv
<1>3. CASE Send
  <2>1. UNCHANGED retries
    BY <1>3 DEF Send, retries
  <2> QED BY <1>1, <1>3, <2>1, SendKeeps, Untouched DEF IInv
<1>4. CASE Disconnect
  <2>1. SetupOK'
    BY <1>1, <1>4 DEF SetupOK, Disconnect, PromiseIsLive, ReadyStates, IsOpen, Null
  <2>2. messageQueue' \in Seq(Nat) /\ ToSet(messageQueue') = {}
    BY <1>4 DEF Disconnect, ToSet
  <2>3. MessagesOK'
    BY <1>1, <1>4, <2>2 DEF Disconnect, MessagesOK
  <2>4. RetriesOK'
    <3>1. reconnectAttempts' = 0 /\ 0 \in 0..MaxReconnectAttempts
      BY <1>4, ServicesAssumption DEF Disconnect
    <3>2. ws # Null => ws \in Sockets
      BY <1>1 DEF SetupOK
    <3> QED BY <1>1, <1>4, <3>1, <3>2 DEF Disconnect, RetriesOK, IsOpen
  <2> QED BY <2>1, <2>3, <2>4 DEF IInv
<1>5. CASE ReconnectTimer
  <2>1. UNCHANGED connection => UNCHANGED setup
    BY DEF connection, setup
  <2>2. SetupOK'
    BY <1>1, <1>5, <2>1, ConnectSetsUp, Untouched DEF ReconnectTimer
  <2>3. UNCHANGED messages
    BY <1>5 DEF ReconnectTimer, messages, history
  <2>4. RetriesOK'
    BY <1>1, <1>5 DEF ReconnectTimer, RetriesOK, listeners
  <2> QED BY <1>1, <2>2, <2>3, <2>4, Untouched DEF IInv
<1>6. CASE QueueTimer
  <2>1. UNCHANGED setup
    BY <1>6 DEF QueueTimer, setup
  <2>2. RetriesOK'
    BY <1>1, <1>6 DEF QueueTimer, RetriesOK, listeners
  <2> QED BY <1>1, <1>6, <2>1, <2>2, QueueTimerKeeps, Untouched DEF IInv
<1>7. CASE OpenTimer
  <2>1. SetupOK'
    <3>1. CASE ws # Null /\ ~IsOpen(ws)
      <4>1. ws \in Sockets /\ sock[ws] \in ReadyStates
        BY <1>1, <3>1 DEF SetupOK
      <4>2. /\ sock' = [sock EXCEPT ![ws] = IF @ = "CONNECTING" THEN "CLOSING" ELSE @]
            /\ connectionPromise' = FALSE
        BY <1>7, <3>1 DEF OpenTimer
      <4>3. sock' \in [Sockets -> ReadyStates]
        BY <1>1, <4>1, <4>2 DEF SetupOK, ReadyStates
      <4>4. openTimers' \in Nat /\ ws' = ws
        BY <1>1, <1>7 DEF OpenTimer, SetupOK
      <4> QED
        BY <1>1, <4>2, <4>3, <4>4 DEF SetupOK, PromiseIsLive
    <3>2. CASE ~(ws # Null /\ ~IsOpen(ws))
      BY <1>1, <1>7, <3>2 DEF OpenTimer, SetupOK, PromiseIsLive
    <3> QED BY <3>1, <3>2
  <2>2. UNCHANGED messages /\ UNCHANGED retries
    BY <1>7 DEF OpenTimer, messages, retries, history
  <2> QED BY <1>1, <2>1, <2>2, Untouched DEF IInv
<1>8. ASSUME NEW s \in Sockets, Opened(s)  PROVE IInv'
  <2>1. SetupOK'
    BY <1>1, <1>8 DEF Opened, SetupOK, PromiseIsLive, ReadyStates
  <2>2. UNCHANGED messages
    BY <1>8 DEF Opened, messages, history
  <2>3. RetriesOK'
    <3>1. reconnectAttempts' \in 0..MaxReconnectAttempts
      <4>1. 0 \in 0..MaxReconnectAttempts
        BY ServicesAssumption
      <4> QED BY <1>8, <4>1 DEF Opened
    <3>2. isConnected' \in BOOLEAN /\ reconnectTimer' \in BOOLEAN
      BY <1>8 DEF Opened
    <3>3. queueTimers' \in Nat
      BY <1>1, <1>8 DEF Opened, RetriesOK
    <3>4. closeOnOpen' \subseteq Sockets /\ byUser' \subseteq Sockets
      <4>1. /\ closeOnOpen' = closeOnOpen \ {s}
            /\ byUser' = byUser \cup ({s} \cap closeOnOpen)
        BY <1>8 DEF Opened
      <4>2. closeOnOpen \subseteq Sockets /\ byUser \subseteq Sockets
        BY <1>1 DEF RetriesOK
      <4> QED BY <4>1, <4>2
    <3> QED BY <3>1, <3>2, <3>3, <3>4 DEF RetriesOK
  <2> QED BY <1>1, <2>1, <2>2, <2>3, Untouched DEF IInv
<1>9. ASSUME NEW s \in Sockets,
             Fails(s) \/ Drops(s) \/ \E userClosed \in BOOLEAN : Closed(s, userClosed)
      PROVE  IInv'
  <2>1. PICK userClosed \in BOOLEAN : OnClose(s, userClosed)
    BY <1>9 DEF Fails, Drops, Closed
  <2>2. UNCHANGED messages
    BY <1>9, <2>1 DEF Fails, Drops, Closed, OnClose, messages, history
  <2> QED BY <1>1, <2>1, <2>2, OnCloseKeeps, Untouched DEF IInv
<1>10. CASE UNCHANGED vars
  <2>1. UNCHANGED setup /\ UNCHANGED messages /\ UNCHANGED retries
    BY <1>10 DEF vars, setup, messages, retries, history, timers
  <2> QED BY <1>1, <2>1, Untouched DEF IInv
<1> QED
  BY <1>2, <1>3, <1>4, <1>5, <1>6, <1>7, <1>8, <1>9, <1>10 DEF Next

\* The inductive invariant holds of every state of the service.
THEOREM ServicesInvariance == SafeSpec => []IInv
<1>1. Init => IInv
  BY InitHolds
<1>2. IInv /\ [Next]_vars => IInv'
  BY StepHolds
<1> QED BY <1>1, <1>2, PTL DEF SafeSpec

\* Types, and the limit of the reconnection attempts (Services.js:15, 336).
THEOREM ServicesTypes == SafeSpec => []TypeOK
<1>1. IInv => TypeOK
  BY DEF IInv, SetupOK, MessagesOK, RetriesOK, TypeOK
<1> QED BY <1>1, ServicesInvariance, PTL

(***************************************************************************)
(* No message handed to send() is lost but by disconnect(): what is queued *)
(* while there is no open socket stays queued until it is sent.            *)
(***************************************************************************)
THEOREM NothingIsForgotten == SafeSpec => []NothingForgotten
<1>1. IInv => NothingForgotten
  BY DEF IInv, MessagesOK, NothingForgotten
<1> QED BY <1>1, ServicesInvariance, PTL

(***************************************************************************)
(* The promise of connect() is pending only while the present socket is    *)
(* being set up, whatever sockets that were let go of still call back.     *)
(***************************************************************************)
THEOREM PromiseStaysLive == SafeSpec => []PromiseIsLive
<1>1. IInv => PromiseIsLive
  BY DEF IInv, SetupOK
<1> QED BY <1>1, ServicesInvariance, PTL
=============================================================================
