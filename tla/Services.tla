------------------------------ MODULE Services ------------------------------
(***************************************************************************)
(* The connection service of the web client                                *)
(* (src/src/frontend/src/services/Services.js): one WebSocket at a time to *)
(* the gateway, a queue for messages that cannot be sent yet, reconnection *)
(* with a limited number of attempts, and three kinds of timers.           *)
(*                                                                         *)
(* The browser runs one callback at a time; each is an action.  A socket   *)
(* that the service has let go of still calls back, and its handlers act   *)
(* on the one state that all sockets share.  isDisconnecting is set and    *)
(* reset within disconnect(), so no callback ever sees it; isConnecting is *)
(* written and never read.                                                 *)
(***************************************************************************)
EXTENDS Integers, Sequences, FiniteSets, SequencesExt

CONSTANTS
  MaxSockets,             \* bound: how many sockets exist at a time
  MaxConnects,            \* bound: how often the pages ask for a connection
  MaxMessages,            \* bound: how many messages the pages send
  MaxDrops,               \* bound: how often an open connection breaks
  MaxLogouts,             \* bound: how often the user disconnects
  MaxReconnectAttempts    \* maxReconnectAttempts (5 in the code)

ASSUME ServicesAssumption ==
  /\ MaxSockets \in Nat \ {0}
  /\ {MaxConnects, MaxMessages, MaxDrops, MaxLogouts, MaxReconnectAttempts} \subseteq Nat

Sockets == 1..MaxSockets
Null == 0

VARIABLES
  sock,                \* socket -> readyState
  ws,                  \* this.ws: a socket or Null
  isConnected,
  connectionPromise,   \* is one pending?
  reconnectAttempts,
  reconnectTimer,      \* does it run?
  messageQueue,
  openTimers,          \* how many 10 second timers of connect() run
  queueTimers,         \* how many 50 millisecond timers of onopen run
  closeOnOpen,         \* sockets with a listener that closes them once open
  byUser,              \* closing sockets on which close(1000) was called
  asked,               \* how many messages the pages have asked to send
  onWire,              \* the messages handed to a socket, in order
  discarded,           \* the messages disconnect() has thrown away
  connects, drops, logouts   \* how often each has happened

timers == <<reconnectTimer, openTimers, queueTimers>>
listeners == <<closeOnOpen, byUser>>
history == <<asked, discarded, connects, drops, logouts>>
vars == <<sock, ws, isConnected, connectionPromise, reconnectAttempts,
          messageQueue, onWire, timers, listeners, history>>

ReadyStates == {"CONNECTING", "OPEN", "CLOSING", "CLOSED"}

Init ==
  /\ sock = [s \in Sockets |-> "CLOSED"]
  /\ ws = Null /\ isConnected = FALSE /\ connectionPromise = FALSE
  /\ reconnectAttempts = 0 /\ reconnectTimer = FALSE
  /\ messageQueue = <<>> /\ onWire = <<>>
  /\ openTimers = 0 /\ queueTimers = 0
  /\ closeOnOpen = {} /\ byUser = {}
  /\ asked = 0 /\ discarded = {}
  /\ connects = 0 /\ drops = 0 /\ logouts = 0

-----------------------------------------------------------------------------
IsOpen(s) == s # Null /\ sock[s] = "OPEN"

\* A closed socket calls back no more, so its number serves for a new one.
Unused == {s \in Sockets : sock[s] = "CLOSED"}

NewSocket == CHOOSE s \in Unused : TRUE

\* connect() goes on to make a new WebSocket.
MustConnect == ~connectionPromise /\ ~(isConnected /\ IsOpen(ws))

OpenSocket ==
  /\ Unused # {}
  /\ ws' = NewSocket
  /\ sock' = [sock EXCEPT ![NewSocket] = "CONNECTING"]
  /\ connectionPromise' = TRUE
  /\ openTimers' = openTimers + 1

connection == <<ws, sock, connectionPromise, openTimers>>

Connect == IF MustConnect THEN OpenSocket ELSE UNCHANGED connection

\* A page asks for a connection: login, registration, the lobby on its mount.
PageConnects ==
  /\ MustConnect /\ connects < MaxConnects
  /\ connects' = connects + 1
  /\ OpenSocket
  /\ UNCHANGED <<isConnected, reconnectAttempts, messageQueue, onWire,
                 reconnectTimer, queueTimers, listeners, asked, discarded,
                 drops, logouts>>

-----------------------------------------------------------------------------
\* Mutant: a message is sent or queued by isConnected alone.
SendIfOpen(m) ==
  IF IsOpen(ws) /\ isConnected
  THEN /\ onWire' = Append(onWire, m)
       /\ UNCHANGED <<messageQueue, connection>>
  ELSE IF IsOpen(ws) THEN UNCHANGED <<messageQueue, onWire, connection>>
  ELSE /\ messageQueue' = Append(messageQueue, m)
       /\ UNCHANGED onWire
       /\ IF ~isConnected /\ ~connectionPromise THEN Connect
          ELSE UNCHANGED connection

(***************************************************************************)
(* send(): a message that finds no open socket is queued, and a connection *)
(* is asked for if none is on its way; one that finds an open socket while *)
(* isConnected is false is queued, and that is all.                        *)
(***************************************************************************)
SendMessage(m) ==
  IF IsOpen(ws) /\ isConnected
  THEN /\ onWire' = Append(onWire, m)
       /\ UNCHANGED <<messageQueue, connection>>
  ELSE /\ messageQueue' = Append(messageQueue, m)
       /\ UNCHANGED onWire
       /\ IF ~IsOpen(ws) /\ ~isConnected /\ ~connectionPromise THEN Connect
          ELSE UNCHANGED connection

\* A page sends its next message.
Send ==
  /\ asked < MaxMessages
  /\ asked' = asked + 1
  /\ SendMessage(asked')
  /\ UNCHANGED <<isConnected, reconnectAttempts, reconnectTimer, queueTimers,
                 listeners, discarded, connects, drops, logouts>>

(***************************************************************************)
(* processMessageQueue on an open socket.  If isConnected is false the     *)
(* first message is queued twice: send() puts it at the end, and the loop, *)
(* told that it was not sent, puts it back in front.                       *)
(***************************************************************************)
ProcessMessageQueue ==
  IF isConnected
  THEN /\ onWire' = onWire \o messageQueue
       /\ messageQueue' = <<>>
  ELSE /\ messageQueue' = IF messageQueue = <<>> THEN <<>>
                          ELSE Append(messageQueue, Head(messageQueue))
       /\ UNCHANGED onWire

\* A 50 millisecond timer, set when a socket opened, finds the present socket.
QueueTimer ==
  /\ queueTimers > 0
  /\ queueTimers' = queueTimers - 1
  /\ IF IsOpen(ws) THEN ProcessMessageQueue ELSE UNCHANGED <<messageQueue, onWire>>
  /\ UNCHANGED <<sock, ws, isConnected, connectionPromise, reconnectAttempts,
                 reconnectTimer, openTimers, listeners, history>>

-----------------------------------------------------------------------------
\* onopen, then the listener of a disconnect() that came too early.
Opened(s) ==
  /\ sock[s] = "CONNECTING"
  /\ sock' = [sock EXCEPT ![s] = IF s \in closeOnOpen THEN "CLOSING" ELSE "OPEN"]
  /\ closeOnOpen' = closeOnOpen \ {s}
  /\ byUser' = byUser \cup ({s} \cap closeOnOpen)
  /\ isConnected' = TRUE
  /\ reconnectAttempts' = 0
  /\ connectionPromise' = FALSE
  /\ reconnectTimer' = FALSE
  /\ queueTimers' = queueTimers + 1
  /\ UNCHANGED <<ws, messageQueue, onWire, openTimers, history>>

\* Mutant: a connection that breaks is not tried again.
NeverReconnect == UNCHANGED <<reconnectAttempts, reconnectTimer>>

\* Mutant: one attempt more than the limit.
OneAttemptMore ==
  IF reconnectAttempts > MaxReconnectAttempts
  THEN UNCHANGED <<reconnectAttempts, reconnectTimer>>
  ELSE /\ reconnectAttempts' = reconnectAttempts + 1
       /\ reconnectTimer' = TRUE

\* attemptReconnect: one more attempt after a while, up to the limit.
AttemptReconnect ==
  IF reconnectAttempts >= MaxReconnectAttempts
  THEN UNCHANGED <<reconnectAttempts, reconnectTimer>>
  ELSE /\ reconnectAttempts' = reconnectAttempts + 1
       /\ reconnectTimer' = TRUE

\* Mutant: onclose leaves the promise to the socket's own error handler.
KeepPromise(s, userClosed) ==
  /\ sock' = [sock EXCEPT ![s] = "CLOSED"]
  /\ isConnected' = FALSE
  /\ IF userClosed THEN UNCHANGED <<reconnectAttempts, reconnectTimer>>
     ELSE AttemptReconnect
  /\ closeOnOpen' = closeOnOpen \ {s} /\ byUser' = byUser \ {s}
  /\ UNCHANGED <<connectionPromise, ws, messageQueue, onWire, openTimers, queueTimers>>

\* onclose of any socket; userClosed: the close code is 1000.
OnClose(s, userClosed) ==
  /\ sock' = [sock EXCEPT ![s] = "CLOSED"]
  /\ isConnected' = FALSE
  /\ connectionPromise' = FALSE
  /\ IF userClosed THEN UNCHANGED <<reconnectAttempts, reconnectTimer>>
     ELSE AttemptReconnect
  /\ closeOnOpen' = closeOnOpen \ {s} /\ byUser' = byUser \ {s}
  /\ UNCHANGED <<ws, messageQueue, onWire, openTimers, queueTimers>>

\* A connection cannot be made: onerror, then onclose with code 1006.
Fails(s) ==
  /\ sock[s] = "CONNECTING"
  /\ OnClose(s, FALSE)
  /\ UNCHANGED history

\* An open connection breaks, or the gateway closes it with code 1011.
Drops(s) ==
  /\ sock[s] = "OPEN" /\ drops < MaxDrops
  /\ drops' = drops + 1
  /\ OnClose(s, FALSE)
  /\ UNCHANGED <<asked, discarded, connects, logouts>>

\* The closing handshake ends.  The close code is the user's if the user closed
\* it and the handshake was not cut off.
Closed(s, userClosed) ==
  /\ sock[s] = "CLOSING"
  /\ userClosed => s \in byUser
  /\ OnClose(s, userClosed)
  /\ UNCHANGED history

\* The reconnect timer runs out.
ReconnectTimer ==
  /\ reconnectTimer
  /\ reconnectTimer' = FALSE
  /\ IF ~isConnected THEN Connect ELSE UNCHANGED connection
  /\ UNCHANGED <<isConnected, reconnectAttempts, messageQueue, onWire,
                 queueTimers, listeners, history>>

(***************************************************************************)
(* A 10 second timer, set when a socket was made: it looks at this.ws,     *)
(* which may be another socket by now, and closes it if it is not open.    *)
(***************************************************************************)
OpenTimer ==
  /\ openTimers > 0
  /\ openTimers' = openTimers - 1
  /\ IF ws # Null /\ ~IsOpen(ws)
     THEN /\ sock' = [sock EXCEPT ![ws] = IF @ = "CONNECTING" THEN "CLOSING" ELSE @]
          /\ connectionPromise' = FALSE
     ELSE UNCHANGED <<sock, connectionPromise>>
  /\ UNCHANGED <<ws, isConnected, reconnectAttempts, messageQueue, onWire,
                 reconnectTimer, queueTimers, listeners, history>>

\* disconnect(): the service lets go of its socket, which still has to close.
Disconnect ==
  /\ logouts < MaxLogouts
  /\ logouts' = logouts + 1
  /\ reconnectTimer' = FALSE
  /\ ws' = Null
  /\ isConnected' = IF ws = Null THEN isConnected ELSE FALSE
  /\ sock' = IF IsOpen(ws) THEN [sock EXCEPT ![ws] = "CLOSING"] ELSE sock
  /\ closeOnOpen' = IF ws # Null /\ sock[ws] = "CONNECTING"
                    THEN closeOnOpen \cup {ws} ELSE closeOnOpen
  /\ byUser' = IF IsOpen(ws) THEN byUser \cup {ws} ELSE byUser
  /\ discarded' = discarded \cup ToSet(messageQueue)
  /\ messageQueue' = <<>>
  /\ reconnectAttempts' = 0
  /\ connectionPromise' = FALSE
  /\ UNCHANGED <<onWire, openTimers, queueTimers, asked, connects, drops>>

Next ==
  \/ PageConnects \/ Send \/ Disconnect
  \/ ReconnectTimer \/ QueueTimer \/ OpenTimer
  \/ \E s \in Sockets :
       \/ Opened(s) \/ Fails(s) \/ Drops(s)
       \/ \E userClosed \in BOOLEAN : Closed(s, userClosed)

(***************************************************************************)
(* Timers run out, and a socket that connects or closes comes to an end of *)
(* it.  Nothing makes a page send or a user connect.                       *)
(***************************************************************************)
Settles(s) == Opened(s) \/ Fails(s) \/ \E userClosed \in BOOLEAN : Closed(s, userClosed)

SafeSpec == Init /\ [][Next]_vars

Spec ==
  /\ SafeSpec
  /\ WF_vars(ReconnectTimer) /\ WF_vars(QueueTimer) /\ WF_vars(OpenTimer)
  /\ \A s \in Sockets : WF_vars(Settles(s))

-----------------------------------------------------------------------------
\* Every variable keeps its type; the attempts keep to their limit.
TypeOK ==
  /\ sock \in [Sockets -> ReadyStates]
  /\ ws \in Sockets \cup {Null}
  /\ {isConnected, connectionPromise, reconnectTimer} \subseteq BOOLEAN
  /\ reconnectAttempts \in 0..MaxReconnectAttempts
  /\ ToSet(messageQueue) \cup ToSet(onWire) \cup discarded \subseteq 1..asked
  /\ {openTimers, queueTimers} \subseteq Nat
  /\ closeOnOpen \cup byUser \subseteq Sockets

(***************************************************************************)
(* A message that a page has handed to send() is in the queue or has been  *)
(* handed to a socket, unless disconnect() has thrown it away: no late     *)
(* callback of an old socket, reconnection or timer loses one.             *)
(***************************************************************************)
NothingForgotten ==
  1..asked \subseteq ToSet(messageQueue) \cup ToSet(onWire) \cup discarded

(***************************************************************************)
(* The promise that connect() hands to every later caller is pending only  *)
(* while the present socket is being set up: whatever old sockets and      *)
(* timers do meanwhile, no caller is given a promise that nothing settles. *)
(***************************************************************************)
PromiseIsLive == connectionPromise => ws # Null /\ sock[ws] = "CONNECTING"

\* All attempts are used up, the last one included, and no timer starts another.
GivenUp ==
  /\ reconnectAttempts = MaxReconnectAttempts /\ ~reconnectTimer
  /\ ~isConnected /\ \A s \in Sockets : sock[s] # "CONNECTING"

(***************************************************************************)
(* As long as the user does not disconnect, a service that has lost its    *)
(* connection, or is still making one, gets to be connected in the end, or *)
(* gives up after its last attempt: no late callback cancels the retries.  *)
(***************************************************************************)
ConnectionComesBack ==
  ws # Null /\ ~isConnected /\ logouts = 0
    ~> isConnected \/ GivenUp \/ logouts > 0
=============================================================================
