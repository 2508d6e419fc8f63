------------------------------ MODULE Gateway ------------------------------
(***************************************************************************)
(* One WebSocket of the gateway (src/src/gateway/index.js) and the TCP     *)
(* connections it makes to the server through its TcpConnectionManager     *)
(* (utils.js).  Node runs one callback at a time to its end, together with *)
(* the promise continuations it sets free, so a callback is an action:     *)
(* what happens between two callbacks is where the races are.              *)
(*                                                                         *)
(* connect() retries by calling itself, so a dial belongs either to the    *)
(* pending connectingPromise or to nobody: the error listener that retries *)
(* stays on an established socket, and a retry it starts has no one left   *)
(* to tell.  A socket's error is followed at once by its close, so the two *)
(* are one action.                                                         *)
(*                                                                         *)
(* Not here: ping and pong, logging, and the conversion of JSON to binary. *)
(***************************************************************************)
EXTENDS Framing, FiniteSets

CONSTANTS
  MaxConns,     \* bound: how many TCP connections are ever dialled
  MaxUp,        \* bound: how many messages the browser sends
  MaxDown,      \* bound: how many messages the server sends on a connection
  MaxRetries    \* maxRetries (5 in the code)

ASSUME GatewayAssumption ==
  /\ MaxConns \in Nat \ {0} /\ MaxUp \in Nat /\ MaxDown \in Nat /\ MaxRetries \in Nat

Conns == 1..MaxConns

Nothing == 0

VARIABLES
  ws,            \* readyState of the WebSocket
  received,      \* messages the WebSocket has brought so far
  sock,          \* TCP connection -> its state
  owner,         \* TCP connection -> whose dial it is
  tcpClient,     \* the connection in use, or Nothing
  isConnected,
  attempt,       \* the connectingPromise is pending
  waiting,       \* messages whose handlers await the promise
  isConnecting,  \* of the TcpConnectionManager
  retryCount,    \* of the TcpConnectionManager
  timers,        \* retry timers that run: whose dial each will repeat
  up,            \* TCP connection -> bytes on their way to the server
  written,       \* the messages written to any connection, in order
  handled,       \* TCP connection -> messages the server took out of it
  down,          \* TCP connection -> bytes on their way to the gateway
  sent,          \* TCP connection -> how many messages the server sent on it
  buffer,        \* messageBuffer.buffer
  shown,         \* messages sent on to the browser
  inTime         \* connections established while the WebSocket was open

gatewayVars == <<tcpClient, isConnected, attempt, waiting, isConnecting,
                 retryCount, timers, owner, inTime>>
vars == <<ws, received, sock, gatewayVars, up, written, handled, down, sent,
          buffer, shown>>

WsStates == {"OPEN", "CLOSING", "CLOSED"}
SockStates == {"NONE", "DIALING", "UP", "CLOSED"}
Owners == {"promise", "nobody"}

Init ==
  /\ ws = "OPEN" /\ received = 0
  /\ sock = [c \in Conns |-> "NONE"]
  /\ owner = [c \in Conns |-> "nobody"]
  /\ tcpClient = Nothing /\ isConnected = FALSE
  /\ attempt = FALSE /\ waiting = <<>>
  /\ isConnecting = FALSE /\ retryCount = 0 /\ timers = {}
  /\ up = [c \in Conns |-> <<>>] /\ written = <<>>
  /\ handled = [c \in Conns |-> <<>>]
  /\ down = [c \in Conns |-> <<>>] /\ sent = [c \in Conns |-> 0]
  /\ buffer = <<>> /\ shown = <<>> /\ inTime = {}

-----------------------------------------------------------------------------
Unused == {c \in Conns : sock[c] = "NONE"}

NextConn == CHOOSE c \in Unused : TRUE

\* Everything that is on the wire.
wires == <<up, written, handled, down, sent, buffer, shown>>

\* ws.close(1011) if the WebSocket is open.
CloseWs == ws' = IF ws = "OPEN" THEN "CLOSING" ELSE ws

\* The bytes of some messages, one after the other.
BytesOf(messages) ==
  [i \in 1..(Len(messages) * Width) |->
     <<messages[(i - 1) \div Width + 1], ((i - 1) % Width) + 1>>]

\* Mutant: the handler that has waited longest is the last to go on.
ForwardReversed(c, messages) ==
  /\ up' = [up EXCEPT ![c] = @ \o BytesOf(Reverse(messages))]
  /\ written' = written \o Reverse(messages)

\* forwardToTcpServer, for each of some messages in turn.
Forward(c, messages) ==
  /\ up' = [up EXCEPT ![c] = @ \o BytesOf(messages)]
  /\ written' = written \o messages

\* bound: there is a connection left for one more retry timer or dial.
Spare == Cardinality(timers) < Cardinality(Unused)

\* TcpConnectionManager.connect() while no other dial of it is in progress.
Dial(who) ==
  /\ Unused # {}
  /\ sock' = [sock EXCEPT ![NextConn] = "DIALING"]
  /\ owner' = [owner EXCEPT ![NextConn] = who]
  /\ isConnecting' = TRUE

-----------------------------------------------------------------------------
\* A message comes while the connection is up: it is forwarded at once.
MessageForwarded ==
  /\ ws # "CLOSED" /\ received < MaxUp /\ isConnected
  /\ received' = received + 1
  /\ Forward(tcpClient, <<received'>>)
  /\ UNCHANGED <<ws, sock, gatewayVars, handled, down, sent, buffer, shown>>

\* A message comes while a connection is being set up: its handler awaits it.
MessageWaits ==
  /\ ws # "CLOSED" /\ received < MaxUp /\ ~isConnected /\ attempt
  /\ received' = received + 1
  /\ waiting' = Append(waiting, received')
  /\ UNCHANGED <<ws, sock, owner, tcpClient, isConnected, attempt, isConnecting,
                 retryCount, timers, inTime, wires>>

\* A message comes and there is no connection: its handler sets one up.
MessageDials ==
  /\ ws # "CLOSED" /\ received < MaxUp /\ ~isConnected /\ ~attempt
  /\ ~isConnecting /\ Spare
  /\ received' = received + 1
  /\ Dial("promise")
  /\ attempt' = TRUE
  /\ waiting' = <<received'>>
  /\ UNCHANGED <<ws, tcpClient, isConnected, retryCount, timers, inTime, wires>>

\* The manager is busy with a dial of nobody's: "Connection already in progress".
MessageRefused ==
  /\ ws # "CLOSED" /\ received < MaxUp /\ ~isConnected /\ ~attempt
  /\ isConnecting
  /\ received' = received + 1
  /\ CloseWs
  /\ UNCHANGED <<sock, gatewayVars, wires>>

-----------------------------------------------------------------------------
\* A dial of the promise succeeds: handlers are attached, waiters forwarded.
Connected(c) ==
  /\ sock[c] = "DIALING" /\ owner[c] = "promise"
  /\ sock' = [sock EXCEPT ![c] = "UP"]
  /\ tcpClient' = c /\ isConnected' = TRUE
  /\ attempt' = FALSE /\ waiting' = <<>>
  /\ isConnecting' = FALSE /\ retryCount' = 0
  /\ inTime' = IF ws = "CLOSED" THEN inTime ELSE inTime \cup {c}
  /\ Forward(c, waiting)
  /\ UNCHANGED <<ws, received, owner, timers, handled, down, sent, buffer, shown>>

\* A dial of nobody's succeeds: no one listens to the new connection.
ConnectedForNobody(c) ==
  /\ sock[c] = "DIALING" /\ owner[c] = "nobody"
  /\ sock' = [sock EXCEPT ![c] = "UP"]
  /\ isConnecting' = FALSE /\ retryCount' = 0
  /\ UNCHANGED <<ws, received, owner, tcpClient, isConnected, attempt, waiting,
                 timers, inTime, wires>>

\* Mutant: the promise is left pending when the last retry has failed.
RejectNothing ==
  /\ UNCHANGED <<attempt, waiting>>
  /\ CloseWs

\* Mutant: the promise is forgotten before those who wait for it are told.
ForgetPromise ==
  /\ attempt' = FALSE
  /\ UNCHANGED waiting
  /\ CloseWs

\* The promise is rejected: the waiters give up and the WebSocket is closed.
Reject ==
  /\ attempt' = FALSE
  /\ waiting' = <<>>
  /\ CloseWs

\* A dial fails: it is tried again after a while, but not for ever.
DialFails(c) ==
  /\ sock[c] = "DIALING"
  /\ sock' = [sock EXCEPT ![c] = "CLOSED"]
  /\ isConnecting' = FALSE
  /\ IF retryCount < MaxRetries
     THEN /\ Spare
          /\ retryCount' = retryCount + 1
          /\ timers' = timers \cup {owner[c]}
          /\ UNCHANGED <<ws, attempt, waiting>>
     ELSE /\ UNCHANGED <<retryCount, timers>>
          /\ IF owner[c] = "promise" THEN Reject
             ELSE UNCHANGED <<ws, attempt, waiting>>
  /\ UNCHANGED <<received, owner, tcpClient, isConnected, inTime, wires>>

\* Ten seconds pass without an answer: no retry.
DialTimesOut(c) ==
  /\ sock[c] = "DIALING"
  /\ sock' = [sock EXCEPT ![c] = "CLOSED"]
  /\ isConnecting' = FALSE
  /\ IF owner[c] = "promise" THEN Reject ELSE UNCHANGED <<ws, attempt, waiting>>
  /\ UNCHANGED <<received, owner, tcpClient, isConnected, retryCount, timers,
                 inTime, wires>>

\* A retry timer runs out; the manager may have become busy in the meantime.
RetryTimer(who) ==
  /\ who \in timers
  /\ timers' = timers \ {who}
  /\ IF isConnecting
     THEN /\ IF who = "promise" THEN Reject ELSE UNCHANGED <<ws, attempt, waiting>>
          /\ UNCHANGED <<sock, owner, isConnecting>>
     ELSE /\ Dial(who)
          /\ UNCHANGED <<ws, attempt, waiting>>
  /\ UNCHANGED <<received, tcpClient, isConnected, retryCount, inTime, wires>>

-----------------------------------------------------------------------------
\* Mutant: an error leaves isConnected as it was.
StillConnected(c) ==
  /\ UNCHANGED <<isConnected, attempt>>
  /\ buffer' = <<>>
  /\ CloseWs

\* The 'close' and 'error' handlers attached to a connection of the promise.
ConnectionLost(c) ==
  IF owner[c] = "promise"
  THEN /\ isConnected' = FALSE
       /\ attempt' = FALSE
       /\ buffer' = <<>>
       /\ CloseWs
  ELSE UNCHANGED <<isConnected, attempt, buffer, ws>>

\* The server, or the network, ends an established connection without an error.
ServerCloses(c) ==
  /\ sock[c] = "UP"
  /\ sock' = [sock EXCEPT ![c] = "CLOSED"]
  /\ ConnectionLost(c)
  /\ UNCHANGED <<received, owner, tcpClient, waiting, isConnecting, retryCount,
                 timers, inTime, up, written, handled, down, sent, shown>>

\* An established connection fails: connect()'s error listener dials again.
ConnectionFails(c) ==
  /\ sock[c] = "UP"
  /\ sock' = [sock EXCEPT ![c] = "CLOSED"]
  /\ ConnectionLost(c)
  /\ isConnecting' = FALSE
  /\ IF retryCount < MaxRetries
     THEN /\ Spare
          /\ retryCount' = retryCount + 1
          /\ timers' = timers \cup {"nobody"}
     ELSE UNCHANGED <<retryCount, timers>>
  /\ UNCHANGED <<received, owner, tcpClient, waiting, inTime, up, written,
                 handled, down, sent, shown>>

\* Mutant: the connection in use is left open.
KeepTcpClient == UNCHANGED <<sock, isConnected, buffer>>

\* tcpClient.destroy(), if there is one, and its 'close' event.
DestroyTcpClient ==
  IF tcpClient # Nothing /\ sock[tcpClient] = "UP"
  THEN /\ sock' = [sock EXCEPT ![tcpClient] = "CLOSED"]
       /\ isConnected' = FALSE
       /\ buffer' = <<>>
  ELSE UNCHANGED <<sock, isConnected, buffer>>

\* The WebSocket is closed: the connection in use goes with it, a dial does not.
WsClose ==
  /\ ws # "CLOSED"
  /\ ws' = "CLOSED"
  /\ DestroyTcpClient
  /\ UNCHANGED <<received, owner, tcpClient, attempt, waiting, isConnecting,
                 retryCount, timers, inTime, up, written, handled, down, sent, shown>>

-----------------------------------------------------------------------------
(***************************************************************************)
(* server_handle_client_data: one recv() of up to BUFFER_SIZE bytes, one   *)
(* message parsed and handled, everything else in the buffer forgotten.    *)
(***************************************************************************)
Recv(c, n) ==
  /\ sock[c] \in {"UP", "CLOSED"}
  /\ n <= BufferSize /\ n <= Len(up[c])
  /\ \E m \in ParseMessage(Taken(up[c], n)) :
       handled' = IF m = NoMessage THEN handled
                  ELSE [handled EXCEPT ![c] = Append(@, m)]
  /\ up' = [up EXCEPT ![c] = Remaining(@, n)]
  /\ UNCHANGED <<ws, received, sock, gatewayVars, written, down, sent, buffer, shown>>

\* The server answers, or sends news to, a client that has spoken before.
ServerSends(c) ==
  /\ sock[c] = "UP" /\ sent[c] < MaxDown
  /\ handled[c] # <<>>
  /\ sent' = [sent EXCEPT ![c] = @ + 1]
  /\ down' = [down EXCEPT ![c] = @ \o Bytes(<<c, sent'[c]>>)]
  /\ UNCHANGED <<ws, received, sock, gatewayVars, up, written, handled, buffer, shown>>

\* A 'data' event with n bytes: complete messages go to an open WebSocket.
Data(c, n) ==
  /\ sock[c] = "UP" /\ owner[c] = "promise"
  /\ n <= Len(down[c])
  /\ down' = [down EXCEPT ![c] = Remaining(@, n)]
  /\ LET all == buffer \o Taken(down[c], n)
     IN  /\ buffer' = BufferRest(all)
         /\ shown' = IF ws = "OPEN" THEN shown \o ExtractMessages(all) ELSE shown
  /\ UNCHANGED <<ws, received, sock, gatewayVars, up, written, handled, sent>>

Dials(c) == Connected(c) \/ ConnectedForNobody(c) \/ DialFails(c) \/ DialTimesOut(c)

Next ==
  \/ MessageForwarded \/ MessageWaits \/ MessageDials \/ MessageRefused
  \/ \E c \in Conns :
       \/ Dials(c)
       \/ ServerCloses(c)
       \/ ConnectionFails(c)
       \/ ServerSends(c)
       \/ \E n \in 1..BufferSize : Recv(c, n)
       \/ \E n \in 1..(MaxDown * Width) : Data(c, n)
  \/ \E who \in Owners : RetryTimer(who)
  \/ WsClose

(***************************************************************************)
(* A dial ends: it is answered, refused or cut off by its 10 second timer. *)
(* Timers run out, and bytes that were sent on a connection that is up     *)
(* arrive.  Nothing makes a browser send or a server answer.               *)
(***************************************************************************)
Fairness ==
  /\ \A c \in Conns : WF_vars(Dials(c))
  /\ \A c \in Conns : WF_vars(\E n \in 1..(MaxDown * Width) : Data(c, n))
  /\ \A who \in Owners : WF_vars(RetryTimer(who))

Spec == Init /\ [][Next]_vars /\ Fairness

-----------------------------------------------------------------------------
Increasing(s) == \A i, j \in 1..Len(s) : i < j => s[i] < s[j]

\* Every variable keeps its type, and a wait for a promise implies that promise.
TypeOK ==
  /\ ws \in WsStates
  /\ received \in 0..MaxUp
  /\ sock \in [Conns -> SockStates] /\ owner \in [Conns -> Owners]
  /\ tcpClient \in Conns \cup {Nothing}
  /\ {isConnected, attempt, isConnecting} \subseteq BOOLEAN
  /\ waiting # <<>> => attempt
  /\ retryCount \in 0..MaxRetries
  /\ timers \subseteq Owners
  /\ Len(buffer) < Width

(***************************************************************************)
(* What the browser is shown is what the server sent on one connection:    *)
(* the first so many messages, each once, in order and whole, wherever the *)
(* stream was cut, and nothing from another connection that the same       *)
(* WebSocket made before or after.                                         *)
(***************************************************************************)
ShownIsWhatWasSent ==
  \E c \in Conns :
    /\ Len(shown) <= sent[c]
    /\ shown = [i \in 1..Len(shown) |-> <<c, i>>]

(***************************************************************************)
(* Messages reach the TCP connections in the order in which the WebSocket  *)
(* brought them, each at most once, although the handlers of those that    *)
(* come during connection set-up are suspended and set free together.      *)
(***************************************************************************)
ForwardedOnceInOrder == Increasing(written)

(***************************************************************************)
(* The server handles a message at most once, in order, and only when all  *)
(* of it has arrived, however the stream is cut; bytes read from the       *)
(* middle of a message may be taken for something else, but never for a    *)
(* message that was handled.                                               *)
(***************************************************************************)
HandledWholeInOrder ==
  \A c \in Conns : \A i \in 1..Len(handled[c]) :
    handled[c][i] # Garbage =>
      /\ \A j \in 1..(i - 1) : handled[c][j] < handled[c][i]
      /\ \A k \in 1..Len(up[c]) : up[c][k][1] # handled[c][i]

(***************************************************************************)
(* isConnected, which decides whether a message is written at once, says   *)
(* whether the connection tcpClient refers to is up, through errors,       *)
(* reconnections and the end of the WebSocket; and no other connection     *)
(* with listeners is up.                                                   *)
(***************************************************************************)
ConnectedMeansUp ==
  /\ isConnected <=> tcpClient # Nothing /\ sock[tcpClient] = "UP"
  /\ \A c \in Conns :
       sock[c] = "UP" /\ owner[c] = "promise" => c = tcpClient

(***************************************************************************)
(* A connection that outlives its WebSocket, and keeps a client slot of    *)
(* the server, was still being set up when the WebSocket closed, or was    *)
(* dialled again after an error for nobody: one that was set up in time is *)
(* closed with its WebSocket.                                              *)
(***************************************************************************)
OnlyLateOnesOutlive ==
  ws = "CLOSED" =>
    \A c \in Conns : sock[c] = "UP" => c \notin inTime \/ owner[c] = "nobody"

\* However dials fail, time out and are retried, no handler awaits for ever.
NobodyWaitsForEver == waiting # <<>> ~> waiting = <<>>

(***************************************************************************)
(* What the server has sent to a browser is shown to it, down to the last  *)
(* message, unless the connection or the WebSocket goes first.             *)
(***************************************************************************)
AllIsShown ==
  \A c \in Conns :
    sent[c] = MaxDown /\ c = tcpClient
      ~> \/ Len(shown) = MaxDown
         \/ ws # "OPEN"
         \/ sock[c] # "UP"
=============================================================================
