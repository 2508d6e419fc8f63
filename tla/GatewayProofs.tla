--------------------------- MODULE GatewayProofs ---------------------------
(***************************************************************************)
(* What holds of one WebSocket of the gateway for any number of            *)
(* connections, messages and retries, and for messages of any length.      *)
(***************************************************************************)
EXTENDS Gateway, SequenceTheorems, TLAPS

-----------------------------------------------------------------------------
\* What the two sides of the gateway are made of.
StateOK ==
  /\ ws \in WsStates /\ received \in 0..MaxUp
  /\ sock \in [Conns -> SockStates] /\ owner \in [Conns -> Owners]
  /\ tcpClient \in Conns \cup {Nothing}
  /\ isConnected \in BOOLEAN /\ attempt \in BOOLEAN /\ isConnecting \in BOOLEAN
  /\ retryCount \in 0..MaxRetries /\ timers \subseteq Owners

Dialing(c) == sock[c] = "DIALING" /\ owner[c] = "promise"

(***************************************************************************)
(* A pending promise is in one place: a dial of its own or a retry timer;  *)
(* it is pending only while there is no connection in use.                 *)
(***************************************************************************)
OnePromise ==
  /\ attempt => ~isConnected
  /\ \A c \in Conns : Dialing(c) =>
       /\ attempt /\ "promise" \notin timers
       /\ \A d \in Conns : Dialing(d) => d = c
  /\ "promise" \in timers => attempt

\* The connection in use was dialled for the promise and has been established.
ClientOK ==
  tcpClient # Nothing =>
    owner[tcpClient] = "promise" /\ sock[tcpClient] \in {"UP", "CLOSED"}

InTimeOK == inTime \subseteq {c \in Conns : sock[c] \in {"UP", "CLOSED"}}

Control ==
  /\ StateOK /\ OnePromise /\ ClientOK /\ InTimeOK
  /\ ConnectedMeansUp /\ OnlyLateOnesOutlive

control == <<ws, sock, gatewayVars>>

\* The connection that is dialled next was never dialled before.
LEMMA NextConnIsNew ==
  ASSUME Unused # {}
  PROVE  NextConn \in Conns /\ sock[NextConn] = "NONE" /\ NextConn # Nothing
BY DEF NextConn, Unused, Conns, Nothing

-----------------------------------------------------------------------------
LEMMA ControlInit == ASSUME Init  PROVE Control
<1>1. StateOK
  <2>1. 0 \in 0..MaxUp /\ 0 \in 0..MaxRetries
    BY GatewayAssumption
  <2> QED BY <2>1 DEF Init, StateOK, WsStates, SockStates, Owners
<1>2. OnePromise
  BY DEF Init, OnePromise, Dialing
<1>3. ClientOK /\ InTimeOK /\ OnlyLateOnesOutlive
  BY DEF Init, ClientOK, InTimeOK, OnlyLateOnesOutlive
<1>4. ConnectedMeansUp
  BY DEF Init, ConnectedMeansUp
<1> QED BY <1>1, <1>2, <1>3, <1>4 DEF Control

\* What control is made of, and nothing else, decides whether it is in order.
LEMMA ControlUntouched ==
  ASSUME Control, UNCHANGED control, received' \in 0..MaxUp
  PROVE  Control'
BY DEF Control, control, gatewayVars, StateOK, OnePromise, Dialing, ClientOK,
       InTimeOK, ConnectedMeansUp, OnlyLateOnesOutlive

\* ws.close() leaves the readyState one of the three, and a closed one closed.
LEMMA CloseWsStays ==
  ASSUME StateOK, CloseWs  PROVE ws' \in WsStates /\ (ws' = "CLOSED" <=> ws = "CLOSED")
BY DEF StateOK, CloseWs, WsStates


-----------------------------------------------------------------------------
(***************************************************************************)
(* A new dial.  The promise may get one while neither a dial nor a timer   *)
(* is there for it.                                                        *)
(***************************************************************************)
LEMMA DialKeeps ==
  ASSUME Control, NEW who \in Owners, Dial(who),
         UNCHANGED <<ws, tcpClient, isConnected, retryCount, inTime>>,
         received' \in 0..MaxUp, timers' \subseteq timers, attempt' \in BOOLEAN,
         attempt => attempt', attempt' => ~isConnected,
         who = "promise" =>
           attempt' /\ "promise" \notin timers' /\ \A c \in Conns : ~Dialing(c)
  PROVE  Control'
<1>1. PICK n \in Conns :
        /\ sock[n] = "NONE" /\ n # Nothing
        /\ sock' = [sock EXCEPT ![n] = "DIALING"] /\ owner' = [owner EXCEPT ![n] = who]
        /\ isConnecting' = TRUE
  BY NextConnIsNew DEF Dial
<1>2. StateOK /\ OnePromise /\ ClientOK /\ InTimeOK /\ ConnectedMeansUp /\ OnlyLateOnesOutlive
  BY DEF Control
<1>3. StateOK'
  <2>1. sock' \in [Conns -> SockStates] /\ owner' \in [Conns -> Owners]
    BY <1>1, <1>2 DEF StateOK, SockStates
  <2> QED BY <1>1, <1>2, <2>1 DEF StateOK
<1>4. /\ sock'[n] = "DIALING" /\ owner'[n] = who
      /\ \A c \in Conns : c # n => sock'[c] = sock[c] /\ owner'[c] = owner[c]
  BY <1>1, <1>2 DEF StateOK
<1>5. \A c \in Conns : (c # n /\ Dialing(c)') <=> Dialing(c)
  BY <1>1, <1>4 DEF Dialing
<1>6. Dialing(n)' <=> who = "promise"
  BY <1>4 DEF Dialing
<1>7. OnePromise'
  <2>1. CASE who = "promise"
    <3>1. \A c \in Conns : Dialing(c)' => c = n
      BY <1>5, <2>1
    <3>2. attempt' /\ "promise" \notin timers' /\ ~isConnected'
      BY <2>1
    <3> QED BY <3>1, <3>2 DEF OnePromise
  <2>2. CASE who # "promise"
    <3>1. \A c \in Conns : Dialing(c)' => Dialing(c)
      BY <1>5, <1>6, <2>2
    <3>2. "promise" \in timers' => attempt
      BY <1>2 DEF OnePromise
    <3>3. \A c \in Conns : Dialing(c)' =>
            /\ attempt /\ "promise" \notin timers
            /\ \A d \in Conns : Dialing(d)' => d = c
      BY <1>2, <3>1 DEF OnePromise
    <3> QED BY <3>2, <3>3 DEF OnePromise
  <2> QED BY <2>1, <2>2
<1>8. tcpClient # Nothing => tcpClient \in Conns /\ tcpClient # n
  <2>1. tcpClient # Nothing => tcpClient \in Conns /\ sock[tcpClient] \in {"UP", "CLOSED"}
    BY <1>2 DEF StateOK, ClientOK
  <2> QED BY <1>1, <2>1
<1>9. ClientOK'
  BY <1>2, <1>4, <1>8 DEF ClientOK
<1>10. InTimeOK'
  BY <1>1, <1>2, <1>4 DEF InTimeOK
<1>11. ConnectedMeansUp'
  BY <1>2, <1>4, <1>8 DEF ConnectedMeansUp
<1>12. OnlyLateOnesOutlive'
  BY <1>2, <1>4 DEF OnlyLateOnesOutlive
<1> QED BY <1>3, <1>7, <1>9, <1>10, <1>11, <1>12 DEF Control

(***************************************************************************)
(* A dial that ends unanswered.  If it was the promise's, either a retry   *)
(* timer takes over, or the promise is rejected.                           *)
(***************************************************************************)
LEMMA DialEnds ==
  ASSUME Control, NEW c \in Conns, sock[c] = "DIALING",
         sock' = [sock EXCEPT ![c] = "CLOSED"],
         UNCHANGED <<received, owner, tcpClient, isConnected, inTime>>,
         ws' \in WsStates, ws' = "CLOSED" <=> ws = "CLOSED",
         isConnecting' \in BOOLEAN, retryCount' \in 0..MaxRetries,
         \/ timers' = timers \cup {owner[c]} /\ UNCHANGED attempt
         \/ timers' = timers /\ owner[c] = "promise" /\ attempt' = FALSE
         \/ timers' = timers /\ owner[c] = "nobody" /\ UNCHANGED attempt
  PROVE  Control'
<1>1. StateOK /\ OnePromise /\ ClientOK /\ InTimeOK /\ ConnectedMeansUp /\ OnlyLateOnesOutlive
  BY DEF Control
<1>2. owner[c] \in Owners /\ attempt' \in BOOLEAN
  BY <1>1 DEF StateOK
<1>3. StateOK'
  <2>1. sock' \in [Conns -> SockStates]
    BY <1>1 DEF StateOK, SockStates
  <2> QED BY <1>1, <1>2, <2>1 DEF StateOK
<1>4. /\ sock'[c] = "CLOSED"
      /\ \A d \in Conns : d # c => sock'[d] = sock[d]
  BY <1>1 DEF StateOK
<1>5. ~Dialing(c)' /\ \A d \in Conns : Dialing(d)' => Dialing(d) /\ d # c
  BY <1>4 DEF Dialing
<1>6. OnePromise'
  <2>1. CASE owner[c] = "promise"
    <3>1. Dialing(c)
      BY <2>1 DEF Dialing
    <3>2. \A d \in Conns : ~Dialing(d)'
      BY <1>1, <1>5, <3>1 DEF OnePromise
    <3>3. attempt /\ ~isConnected /\ "promise" \notin timers
      BY <1>1, <3>1 DEF OnePromise
    <3> QED BY <2>1, <3>2, <3>3 DEF OnePromise
  <2>2. CASE owner[c] = "nobody"
    <3>1. UNCHANGED attempt /\ ("promise" \in timers' <=> "promise" \in timers)
      BY <2>2
    <3> QED BY <1>1, <1>5, <3>1 DEF OnePromise
  <2> QED BY <1>2, <2>1, <2>2 DEF Owners
<1>7. tcpClient # Nothing => tcpClient \in Conns /\ tcpClient # c
  BY <1>1 DEF StateOK, ClientOK
<1>8. ClientOK'
  BY <1>1, <1>4, <1>7 DEF ClientOK
<1>9. InTimeOK'
  BY <1>1, <1>4 DEF InTimeOK
<1>10. ConnectedMeansUp'
  BY <1>1, <1>4, <1>7 DEF ConnectedMeansUp
<1>11. OnlyLateOnesOutlive'
  BY <1>1, <1>4 DEF OnlyLateOnesOutlive
<1> QED BY <1>3, <1>6, <1>8, <1>9, <1>10, <1>11 DEF Control


-----------------------------------------------------------------------------
\* The dial of the promise succeeds: nothing else of the promise is left.
LEMMA ConnectedKeeps ==
  ASSUME Control, NEW c \in Conns, Connected(c)  PROVE Control'
<1>1. StateOK /\ OnePromise /\ ClientOK /\ InTimeOK /\ ConnectedMeansUp /\ OnlyLateOnesOutlive
  BY DEF Control
<1>2. /\ sock[c] = "DIALING" /\ owner[c] = "promise" /\ c # Nothing
      /\ sock' = [sock EXCEPT ![c] = "UP"]
      /\ tcpClient' = c /\ isConnected' = TRUE /\ attempt' = FALSE
      /\ isConnecting' = FALSE /\ retryCount' = 0
      /\ inTime' = IF ws = "CLOSED" THEN inTime ELSE inTime \cup {c}
      /\ UNCHANGED <<ws, received, owner, timers>>
  BY DEF Connected, Conns, Nothing
<1>3. StateOK'
  <2>1. sock' \in [Conns -> SockStates]
    BY <1>1, <1>2 DEF StateOK, SockStates
  <2>2. 0 \in 0..MaxRetries
    BY GatewayAssumption
  <2> QED BY <1>1, <1>2, <2>1, <2>2 DEF StateOK
<1>4. sock'[c] = "UP" /\ \A d \in Conns : d # c => sock'[d] = sock[d]
  BY <1>1, <1>2 DEF StateOK
<1>5. Dialing(c)
  BY <1>2 DEF Dialing
<1>6. \A d \in Conns : ~Dialing(d)'
  <2>1. \A d \in Conns : Dialing(d)' => Dialing(d) /\ d # c
    BY <1>2, <1>4 DEF Dialing
  <2> QED BY <1>1, <1>5, <2>1 DEF OnePromise
<1>7. attempt /\ ~isConnected /\ "promise" \notin timers
  BY <1>1, <1>5 DEF OnePromise
<1>8. OnePromise'
  BY <1>2, <1>6, <1>7 DEF OnePromise
<1>9. ClientOK'
  BY <1>2, <1>4 DEF ClientOK
<1>10. InTimeOK'
  BY <1>1, <1>2, <1>4 DEF InTimeOK
<1>11. ConnectedMeansUp'
  <2>1. \A d \in Conns : ~(sock[d] = "UP" /\ owner[d] = "promise")
    BY <1>1, <1>7 DEF ConnectedMeansUp, Conns, Nothing
  <2> QED BY <1>2, <1>4, <2>1 DEF ConnectedMeansUp
<1>12. OnlyLateOnesOutlive'
  BY <1>1, <1>2, <1>4 DEF OnlyLateOnesOutlive, InTimeOK
<1> QED BY <1>3, <1>8, <1>9, <1>10, <1>11, <1>12 DEF Control

\* A dial of nobody's succeeds: the gateway does not learn of the connection.
LEMMA ConnectedForNobodyKeeps ==
  ASSUME Control, NEW c \in Conns, ConnectedForNobody(c)  PROVE Control'
<1>1. StateOK /\ OnePromise /\ ClientOK /\ InTimeOK /\ ConnectedMeansUp /\ OnlyLateOnesOutlive
  BY DEF Control
<1>2. /\ sock[c] = "DIALING" /\ owner[c] = "nobody"
      /\ sock' = [sock EXCEPT ![c] = "UP"]
      /\ isConnecting' = FALSE /\ retryCount' = 0
      /\ UNCHANGED <<ws, received, owner, tcpClient, isConnected, attempt, timers, inTime>>
  BY DEF ConnectedForNobody
<1>3. StateOK'
  <2>1. sock' \in [Conns -> SockStates]
    BY <1>1, <1>2 DEF StateOK, SockStates
  <2>2. 0 \in 0..MaxRetries
    BY GatewayAssumption
  <2> QED BY <1>1, <1>2, <2>1, <2>2 DEF StateOK
<1>4. sock'[c] = "UP" /\ \A d \in Conns : d # c => sock'[d] = sock[d]
  BY <1>1, <1>2 DEF StateOK
<1>5. \A d \in Conns : Dialing(d)' <=> Dialing(d)
  BY <1>2, <1>4 DEF Dialing
<1>6. OnePromise'
  BY <1>1, <1>2, <1>5 DEF OnePromise
<1>7. tcpClient # Nothing => tcpClient \in Conns /\ tcpClient # c
  BY <1>1, <1>2 DEF StateOK, ClientOK
<1>8. ClientOK'
  BY <1>1, <1>2, <1>4, <1>7 DEF ClientOK
<1>9. InTimeOK'
  BY <1>1, <1>2, <1>4 DEF InTimeOK
<1>10. ConnectedMeansUp'
  BY <1>1, <1>2, <1>4, <1>7 DEF ConnectedMeansUp
<1>11. OnlyLateOnesOutlive'
  BY <1>1, <1>2, <1>4 DEF OnlyLateOnesOutlive
<1> QED BY <1>3, <1>6, <1>8, <1>9, <1>10, <1>11 DEF Control

-----------------------------------------------------------------------------
(***************************************************************************)
(* An established connection ends.  If it was dialled for the promise, it  *)
(* is the one in use, and no promise is pending.                           *)
(***************************************************************************)
LEMMA LostKeeps ==
  ASSUME Control, NEW c \in Conns, sock[c] = "UP",
         sock' = [sock EXCEPT ![c] = "CLOSED"], ConnectionLost(c),
         UNCHANGED <<received, owner, tcpClient, inTime>>,
         isConnecting' \in BOOLEAN, retryCount' \in 0..MaxRetries,
         timers' = timers \/ timers' = timers \cup {"nobody"}
  PROVE  Control'
<1>1. StateOK /\ OnePromise /\ ClientOK /\ InTimeOK /\ ConnectedMeansUp /\ OnlyLateOnesOutlive
  BY DEF Control
<1>2. owner[c] \in Owners
  BY <1>1 DEF StateOK
<1>3. ws' \in WsStates /\ (ws' = "CLOSED" <=> ws = "CLOSED")
  BY <1>1, CloseWsStays DEF ConnectionLost, StateOK
<1>4. /\ owner[c] = "promise" => isConnected' = FALSE /\ attempt' = FALSE
      /\ owner[c] # "promise" => UNCHANGED <<isConnected, attempt>>
  BY DEF ConnectionLost
<1>5. StateOK'
  <2>1. sock' \in [Conns -> SockStates]
    BY <1>1 DEF StateOK, SockStates
  <2>2. isConnected' \in BOOLEAN /\ attempt' \in BOOLEAN
    BY <1>1, <1>4 DEF StateOK
  <2>3. timers' \subseteq Owners
    BY <1>1 DEF StateOK, Owners
  <2> QED BY <1>1, <1>3, <2>1, <2>2, <2>3 DEF StateOK
<1>6. sock'[c] = "CLOSED" /\ \A d \in Conns : d # c => sock'[d] = sock[d]
  BY <1>1 DEF StateOK
<1>7. \A d \in Conns : Dialing(d)' <=> Dialing(d)
  BY <1>6 DEF Dialing
<1>8. "promise" \in timers' <=> "promise" \in timers
  OBVIOUS
<1>9. owner[c] = "promise" => c = tcpClient /\ isConnected /\ ~attempt
  BY <1>1 DEF ConnectedMeansUp, OnePromise, Conns, Nothing
<1>10. OnePromise'
  BY <1>1, <1>4, <1>7, <1>8, <1>9 DEF OnePromise
<1>11. ClientOK'
  BY <1>1, <1>6 DEF ClientOK, StateOK
<1>12. InTimeOK'
  BY <1>1, <1>6 DEF InTimeOK
<1>13. ConnectedMeansUp'
  <2>1. CASE owner[c] = "promise"
    <3>1. sock'[tcpClient'] # "UP" /\ isConnected' = FALSE
      BY <1>4, <1>6, <1>9, <2>1
    <3>2. \A d \in Conns : ~(sock'[d] = "UP" /\ owner'[d] = "promise")
      BY <1>1, <1>6, <1>9, <2>1 DEF ConnectedMeansUp
    <3> QED BY <3>1, <3>2 DEF ConnectedMeansUp
  <2>2. CASE owner[c] # "promise"
    <3>1. tcpClient # Nothing => tcpClient \in Conns /\ tcpClient # c
      BY <1>1, <2>2 DEF StateOK, ClientOK
    <3> QED BY <1>1, <1>4, <1>6, <2>2, <3>1 DEF ConnectedMeansUp
  <2> QED BY <2>1, <2>2
<1>14. OnlyLateOnesOutlive'
  BY <1>1, <1>3, <1>6 DEF OnlyLateOnesOutlive
<1> QED BY <1>5, <1>10, <1>11, <1>12, <1>13, <1>14 DEF Control

\* The WebSocket is closed and takes the connection in use along.
LEMMA WsCloseKeeps ==
  ASSUME Control, WsClose  PROVE Control'
<1>1. StateOK /\ OnePromise /\ ClientOK /\ InTimeOK /\ ConnectedMeansUp
  BY DEF Control
<1>2. /\ ws' = "CLOSED" /\ DestroyTcpClient
      /\ UNCHANGED <<received, owner, tcpClient, attempt, isConnecting, retryCount,
                     timers, inTime>>
  BY DEF WsClose
<1>3. CASE tcpClient # Nothing /\ sock[tcpClient] = "UP"
  <2>1. tcpClient \in Conns /\ owner[tcpClient] = "promise" /\ isConnected
    BY <1>1, <1>3 DEF StateOK, ClientOK, ConnectedMeansUp
  <2>2. isConnected' = FALSE /\ sock' = [sock EXCEPT ![tcpClient] = "CLOSED"]
    BY <1>2, <1>3 DEF DestroyTcpClient
  <2>3. /\ sock'[tcpClient] = "CLOSED"
        /\ \A d \in Conns : d # tcpClient => sock'[d] = sock[d]
    BY <1>1, <2>1, <2>2 DEF StateOK
  <2>4. StateOK'
    <3>1. sock' \in [Conns -> SockStates]
      BY <1>1, <2>2 DEF StateOK, SockStates
    <3> QED BY <1>1, <1>2, <2>2, <3>1 DEF StateOK, WsStates
  <2>5. \A d \in Conns : Dialing(d)' <=> Dialing(d)
    BY <1>2, <1>3, <2>3 DEF Dialing
  <2>6. OnePromise'
    BY <1>1, <1>2, <2>2, <2>5 DEF OnePromise
  <2>7. ClientOK' /\ InTimeOK'
    BY <1>1, <1>2, <2>1, <2>3 DEF ClientOK, InTimeOK
  <2>8. \A d \in Conns : ~(sock'[d] = "UP" /\ owner'[d] = "promise")
    BY <1>1, <1>2, <2>3 DEF ConnectedMeansUp
  <2>9. ConnectedMeansUp'
    BY <1>2, <2>2, <2>3, <2>8 DEF ConnectedMeansUp
  <2>10. OnlyLateOnesOutlive'
    BY <2>4, <2>8 DEF OnlyLateOnesOutlive, StateOK, Owners
  <2> QED BY <2>4, <2>6, <2>7, <2>9, <2>10 DEF Control
<1>4. CASE ~(tcpClient # Nothing /\ sock[tcpClient] = "UP")
  <2>1. UNCHANGED <<sock, isConnected>>
    BY <1>2, <1>4 DEF DestroyTcpClient
  <2>2. StateOK' /\ OnePromise' /\ ClientOK' /\ InTimeOK' /\ ConnectedMeansUp'
    BY <1>1, <1>2, <2>1
    DEF StateOK, WsStates, OnePromise, Dialing, ClientOK, InTimeOK, ConnectedMeansUp
  <2>3. \A d \in Conns : ~(sock'[d] = "UP" /\ owner'[d] = "promise")
    BY <1>1, <1>2, <1>4, <2>1 DEF ConnectedMeansUp, Conns, Nothing
  <2>4. OnlyLateOnesOutlive'
    BY <2>2, <2>3 DEF OnlyLateOnesOutlive, StateOK, Owners
  <2> QED BY <2>2, <2>4 DEF Control
<1> QED BY <1>3, <1>4


-----------------------------------------------------------------------------
\* One message more of the browser's is within the bound.
LEMMA OneMoreReceived ==
  ASSUME StateOK, received < MaxUp  PROVE received + 1 \in 0..MaxUp
BY GatewayAssumption DEF StateOK

LEMMA MessageDialsKeeps ==
  ASSUME Control, MessageDials  PROVE Control'
<1>1. StateOK /\ OnePromise
  BY DEF Control
<1>2. /\ Dial("promise") /\ attempt' = TRUE /\ timers' = timers
      /\ UNCHANGED <<ws, tcpClient, isConnected, retryCount, inTime>>
      /\ ~isConnected /\ ~attempt
  BY DEF MessageDials
<1>3. received' \in 0..MaxUp
  BY <1>1, OneMoreReceived DEF MessageDials
<1>4. "promise" \notin timers /\ \A c \in Conns : ~Dialing(c)
  BY <1>1, <1>2 DEF OnePromise
<1>5. "promise" \in Owners
  BY DEF Owners
<1> QED BY <1>2, <1>3, <1>4, <1>5, DialKeeps

LEMMA DialFailsKeeps ==
  ASSUME Control, NEW c \in Conns, DialFails(c) \/ DialTimesOut(c)  PROVE Control'
<1>1. StateOK
  BY DEF Control
<1>2. /\ sock[c] = "DIALING" /\ sock' = [sock EXCEPT ![c] = "CLOSED"]
      /\ isConnecting' \in BOOLEAN
      /\ UNCHANGED <<received, owner, tcpClient, isConnected, inTime>>
  BY DEF DialFails, DialTimesOut
<1>3. owner[c] \in Owners /\ retryCount \in 0..MaxRetries /\ ws \in WsStates
  BY <1>1 DEF StateOK
<1>4. CASE /\ retryCount < MaxRetries /\ retryCount' = retryCount + 1
           /\ timers' = timers \cup {owner[c]} /\ UNCHANGED <<ws, attempt>>
  <2>1. retryCount' \in 0..MaxRetries
    BY <1>3, <1>4, GatewayAssumption
  <2> QED BY <1>2, <1>3, <1>4, <2>1, DialEnds
<1>5. CASE UNCHANGED <<retryCount, timers>> /\ owner[c] = "promise" /\ Reject
  <2>1. ws' \in WsStates /\ (ws' = "CLOSED" <=> ws = "CLOSED")
    BY <1>1, <1>5, CloseWsStays DEF Reject
  <2>2. attempt' = FALSE /\ timers' = timers /\ retryCount' \in 0..MaxRetries
    BY <1>3, <1>5 DEF Reject
  <2> QED BY <1>2, <1>5, <2>1, <2>2, DialEnds
<1>6. CASE UNCHANGED <<retryCount, timers, ws, attempt>> /\ owner[c] # "promise"
  <2>1. owner[c] = "nobody" /\ retryCount' \in 0..MaxRetries
    BY <1>3, <1>6 DEF Owners
  <2> QED BY <1>2, <1>3, <1>6, <2>1, DialEnds
<1> QED BY <1>4, <1>5, <1>6 DEF DialFails, DialTimesOut

LEMMA RetryTimerKeeps ==
  ASSUME Control, NEW who \in Owners, RetryTimer(who)  PROVE Control'
<1>1. StateOK /\ OnePromise /\ ClientOK /\ InTimeOK /\ ConnectedMeansUp /\ OnlyLateOnesOutlive
  BY DEF Control
<1>2. /\ who \in timers /\ timers' = timers \ {who}
      /\ UNCHANGED <<received, tcpClient, isConnected, retryCount, inTime>>
  BY DEF RetryTimer
<1>3. who = "promise" => attempt /\ ~isConnected /\ \A c \in Conns : ~Dialing(c)
  BY <1>1, <1>2 DEF OnePromise
<1>4. received' \in 0..MaxUp
  BY <1>1, <1>2 DEF StateOK
<1>5. CASE Dial(who) /\ UNCHANGED <<ws, attempt>>
  <2>1. attempt' \in BOOLEAN /\ (attempt => attempt') /\ (attempt' => ~isConnected)
    BY <1>1, <1>5 DEF StateOK, OnePromise
  <2>2. timers' \subseteq timers /\ who \notin timers'
    BY <1>2
  <2>3. who = "promise" =>
          attempt' /\ "promise" \notin timers' /\ \A c \in Conns : ~Dialing(c)
    BY <1>3, <1>5, <2>2
  <2> QED BY <1>2, <1>4, <1>5, <2>1, <2>2, <2>3, DialKeeps
<1>6. CASE /\ UNCHANGED <<sock, owner, isConnecting>>
           /\ IF who = "promise" THEN Reject ELSE UNCHANGED <<ws, attempt, waiting>>
  <2>1. ws' \in WsStates /\ (ws' = "CLOSED" <=> ws = "CLOSED")
    BY <1>1, <1>6, CloseWsStays DEF Reject, StateOK
  <2>2. \A c \in Conns : Dialing(c)' <=> Dialing(c)
    BY <1>6 DEF Dialing
  <2>3. OnePromise' /\ attempt' \in BOOLEAN
    <3>1. CASE who = "promise"
      <4>1. attempt' = FALSE /\ "promise" \notin timers'
        BY <1>2, <1>6, <3>1 DEF Reject
      <4> QED BY <1>3, <2>2, <3>1, <4>1 DEF OnePromise
    <3>2. CASE who # "promise"
      <4>1. UNCHANGED attempt /\ ("promise" \in timers' <=> "promise" \in timers)
        BY <1>2, <1>6, <3>2
      <4> QED BY <1>1, <1>2, <2>2, <4>1 DEF OnePromise, StateOK
    <3> QED BY <3>1, <3>2
  <2>4. StateOK'
    <3>1. timers' \subseteq Owners
      BY <1>1, <1>2 DEF StateOK
    <3> QED BY <1>1, <1>2, <1>6, <2>1, <2>3, <3>1 DEF StateOK
  <2>5. ClientOK' /\ InTimeOK' /\ ConnectedMeansUp' /\ OnlyLateOnesOutlive'
    BY <1>1, <1>2, <1>6, <2>1
    DEF ClientOK, InTimeOK, ConnectedMeansUp, OnlyLateOnesOutlive
  <2> QED BY <2>3, <2>4, <2>5 DEF Control
<1> QED BY <1>5, <1>6 DEF RetryTimer

LEMMA MessageRefusedKeeps ==
  ASSUME Control, MessageRefused  PROVE Control'
<1>1. StateOK /\ OnePromise /\ ClientOK /\ InTimeOK /\ ConnectedMeansUp /\ OnlyLateOnesOutlive
  BY DEF Control
<1>2. received' \in 0..MaxUp
  BY <1>1, OneMoreReceived DEF MessageRefused
<1>3. ws' \in WsStates /\ (ws' = "CLOSED" <=> ws = "CLOSED")
  BY <1>1, CloseWsStays DEF MessageRefused
<1>4. UNCHANGED <<sock, gatewayVars>>
  BY DEF MessageRefused
<1> QED
  BY <1>1, <1>2, <1>3, <1>4
  DEF Control, gatewayVars, StateOK, OnePromise, Dialing, ClientOK, InTimeOK,
      ConnectedMeansUp, OnlyLateOnesOutlive

\* Every step of the gateway keeps its control in order.
LEMMA ControlStep == ASSUME Control, [Next]_vars  PROVE Control'
<1>1. StateOK
  BY DEF Control
<1>2. received \in 0..MaxUp
  BY <1>1 DEF StateOK
<1>3. CASE MessageForwarded
  BY <1>1, <1>3, OneMoreReceived, ControlUntouched DEF MessageForwarded, control
<1>4. CASE MessageWaits
  <2>1. UNCHANGED <<ws, sock, owner, tcpClient, isConnected, attempt, isConnecting,
                    retryCount, timers, inTime>> /\ received' \in 0..MaxUp
    BY <1>1, <1>4, OneMoreReceived DEF MessageWaits
  <2> QED
    BY <2>1 DEF Control, StateOK, OnePromise, Dialing, ClientOK, InTimeOK,
                ConnectedMeansUp, OnlyLateOnesOutlive
<1>5. CASE MessageDials
  BY <1>5, MessageDialsKeeps
<1>6. CASE MessageRefused
  BY <1>6, MessageRefusedKeeps
<1>7. ASSUME NEW c \in Conns, Dials(c)  PROVE Control'
  BY <1>7, ConnectedKeeps, ConnectedForNobodyKeeps, DialFailsKeeps DEF Dials
<1>8. ASSUME NEW c \in Conns, ServerCloses(c)  PROVE Control'
  <2>1. isConnecting' \in BOOLEAN /\ retryCount' \in 0..MaxRetries /\ timers' = timers
    BY <1>1, <1>8 DEF StateOK, ServerCloses
  <2>2. /\ sock[c] = "UP" /\ sock' = [sock EXCEPT ![c] = "CLOSED"] /\ ConnectionLost(c)
        /\ UNCHANGED <<received, owner, tcpClient, inTime>>
    BY <1>8 DEF ServerCloses
  <2> QED BY <2>1, <2>2, LostKeeps
<1>9. ASSUME NEW c \in Conns, ConnectionFails(c)  PROVE Control'
  <2>1. isConnecting' \in BOOLEAN
    BY <1>9 DEF ConnectionFails
  <2>2. retryCount' \in 0..MaxRetries
    BY <1>1, <1>9, GatewayAssumption DEF StateOK, ConnectionFails
  <2>3. timers' = timers \/ timers' = timers \cup {"nobody"}
    BY <1>9 DEF ConnectionFails
  <2>4. /\ sock[c] = "UP" /\ sock' = [sock EXCEPT ![c] = "CLOSED"] /\ ConnectionLost(c)
        /\ UNCHANGED <<received, owner, tcpClient, inTime>>
    BY <1>9 DEF ConnectionFails
  <2> QED BY <2>1, <2>2, <2>3, <2>4, LostKeeps
<1>10. ASSUME NEW c \in Conns, NEW n \in Nat,
              ServerSends(c) \/ Recv(c, n) \/ Data(c, n)
       PROVE  Control'
  BY <1>2, <1>10, ControlUntouched DEF ServerSends, Recv, Data, control
<1>11. ASSUME NEW who \in Owners, RetryTimer(who)  PROVE Control'
  BY <1>11, RetryTimerKeeps
<1>12. CASE WsClose
  BY <1>12, WsCloseKeeps
<1>13. CASE UNCHANGED vars
  BY <1>2, <1>13, ControlUntouched DEF vars, control
<1>14. \A n \in 1..BufferSize : n \in Nat
  BY FramingAssumption
<1>15. \A n \in 1..(MaxDown * Width) : n \in Nat
  OBVIOUS
<1> QED
  BY <1>3, <1>4, <1>5, <1>6, <1>7, <1>8, <1>9, <1>10, <1>11, <1>12, <1>13, <1>14, <1>15
  DEF Next


-----------------------------------------------------------------------------
(***************************************************************************)
(* The place of a byte in a stream of messages of n bytes each.            *)
(***************************************************************************)
LEMMA Multiples ==
  ASSUME NEW n \in Nat \ {0}, NEW a \in Nat, NEW b \in Nat, a < b
  PROVE  n * a + n <= n * b
<1>1. PICK c \in Nat : b = a + 1 + c
  <2>1. b - a - 1 \in Nat /\ b = a + 1 + (b - a - 1)
    OBVIOUS
  <2> QED BY <2>1
<1>2. n * b = n * a + n + n * c
  BY <1>1
<1>3. n * c \in Nat /\ n * a \in Nat
  OBVIOUS
<1> QED BY <1>2, <1>3

LEMMA Division ==
  ASSUME NEW n \in Nat \ {0}, NEW x \in Nat
  PROVE  x \div n \in Nat /\ x % n \in 0..(n - 1) /\ x = n * (x \div n) + (x % n)
OBVIOUS

\* A number is written in one way only as a multiple of n and a remainder.
LEMMA OneDivision ==
  ASSUME NEW n \in Nat \ {0}, NEW p \in Nat, NEW q \in Nat,
         NEW r \in 0..(n - 1), NEW s \in 0..(n - 1),
         n * p + r = n * q + s
  PROVE  p = q /\ r = s
<1>1. n * p \in Nat /\ n * q \in Nat
  OBVIOUS
<1>2. ~(p < q) /\ ~(q < p)
  BY <1>1, Multiples
<1>3. p = q
  BY <1>2
<1> QED BY <1>1, <1>3

\* The byte with offset r in a stream that starts p messages later.
LEMMA ShiftedPlace ==
  ASSUME NEW n \in Nat \ {0}, NEW p \in Nat, NEW x \in Nat
  PROVE  (n * p + x) \div n = p + (x \div n) /\ (n * p + x) % n = x % n
<1>. DEFINE q == x \div n
            r == x % n
            y == n * p + x
            a == y \div n
            b == y % n
            c == p + q
<1>1. q \in Nat /\ r \in 0..(n - 1) /\ x = n * q + r
  BY Division
<1>2. y \in Nat
  <2>1. n * p \in Nat
    OBVIOUS
  <2> QED BY <2>1
<1>3. a \in Nat /\ b \in 0..(n - 1) /\ y = n * a + b
  BY <1>2, Division
<1>. HIDE DEF q, r, a, b
<1>4. n * c + r = y
  <2>1. n * (p + q) = n * p + n * q /\ n * p \in Nat /\ n * q \in Nat
    BY <1>1
  <2> QED BY <1>1, <2>1
<1>5. c \in Nat
  BY <1>1
<1>. HIDE DEF y, c
<1>6. n * a + b = n * c + r
  BY <1>3, <1>4
<1>7. a = c /\ b = r
  BY <1>1, <1>3, <1>5, <1>6, OneDivision
<1> QED BY <1>7 DEF a, b, c, q, r, y

\* A later byte belongs to the same message or to a later one.
LEMMA LaterPlace ==
  ASSUME NEW n \in Nat \ {0}, NEW x \in Nat, NEW y \in Nat, x <= y
  PROVE  x \div n <= y \div n
<1>. DEFINE p == x \div n
            q == y \div n
            r == x % n
            s == y % n
<1>1. /\ p \in Nat /\ r \in 0..(n - 1) /\ x = n * p + r
      /\ q \in Nat /\ s \in 0..(n - 1) /\ y = n * q + s
  BY Division
<1>. HIDE DEF p, q, r, s
<1>2. n * p \in Nat /\ n * q \in Nat
  BY <1>1
<1>3. ~(q < p)
  BY <1>1, <1>2, Multiples
<1>4. p <= q
  BY <1>1, <1>3
<1> QED BY <1>4 DEF p, q

\* A byte of the first m messages.
LEMMA BoundedPlace ==
  ASSUME NEW n \in Nat \ {0}, NEW m \in Nat, NEW k \in 1..(m * n)
  PROVE  /\ k - 1 \in Nat /\ ((k - 1) \div n) + 1 \in 1..m
         /\ ((k - 1) % n) + 1 \in 1..n
         /\ k = n * ((k - 1) \div n) + ((k - 1) % n) + 1
<1>. DEFINE x == k - 1
            p == x \div n
            r == x % n
<1>1. m * n = n * m /\ n * m \in Nat
  OBVIOUS
<1>2. x \in Nat /\ x < n * m
  <2>1. k \in Nat /\ k >= 1 /\ k <= n * m
    BY <1>1
  <2> QED BY <1>1, <2>1
<1>3. p \in Nat /\ r \in 0..(n - 1) /\ x = n * p + r
  BY <1>2, Division
<1>. HIDE DEF p, r
<1>4. n * p \in Nat
  BY <1>3
<1>5. p < m
  <2>1. CASE m = p
    BY <1>2, <1>3, <1>4, <2>1
  <2>2. CASE m < p
    <3>1. n * m + n <= n * p
      BY <1>3, <2>2, Multiples
    <3> QED BY <1>1, <1>2, <1>3, <1>4, <3>1
  <2> QED BY <1>3, <2>1, <2>2
<1> QED BY <1>2, <1>3, <1>5 DEF x, p, r


-----------------------------------------------------------------------------
\* Messages in order that come after every one already written.
Later(messages) ==
  /\ messages \in Seq(Nat) /\ Increasing(messages)
  /\ \A i \in 1..Len(written), j \in 1..Len(messages) : written[i] < messages[j]

\* What is written is in order, and what waits comes after it.
OrderOK ==
  /\ written \in Seq(Nat) /\ Increasing(written)
  /\ Later(waiting)
  /\ waiting # <<>> => attempt
  /\ \A i \in 1..Len(written) : written[i] <= received
  /\ \A j \in 1..Len(waiting) : waiting[j] <= received

LEMMA NothingIsLater ==
  ASSUME OrderOK  PROVE Later(<<>>) /\ Later(<<>>)'
BY DEF Later, Increasing

\* The message that has just come is later than all before it.
LEMMA NewestIsLater ==
  ASSUME OrderOK, StateOK
  PROVE  Later(<<received + 1>>)
<1>. DEFINE s == <<received + 1>>
<1>1. received \in Nat
  BY GatewayAssumption DEF StateOK
<1>2. s \in Seq(Nat) /\ Len(s) = 1 /\ s[1] = received + 1
  BY <1>1
<1>3. \A i \in 1..Len(written) : written[i] \in Nat /\ written[i] < received + 1
  BY <1>1, ElementOfSeq DEF OrderOK
<1>. HIDE DEF s
<1>4. Increasing(s)
  BY <1>2 DEF Increasing
<1>5. Later(s)
  BY <1>2, <1>3, <1>4 DEF Later
<1> QED BY <1>5 DEF s

\* Later messages are written after the others.
LEMMA WrittenInOrder ==
  ASSUME OrderOK, NEW messages, Later(messages)
  PROVE  LET s == written \o messages IN
         /\ s \in Seq(Nat) /\ Increasing(s)
         /\ Len(s) = Len(written) + Len(messages)
         /\ \A i \in 1..Len(written) : i \in 1..Len(s) /\ s[i] = written[i]
         /\ \A j \in 1..Len(messages) :
              Len(written) + j \in 1..Len(s) /\ s[Len(written) + j] = messages[j]
         /\ \A i \in 1..Len(s) :
              \/ i \in 1..Len(written) /\ s[i] = written[i]
              \/ i - Len(written) \in 1..Len(messages) /\ s[i] = messages[i - Len(written)]
<1>. DEFINE s == written \o messages
            w == Len(written)
            m == Len(messages)
<1>1. written \in Seq(Nat) /\ messages \in Seq(Nat) /\ w \in Nat /\ m \in Nat
  BY LenProperties DEF OrderOK, Later
<1>2. /\ s \in Seq(Nat) /\ Len(s) = w + m
      /\ \A i \in 1..(w + m) : s[i] = IF i <= w THEN written[i] ELSE messages[i - w]
  BY <1>1, ConcatProperties
<1>3. \A i, j \in 1..w : i < j => written[i] < written[j]
  BY DEF OrderOK, Increasing
<1>4. \A i, j \in 1..m : i < j => messages[i] < messages[j]
  BY DEF Later, Increasing
<1>5. \A i \in 1..w, j \in 1..m : written[i] < messages[j]
  BY DEF Later
<1>. HIDE DEF s, w, m
<1>6. \A i \in 1..w : i \in 1..Len(s) /\ s[i] = written[i]
  BY <1>1, <1>2
<1>7. \A j \in 1..m : w + j \in 1..Len(s) /\ s[w + j] = messages[j]
  <2>1. ASSUME NEW j \in 1..m  PROVE w + j \in 1..Len(s) /\ s[w + j] = messages[j]
    <3>1. w + j \in 1..(w + m) /\ ~(w + j <= w) /\ (w + j) - w = j
      BY <1>1
    <3> QED BY <1>2, <3>1
  <2> QED BY <2>1
<1>8. \A i \in 1..Len(s) : \/ i \in 1..w /\ s[i] = written[i]
                           \/ i - w \in 1..m /\ s[i] = messages[i - w]
  BY <1>1, <1>2
<1>9. Increasing(s)
  <2>1. ASSUME NEW i \in 1..Len(s), NEW j \in 1..Len(s), i < j  PROVE s[i] < s[j]
    <3>1. CASE j \in 1..w
      <4>1. i \in 1..w
        BY <1>1, <2>1, <3>1
      <4> QED BY <1>3, <1>6, <2>1, <3>1, <4>1
    <3>2. CASE j - w \in 1..m /\ s[j] = messages[j - w]
      <4>1. CASE i \in 1..w
        BY <1>5, <1>6, <3>2, <4>1
      <4>2. CASE i - w \in 1..m /\ s[i] = messages[i - w]
        <5>1. i - w < j - w
          BY <1>1, <1>2, <2>1
        <5> QED BY <1>4, <3>2, <4>2, <5>1
      <4> QED BY <1>8, <4>1, <4>2
    <3> QED BY <1>8, <3>1, <3>2
  <2> QED BY <2>1 DEF Increasing
<1> QED BY <1>2, <1>6, <1>7, <1>8, <1>9 DEF s, w, m


-----------------------------------------------------------------------------
\* Later messages are written, and none is left to wait.
LEMMA OrderForward ==
  ASSUME OrderOK, StateOK, NEW messages, Later(messages),
         \A j \in 1..Len(messages) : messages[j] <= received',
         received' = received \/ received' = received + 1,
         written' = written \o messages, waiting' = <<>>
  PROVE  OrderOK'
<1>1. /\ written' \in Seq(Nat) /\ Increasing(written')
      /\ \A i \in 1..Len(written') :
           \/ i \in 1..Len(written) /\ written'[i] = written[i]
           \/ /\ i - Len(written) \in 1..Len(messages)
              /\ written'[i] = messages[i - Len(written)]
  BY WrittenInOrder
<1>2. received \in Nat
  BY GatewayAssumption DEF StateOK
<1>3. \A i \in 1..Len(written) : written[i] \in Nat /\ written[i] <= received
  BY ElementOfSeq DEF OrderOK
<1>4. \A i \in 1..Len(written') : written'[i] <= received'
  <2>1. ASSUME NEW i \in 1..Len(written')  PROVE written'[i] <= received'
    <3>1. CASE i \in 1..Len(written) /\ written'[i] = written[i]
      BY <1>2, <1>3, <3>1
    <3>2. CASE i - Len(written) \in 1..Len(messages) /\ written'[i] = messages[i - Len(written)]
      BY <3>2
    <3> QED BY <1>1, <3>1, <3>2
  <2> QED BY <2>1
<1>5. Later(waiting)'
  BY NothingIsLater DEF Later, Increasing
<1>6. Len(waiting') = 0
  OBVIOUS
<1> QED BY <1>1, <1>4, <1>5, <1>6 DEF OrderOK

\* Nothing is written, and nobody waits.
LEMMA OrderNobodyWaits ==
  ASSUME OrderOK, StateOK, waiting' = <<>>, written' = written,
         received' = received \/ received' = received + 1
  PROVE  OrderOK'
<1>1. received \in Nat
  BY GatewayAssumption DEF StateOK
<1>2. \A i \in 1..Len(written) : written[i] \in Nat /\ written[i] <= received
  BY ElementOfSeq DEF OrderOK
<1>3. \A i \in 1..Len(written') : written'[i] <= received'
  BY <1>1, <1>2
<1>4. Later(waiting)'
  BY DEF Later, Increasing
<1>5. Len(waiting') = 0
  OBVIOUS
<1>6. Increasing(written)'
  BY DEF OrderOK, Increasing
<1> QED BY <1>3, <1>4, <1>5, <1>6 DEF OrderOK

\* The handler of one message more waits for the promise.
LEMMA OrderWaits ==
  ASSUME OrderOK, StateOK, attempt', written' = written,
         received' = received + 1, waiting' = Append(waiting, received')
  PROVE  OrderOK'
<1>. DEFINE w == Len(waiting)
<1>1. received \in Nat /\ received' \in Nat
  BY GatewayAssumption DEF StateOK
<1>2. waiting \in Seq(Nat) /\ w \in Nat
  BY LenProperties DEF OrderOK, Later
<1>3. /\ waiting' \in Seq(Nat) /\ Len(waiting') = w + 1
      /\ \A i \in 1..w : waiting'[i] = waiting[i]
      /\ waiting'[w + 1] = received'
  BY <1>1, <1>2, AppendProperties
<1>4. \A i \in 1..w : waiting[i] \in Nat /\ waiting[i] <= received
  BY <1>2, ElementOfSeq DEF OrderOK
<1>5. \A i \in 1..Len(written) : written[i] \in Nat /\ written[i] <= received
  BY ElementOfSeq DEF OrderOK
<1>6. \A i, j \in 1..w : i < j => waiting[i] < waiting[j]
  BY DEF OrderOK, Later, Increasing
<1>7. \A i \in 1..Len(written), j \in 1..w : written[i] < waiting[j]
  BY DEF OrderOK, Later
<1>. HIDE DEF w
<1>8. \A j \in 1..Len(waiting') : j \in 1..w \/ j = w + 1
  BY <1>2, <1>3
<1>9. Increasing(waiting')
  <2>1. ASSUME NEW i \in 1..Len(waiting'), NEW j \in 1..Len(waiting'), i < j
        PROVE  waiting'[i] < waiting'[j]
    <3>1. i \in 1..w
      BY <1>2, <1>8, <2>1
    <3>2. CASE j \in 1..w
      BY <1>3, <1>6, <2>1, <3>1, <3>2
    <3>3. CASE j = w + 1
      BY <1>1, <1>3, <1>4, <3>1, <3>3
    <3> QED BY <1>8, <3>2, <3>3
  <2> QED BY <2>1 DEF Increasing
<1>10. \A i \in 1..Len(written), j \in 1..Len(waiting') : written[i] < waiting'[j]
  BY <1>1, <1>3, <1>5, <1>7, <1>8
<1>11. \A j \in 1..Len(waiting') : waiting'[j] <= received'
  BY <1>1, <1>3, <1>4, <1>8
<1>12. \A i \in 1..Len(written) : written[i] <= received'
  BY <1>1, <1>5
<1>13. Increasing(written)'
  BY DEF OrderOK, Increasing
<1> QED BY <1>3, <1>9, <1>10, <1>11, <1>12, <1>13 DEF OrderOK, Later


LEMMA OrderInit == ASSUME Init  PROVE OrderOK
BY DEF Init, OrderOK, Later, Increasing

LEMMA OrderUntouched ==
  ASSUME OrderOK, UNCHANGED <<written, waiting, attempt, received>>  PROVE OrderOK'
BY DEF OrderOK, Later, Increasing

LEMMA OrderStep == ASSUME Control, OrderOK, [Next]_vars  PROVE OrderOK'
<1>1. StateOK /\ OnePromise /\ ConnectedMeansUp
  BY DEF Control
<1>2. received \in Nat
  BY <1>1, GatewayAssumption DEF StateOK
<1>3. ~attempt => waiting = <<>>
  BY DEF OrderOK
<1>4. isConnected => ~attempt
  BY <1>1 DEF OnePromise
<1>5. CASE MessageForwarded
  <2>1. /\ received' = received + 1 /\ written' = written \o <<received + 1>>
        /\ waiting' = waiting /\ isConnected
    BY <1>5 DEF MessageForwarded, Forward, gatewayVars
  <2>2. Later(<<received + 1>>)
    BY <1>1, NewestIsLater
  <2>3. \A j \in 1..Len(<<received + 1>>) : <<received + 1>>[j] <= received'
    BY <1>2, <2>1
  <2>4. waiting' = <<>>
    BY <1>3, <1>4, <2>1
  <2> QED BY <1>1, <2>1, <2>2, <2>3, <2>4, OrderForward
<1>6. CASE MessageWaits
  BY <1>1, <1>6, OrderWaits DEF MessageWaits, wires
<1>7. CASE MessageDials
  <2>1. waiting' = Append(waiting, received')
    BY <1>3, <1>7 DEF MessageDials
  <2> QED BY <1>1, <1>7, <2>1, OrderWaits DEF MessageDials, wires
<1>8. CASE MessageRefused
  BY <1>1, <1>3, <1>8, OrderNobodyWaits DEF MessageRefused, gatewayVars, wires
<1>9. ASSUME NEW c \in Conns, Connected(c)  PROVE OrderOK'
  <2>1. /\ received' = received /\ written' = written \o waiting /\ waiting' = <<>>
    BY <1>9 DEF Connected, Forward
  <2>2. Later(waiting) /\ \A j \in 1..Len(waiting) : waiting[j] <= received'
    BY <2>1 DEF OrderOK
  <2> QED BY <1>1, <2>1, <2>2, OrderForward
<1>10. ASSUME UNCHANGED <<received, written>>, Reject  PROVE OrderOK'
  BY <1>1, <1>10, OrderNobodyWaits DEF Reject
<1>11. ASSUME NEW c \in Conns, ConnectedForNobody(c) \/ DialFails(c) \/ DialTimesOut(c)
       PROVE  OrderOK'
  <2>1. UNCHANGED <<received, written>>
    BY <1>11 DEF ConnectedForNobody, DialFails, DialTimesOut, wires
  <2>2. UNCHANGED <<attempt, waiting>> \/ Reject
    BY <1>11 DEF ConnectedForNobody, DialFails, DialTimesOut
  <2> QED BY <1>10, <2>1, <2>2, OrderUntouched
<1>12. ASSUME NEW who \in Owners, RetryTimer(who)  PROVE OrderOK'
  <2>1. UNCHANGED <<received, written>>
    BY <1>12 DEF RetryTimer, wires
  <2>2. UNCHANGED <<attempt, waiting>> \/ Reject
    BY <1>12 DEF RetryTimer
  <2> QED BY <1>10, <2>1, <2>2, OrderUntouched
<1>13. ASSUME NEW c \in Conns, ServerCloses(c) \/ ConnectionFails(c)  PROVE OrderOK'
  <2>1. UNCHANGED <<received, written, waiting>> /\ sock[c] = "UP" /\ ConnectionLost(c)
    BY <1>13 DEF ServerCloses, ConnectionFails
  <2>2. CASE owner[c] = "promise"
    <3>1. c = tcpClient /\ isConnected
      BY <1>1, <2>1, <2>2 DEF ConnectedMeansUp, Conns, Nothing
    <3>2. waiting' = <<>>
      BY <1>3, <1>4, <2>1, <3>1
    <3> QED BY <1>1, <2>1, <3>2, OrderNobodyWaits
  <2>3. CASE owner[c] # "promise"
    BY <2>1, <2>3, OrderUntouched DEF ConnectionLost
  <2> QED BY <2>2, <2>3
<1>14. ASSUME NEW c \in Conns, NEW n \in Nat,
              ServerSends(c) \/ Recv(c, n) \/ Data(c, n)
       PROVE  OrderOK'
  BY <1>14, OrderUntouched DEF ServerSends, Recv, Data, gatewayVars
<1>15. CASE WsClose
  BY <1>15, OrderUntouched DEF WsClose
<1>16. CASE UNCHANGED vars
  BY <1>16, OrderUntouched DEF vars, gatewayVars
<1>17. \A n \in 1..BufferSize : n \in Nat
  BY FramingAssumption
<1>18. \A n \in 1..(MaxDown * Width) : n \in Nat
  OBVIOUS
<1> QED
  BY <1>5, <1>6, <1>7, <1>8, <1>9, <1>11, <1>12, <1>13, <1>14, <1>15, <1>16, <1>17, <1>18
  DEF Next, Dials


-----------------------------------------------------------------------------
\* The bytes of a stream: message and place in the message.
StreamBytes == Nat \X (1..Width)

(***************************************************************************)
(* Messages follow one another in a stream, and bytes of one message are   *)
(* as far apart as their places in it.                                     *)
(***************************************************************************)
InOrder(q) ==
  \A k \in 1..Len(q) : \A j \in 1..(k - 1) :
    /\ q[j][1] <= q[k][1]
    /\ q[j][1] = q[k][1] => q[k][2] - q[j][2] = k - j

LEMMA WidthIsPositive == Width \in Nat \ {0} /\ HeaderSize \in Nat /\ HeaderSize <= Width
BY FramingAssumption DEF Width

\* A function on the first numbers is a sequence.
LEMMA TableIsASeq ==
  ASSUME NEW S, NEW n \in Nat, NEW f \in [1..n -> S]
  PROVE  f \in Seq(S) /\ Len(f) = n
<1>1. f \in Seq(S)
  BY SeqDef
<1>2. Len(f) \in Nat /\ DOMAIN f = 1..Len(f) /\ DOMAIN f = 1..n
  BY <1>1, LenProperties
<1> QED BY <1>1, <1>2

\* The bytes of messages in order are in order.
LEMMA BytesInOrder ==
  ASSUME NEW messages \in Seq(Nat), Increasing(messages)
  PROVE  /\ BytesOf(messages) \in Seq(StreamBytes) /\ InOrder(BytesOf(messages))
         /\ \A k \in 1..Len(BytesOf(messages)) : \E i \in 1..Len(messages) :
              BytesOf(messages)[k][1] = messages[i]
<1>. DEFINE m == Len(messages)
            n == Width
            l == m * n
            q == BytesOf(messages)
            p == [k \in 1..l |-> ((k - 1) \div n) + 1]
            r == [k \in 1..l |-> ((k - 1) % n) + 1]
<1>1. m \in Nat /\ n \in Nat \ {0} /\ l \in Nat
  <2>1. m \in Nat /\ n \in Nat \ {0}
    BY LenProperties, WidthIsPositive
  <2> QED BY <2>1
<1>2. /\ q = [k \in 1..l |-> <<messages[p[k]], r[k]>>]
  BY DEF BytesOf
<1>3. \A k \in 1..l : p[k] \in 1..m /\ r[k] \in 1..n
  BY <1>1, BoundedPlace
<1>4. \A k \in 1..l : k = n * (p[k] - 1) + r[k]
  <2>1. ASSUME NEW k \in 1..l  PROVE k = n * (p[k] - 1) + r[k]
    <3>. DEFINE x == (k - 1) \div n
                y == (k - 1) % n
    <3>1. /\ k - 1 \in Nat /\ x + 1 \in 1..m /\ y + 1 \in 1..n
          /\ k = n * x + y + 1
      BY <1>1, BoundedPlace
    <3>2. x \in Nat /\ y \in Nat
      BY <1>1, <3>1, Division
    <3>. HIDE DEF x, y, n
    <3>3. (x + 1) - 1 = x /\ n * x \in Nat
      BY <1>1, <3>2
    <3>4. k = n * ((x + 1) - 1) + (y + 1)
      BY <3>1, <3>2, <3>3
    <3> QED BY <3>4 DEF x, y
  <2> QED BY <2>1
<1>5. \A k \in 1..l : \A j \in 1..(k - 1) : p[j] <= p[k]
  <2>. HIDE DEF l
  <2>1. ASSUME NEW k \in 1..l, NEW j \in 1..(k - 1)  PROVE p[j] <= p[k]
    <3>1. j - 1 \in Nat /\ k - 1 \in Nat /\ j - 1 <= k - 1
      BY <1>1
    <3>2. (j - 1) \div n <= (k - 1) \div n
      BY <1>1, <3>1, LaterPlace
    <3>3. (j - 1) \div n \in Nat /\ (k - 1) \div n \in Nat
      BY <1>1, <3>1, Division
    <3>4. p[j] = ((j - 1) \div n) + 1 /\ p[k] = ((k - 1) \div n) + 1
      BY <1>1
    <3>. HIDE DEF p
    <3> QED BY <3>2, <3>3, <3>4
  <2> QED BY <2>1
<1>6. \A i, j \in 1..m : i < j => messages[i] < messages[j]
  BY DEF Increasing
<1>7. \A i \in 1..m : messages[i] \in Nat
  BY ElementOfSeq
<1>. HIDE DEF m, n, l, q, p, r
<1>8. /\ q \in Seq(Nat \X (1..n)) /\ Len(q) = l
      /\ \A k \in 1..l : q[k][1] = messages[p[k]] /\ q[k][2] = r[k]
  <2>1. \A k \in 1..l : <<messages[p[k]], r[k]>> \in Nat \X (1..n)
    BY <1>3, <1>7
  <2>2. q \in [1..l -> Nat \X (1..n)]
    BY <1>2, <2>1
  <2>3. q \in Seq(Nat \X (1..n)) /\ Len(q) = l
    BY <1>1, <2>2, TableIsASeq
  <2> QED BY <1>2, <2>1, <2>3
<1>9. ASSUME NEW k \in 1..l, NEW j \in 1..(k - 1)
      PROVE  /\ q[j][1] <= q[k][1]
             /\ q[j][1] = q[k][1] => q[k][2] - q[j][2] = k - j
  <2>1. j \in 1..l
    BY <1>1
  <2>2. /\ p[j] \in 1..m /\ p[k] \in 1..m /\ p[j] <= p[k]
        /\ messages[p[j]] \in Nat /\ messages[p[k]] \in Nat
    BY <1>3, <1>5, <1>7, <2>1
  <2>5. /\ q[j][1] = messages[p[j]] /\ q[k][1] = messages[p[k]]
        /\ q[j][2] = r[j] /\ q[k][2] = r[k]
    BY <1>8, <2>1
  <2>3. CASE p[j] = p[k]
    <3>. DEFINE z == n * (p[k] - 1)
    <3>1. k = z + r[k] /\ j = z + r[j]
      BY <1>4, <2>1, <2>3
    <3>2. z \in Int /\ r[k] \in Int /\ r[j] \in Int
      BY <1>1, <1>3, <2>1, <2>2
    <3>. HIDE DEF z
    <3>3. r[k] - r[j] = k - j
      BY <3>1, <3>2
    <3>4. q[j][1] <= q[k][1]
      BY <2>2, <2>3, <2>5
    <3> QED BY <2>5, <3>3, <3>4
  <2>4. CASE p[j] < p[k]
    <3>1. messages[p[j]] < messages[p[k]]
      BY <1>6, <2>2, <2>4
    <3> QED BY <2>2, <2>5, <3>1
  <2> QED BY <1>1, <2>2, <2>3, <2>4
<1>10. InOrder(q)
  BY <1>8, <1>9 DEF InOrder
<1>11. \A k \in 1..Len(q) : \E i \in 1..m : q[k][1] = messages[i]
  BY <1>3, <1>8
<1> QED BY <1>8, <1>10, <1>11 DEF q, m, n, l, StreamBytes

\* A stream goes on with later messages.
LEMMA StreamGoesOn ==
  ASSUME NEW q \in Seq(StreamBytes), NEW b \in Seq(StreamBytes), InOrder(q), InOrder(b),
         \A j \in 1..Len(q), k \in 1..Len(b) : q[j][1] < b[k][1]
  PROVE  /\ q \o b \in Seq(StreamBytes) /\ InOrder(q \o b)
         /\ \A k \in 1..Len(q \o b) :
              \/ k \in 1..Len(q) /\ (q \o b)[k] = q[k]
              \/ k - Len(q) \in 1..Len(b) /\ (q \o b)[k] = b[k - Len(q)]
<1>. DEFINE s == q \o b
            x == Len(q)
            y == Len(b)
<1>1. /\ s \in Seq(StreamBytes) /\ Len(s) = x + y /\ x \in Nat /\ y \in Nat
      /\ \A i \in 1..(x + y) : s[i] = IF i <= x THEN q[i] ELSE b[i - x]
  BY ConcatProperties, LenProperties
<1>2. /\ \A i \in 1..x : q[i][1] \in Nat /\ q[i][2] \in Nat
      /\ \A i \in 1..y : b[i][1] \in Nat /\ b[i][2] \in Nat
  <2>1. \A z \in StreamBytes : z[1] \in Nat /\ z[2] \in Nat
    BY WidthIsPositive DEF StreamBytes
  <2> QED BY <2>1, ElementOfSeq
<1>3. /\ \A k \in 1..x : \A j \in 1..(k - 1) :
           q[j][1] <= q[k][1] /\ (q[j][1] = q[k][1] => q[k][2] - q[j][2] = k - j)
      /\ \A k \in 1..y : \A j \in 1..(k - 1) :
           b[j][1] <= b[k][1] /\ (b[j][1] = b[k][1] => b[k][2] - b[j][2] = k - j)
  BY DEF InOrder
<1>4. \A j \in 1..x, k \in 1..y : q[j][1] < b[k][1]
  OBVIOUS
<1>. HIDE DEF s, x, y
<1>5. \A k \in 1..Len(s) : \/ k \in 1..x /\ s[k] = q[k]
                           \/ k - x \in 1..y /\ s[k] = b[k - x]
  BY <1>1
<1>6. ASSUME NEW k \in 1..Len(s), NEW j \in 1..(k - 1)
      PROVE  /\ s[j][1] <= s[k][1]
             /\ s[j][1] = s[k][1] => s[k][2] - s[j][2] = k - j
  <2>1. j \in 1..Len(s)
    BY <1>1
  <2>2. CASE k \in 1..x /\ s[k] = q[k]
    <3>1. s[j] = q[j]
      BY <1>1, <2>1, <2>2
    <3> QED BY <1>3, <2>2, <3>1
  <2>3. CASE k - x \in 1..y /\ s[k] = b[k - x]
    <3>1. CASE j \in 1..x /\ s[j] = q[j]
      BY <1>2, <1>4, <2>3, <3>1
    <3>2. CASE j - x \in 1..y /\ s[j] = b[j - x]
      <4>. DEFINE g == j - x
                  h == k - x
      <4>1. g \in 1..(h - 1) /\ h - g = k - j
        BY <1>1, <2>1, <3>2
      <4>2. h \in 1..y /\ s[k] = b[h] /\ s[j] = b[g]
        BY <2>3, <3>2
      <4>. HIDE DEF g, h
      <4> QED BY <1>3, <4>1, <4>2
    <3> QED BY <1>5, <2>1, <3>1, <3>2
  <2> QED BY <1>5, <2>2, <2>3
<1>7. InOrder(s)
  BY <1>6 DEF InOrder
<1> QED BY <1>1, <1>5, <1>7 DEF s, x, y

\* What remains of a sequence when n bytes have been read.
LEMMA LastBytes ==
  ASSUME NEW S, NEW q \in Seq(S), NEW n \in Nat, n <= Len(q)
  PROVE  /\ Remaining(q, n) \in Seq(S) /\ Len(Remaining(q, n)) = Len(q) - n
         /\ \A k \in 1..(Len(q) - n) :
              n + k \in 1..Len(q) /\ Remaining(q, n)[k] = q[n + k]
<1>. DEFINE s == Remaining(q, n)
            x == Len(q)
            a == n + 1
<1>1. x \in Nat /\ n <= x
  BY LenProperties
<1>2. /\ a \in Int /\ x \in Int
      /\ \A i \in a..x : q[i] \in S
  BY <1>1, ElementOfSeq
<1>. HIDE DEF x, a
<1>3. /\ SubSeq(q, a, x) \in Seq(S)
      /\ Len(SubSeq(q, a, x)) = IF a <= x THEN x - a + 1 ELSE 0
      /\ \A k \in 1..(x - a + 1) : SubSeq(q, a, x)[k] = q[a + k - 1]
  BY <1>2, SubSeqProperties
<1>. USE DEF a
<1>4. /\ s \in Seq(S) /\ Len(s) = IF n + 1 <= x THEN x - (n + 1) + 1 ELSE 0
      /\ \A k \in 1..(x - (n + 1) + 1) : s[k] = q[(n + 1) + k - 1]
  BY <1>3 DEF Remaining, x
<1>. HIDE DEF s
<1>5. \A k \in 1..(x - n) : n + k \in 1..x /\ (n + 1) + k - 1 = n + k
                            /\ k \in 1..(x - (n + 1) + 1)
  BY <1>1
<1>6. Len(s) = x - n
  BY <1>1, <1>4
<1> QED BY <1>4, <1>5, <1>6 DEF s, x

\* What remains of a stream is in order.
LEMMA StreamRemains ==
  ASSUME NEW q \in Seq(StreamBytes), InOrder(q), NEW n \in Nat, n <= Len(q)
  PROVE  /\ Remaining(q, n) \in Seq(StreamBytes) /\ InOrder(Remaining(q, n))
         /\ Len(Remaining(q, n)) = Len(q) - n
         /\ \A k \in 1..(Len(q) - n) :
              n + k \in 1..Len(q) /\ Remaining(q, n)[k] = q[n + k]
<1>. DEFINE s == Remaining(q, n)
            x == Len(q)
<1>1. x \in Nat
  BY LenProperties
<1>2. /\ s \in Seq(StreamBytes) /\ Len(s) = x - n
      /\ \A k \in 1..(x - n) : n + k \in 1..x /\ s[k] = q[n + k]
  BY LastBytes
<1>3. \A k \in 1..x : \A j \in 1..(k - 1) :
        q[j][1] <= q[k][1] /\ (q[j][1] = q[k][1] => q[k][2] - q[j][2] = k - j)
  BY DEF InOrder
<1>. HIDE DEF s, x
<1>4. ASSUME NEW k \in 1..(x - n), NEW j \in 1..(k - 1)
      PROVE  /\ s[j][1] <= s[k][1]
             /\ s[j][1] = s[k][1] => s[k][2] - s[j][2] = k - j
  <2>1. /\ n + k \in 1..x /\ n + j \in 1..((n + k) - 1) /\ (n + k) - (n + j) = k - j
        /\ j \in 1..(x - n)
    BY <1>1
  <2>2. s[k] = q[n + k] /\ s[j] = q[n + j]
    BY <1>2, <2>1
  <2> QED BY <1>3, <2>1, <2>2
<1>5. InOrder(s)
  BY <1>2, <1>4 DEF InOrder
<1> QED BY <1>2, <1>5 DEF s, x


-----------------------------------------------------------------------------
\* Message m has been written to some connection.
Written(m) == \E i \in 1..Len(written) : m = written[i]

\* Every message on its way to the server has been written, all in order.
UpOK(c) ==
  /\ up[c] \in Seq(StreamBytes) /\ InOrder(up[c])
  /\ \A k \in 1..Len(up[c]) : Written(up[c][k][1])

\* Messages the server has handled: in order, and before what is on its way.
HandledOK(c) ==
  /\ handled[c] \in Seq(Int)
  /\ \A i \in 1..Len(handled[c]) : handled[c][i] # Garbage =>
       /\ Written(handled[c][i])
       /\ \A j \in 1..(i - 1) : handled[c][j] < handled[c][i]
       /\ \A k \in 1..Len(up[c]) : handled[c][i] < up[c][k][1]

ServerSide ==
  /\ up \in [Conns -> Seq(StreamBytes)] /\ handled \in [Conns -> Seq(Int)]
  /\ \A c \in Conns : UpOK(c) /\ HandledOK(c)

LEMMA ServerSideInit == ASSUME Init  PROVE ServerSide
<1>1. <<>> \in Seq(StreamBytes) /\ <<>> \in Seq(Int) /\ Len(<<>>) = 0
  BY EmptySeq
<1>2. \A c \in Conns : up[c] = <<>> /\ handled[c] = <<>>
  BY DEF Init
<1>3. up \in [Conns -> Seq(StreamBytes)] /\ handled \in [Conns -> Seq(Int)]
  BY <1>1 DEF Init
<1> QED BY <1>1, <1>2, <1>3 DEF ServerSide, UpOK, HandledOK, InOrder

LEMMA ServerSideUntouched ==
  ASSUME ServerSide, UNCHANGED <<up, handled, written>>  PROVE ServerSide'
BY DEF ServerSide, UpOK, HandledOK, Written

\* Messages written to a connection go on the stream after all the others.
LEMMA ForwardKeeps ==
  ASSUME ServerSide, OrderOK, NEW c \in Conns, NEW messages, Later(messages),
         Forward(c, messages), handled' = handled
  PROVE  ServerSide'
<1>. DEFINE b == BytesOf(messages)
            w == written \o messages
<1>1. /\ messages \in Seq(Nat) /\ Increasing(messages)
      /\ \A i \in 1..Len(written), j \in 1..Len(messages) : written[i] < messages[j]
  BY DEF Later
<1>2. /\ b \in Seq(StreamBytes) /\ InOrder(b)
      /\ \A k \in 1..Len(b) : \E i \in 1..Len(messages) : b[k][1] = messages[i]
  BY <1>1, BytesInOrder
<1>3. /\ \A i \in 1..Len(written) : i \in 1..Len(w) /\ w[i] = written[i]
      /\ \A j \in 1..Len(messages) :
           Len(written) + j \in 1..Len(w) /\ w[Len(written) + j] = messages[j]
  BY WrittenInOrder
<1>4. /\ written' = w /\ up' = [up EXCEPT ![c] = up[c] \o b] /\ handled' = handled
  BY DEF Forward
<1>5. /\ up \in [Conns -> Seq(StreamBytes)] /\ handled \in [Conns -> Seq(Int)]
      /\ \A d \in Conns : UpOK(d) /\ HandledOK(d)
  BY DEF ServerSide
<1>. HIDE DEF b, w
<1>6. \A m : Written(m) => \E i \in 1..Len(written') : m = written'[i]
  BY <1>3, <1>4 DEF Written
<1>7. \A m : Written(m) => \A k \in 1..Len(b) : m < b[k][1]
  BY <1>1, <1>2 DEF Written
<1>8. \A k \in 1..Len(b) : \E i \in 1..Len(written') : b[k][1] = written'[i]
  BY <1>2, <1>3, <1>4 DEF Written
<1>9. /\ up[c] \o b \in Seq(StreamBytes) /\ InOrder(up[c] \o b)
      /\ \A k \in 1..Len(up[c] \o b) :
           \/ k \in 1..Len(up[c]) /\ (up[c] \o b)[k] = up[c][k]
           \/ k - Len(up[c]) \in 1..Len(b) /\ (up[c] \o b)[k] = b[k - Len(up[c])]
  <2>1. /\ up[c] \in Seq(StreamBytes) /\ InOrder(up[c])
        /\ \A j \in 1..Len(up[c]), k \in 1..Len(b) : up[c][j][1] < b[k][1]
    BY <1>5, <1>7 DEF UpOK
  <2> QED BY <1>2, <2>1, StreamGoesOn
<1>10. up'[c] = up[c] \o b /\ \A d \in Conns : d # c => up'[d] = up[d]
  BY <1>4, <1>5
<1>11. up' \in [Conns -> Seq(StreamBytes)]
  BY <1>4, <1>5, <1>9
<1>12. UpOK(c)'
  <2>1. \A k \in 1..Len(up[c]) : Written(up[c][k][1])
    BY <1>5 DEF UpOK
  <2>2. \A k \in 1..Len(up'[c]) : \E i \in 1..Len(written') : up'[c][k][1] = written'[i]
    <3>. DEFINE s == up[c] \o b
    <3>1. \A k \in 1..Len(up[c]) : \E i \in 1..Len(written') : up[c][k][1] = written'[i]
      BY <1>6, <2>1
    <3>2. \A k \in 1..Len(s) : \/ k \in 1..Len(up[c]) /\ s[k] = up[c][k]
                               \/ k - Len(up[c]) \in 1..Len(b) /\ s[k] = b[k - Len(up[c])]
      BY <1>9
    <3>. HIDE DEF s
    <3>3. \A k \in 1..Len(s) : \E i \in 1..Len(written') : s[k][1] = written'[i]
      <4>1. ASSUME NEW k \in 1..Len(s)  PROVE \E i \in 1..Len(written') : s[k][1] = written'[i]
        <5>1. CASE k \in 1..Len(up[c]) /\ s[k] = up[c][k]
          BY <3>1, <5>1
        <5>2. CASE k - Len(up[c]) \in 1..Len(b) /\ s[k] = b[k - Len(up[c])]
          <6>1. PICK j \in 1..Len(b) : s[k] = b[j]
            BY <5>2
          <6> QED BY <1>8, <6>1
        <5> QED BY <3>2, <5>1, <5>2
      <4> QED BY <4>1
    <3> QED BY <1>10, <3>3 DEF s
  <2> QED BY <1>9, <1>10, <2>2 DEF UpOK, Written
<1>13. HandledOK(c)'
  <2>1. ASSUME NEW i \in 1..Len(handled[c]), handled[c][i] # Garbage
        PROVE  /\ \E j \in 1..Len(written') : handled[c][i] = written'[j]
               /\ \A j \in 1..(i - 1) : handled[c][j] < handled[c][i]
               /\ \A k \in 1..Len(up'[c]) : handled[c][i] < up'[c][k][1]
    <3>1. /\ Written(handled[c][i])
          /\ \A j \in 1..(i - 1) : handled[c][j] < handled[c][i]
          /\ \A k \in 1..Len(up[c]) : handled[c][i] < up[c][k][1]
      BY <1>5, <2>1 DEF HandledOK
    <3>2. \A k \in 1..Len(b) : handled[c][i] < b[k][1]
      BY <1>7, <3>1
    <3>3. \E j \in 1..Len(written') : handled[c][i] = written'[j]
      BY <1>6, <3>1
    <3> QED BY <1>9, <1>10, <3>1, <3>2, <3>3
  <2> QED BY <1>4, <1>5, <2>1 DEF HandledOK, Written
<1>14. ASSUME NEW d \in Conns, d # c  PROVE UpOK(d)' /\ HandledOK(d)'
  <2>1. UpOK(d) /\ HandledOK(d) /\ up'[d] = up[d] /\ handled'[d] = handled[d]
    BY <1>4, <1>5, <1>10, <1>14
  <2>2. \A k \in 1..Len(up[d]) : \E i \in 1..Len(written') : up[d][k][1] = written'[i]
    BY <1>6, <2>1 DEF UpOK
  <2>3. \A k \in 1..Len(handled[d]) : handled[d][k] # Garbage =>
          \E i \in 1..Len(written') : handled[d][k] = written'[i]
    BY <1>6, <2>1 DEF HandledOK
  <2>4. UpOK(d)'
    BY <2>1, <2>2 DEF UpOK, Written
  <2>5. HandledOK(d)'
    BY <2>1, <2>3 DEF HandledOK, Written
  <2> QED BY <2>4, <2>5
<1> QED BY <1>4, <1>5, <1>11, <1>12, <1>13, <1>14 DEF ServerSide


-----------------------------------------------------------------------------
\* The first n bytes of a stream.
LEMMA FirstBytes ==
  ASSUME NEW S, NEW q \in Seq(S), NEW n \in 0..Len(q)
  PROVE  /\ Taken(q, n) \in Seq(S) /\ Len(Taken(q, n)) = n
         /\ \A k \in 1..n : Taken(q, n)[k] = q[k]
<1>1. n \in Int /\ 1 \in Int /\ \A i \in 1..n : q[i] \in S
  BY LenProperties, ElementOfSeq
<1>2. /\ SubSeq(q, 1, n) \in Seq(S)
      /\ Len(SubSeq(q, 1, n)) = IF 1 <= n THEN n - 1 + 1 ELSE 0
      /\ \A k \in 1..(n - 1 + 1) : SubSeq(q, 1, n)[k] = q[1 + k - 1]
  BY <1>1, SubSeqProperties
<1>3. \A k \in 1..n : k \in 1..(n - 1 + 1) /\ 1 + k - 1 = k
  BY <1>1
<1> QED BY <1>1, <1>2, <1>3 DEF Taken

\* A message is taken out of a buffer that begins with all of it.
LEMMA ParsedMessage ==
  ASSUME NEW q \in Seq(StreamBytes), NEW n \in 1..Len(q),
         NEW m \in ParseMessage(Taken(q, n)), m # NoMessage
  PROVE  m = Garbage \/ (m = q[1][1] /\ q[1][2] = 1 /\ Width <= n /\ m \in Nat)
<1>. DEFINE t == Taken(q, n)
<1>1. t \in Seq(StreamBytes) /\ Len(t) = n /\ n \in Nat /\ n >= 1 /\ t[1] = q[1]
  BY FirstBytes, LenProperties
<1>2. Head(t) = q[1]
  BY <1>1, HeadTailProperties, EmptySeq
<1>3. q[1] \in StreamBytes
  <2>1. 1 \in 1..Len(q)
    BY LenProperties
  <2> QED BY <2>1, ElementOfSeq
<1>. HIDE DEF t
<1>4. m \in ParseMessage(t)
  BY DEF t
<1>5. m = Garbage \/ (m = Head(t)[1] /\ Head(t)[2] = 1 /\ ~(Len(t) < Width))
  BY <1>4 DEF ParseMessage, StartsAtHeader
<1>6. q[1][1] \in Nat
  BY <1>3, WidthIsPositive DEF StreamBytes
<1> QED BY <1>1, <1>2, <1>5, <1>6, WidthIsPositive

(***************************************************************************)
(* One recv(): what remains comes after the message that was taken out, of *)
(* which no byte is left.                                                  *)
(***************************************************************************)
LEMMA RecvKeeps ==
  ASSUME ServerSide, NEW c \in Conns, NEW n \in 1..BufferSize, Recv(c, n)
  PROVE  ServerSide'
<1>. DEFINE q == up[c]
            h == handled[c]
<1>1. /\ up \in [Conns -> Seq(StreamBytes)] /\ handled \in [Conns -> Seq(Int)]
      /\ \A d \in Conns : UpOK(d) /\ HandledOK(d)
  BY DEF ServerSide
<1>2. /\ q \in Seq(StreamBytes) /\ InOrder(q) /\ Len(q) \in Nat
      /\ \A k \in 1..Len(q) : Written(q[k][1])
  BY <1>1, LenProperties DEF UpOK
<1>3. n \in 1..Len(q) /\ n \in Nat
  <2>1. n <= Len(q)
    BY DEF Recv
  <2>2. n \in Nat /\ n >= 1
    BY FramingAssumption
  <2>. HIDE DEF q
  <2> QED BY <1>2, <2>1, <2>2
<1>4. PICK s : s = Remaining(q, n)
  OBVIOUS
<1>5. /\ s \in Seq(StreamBytes) /\ InOrder(s) /\ Len(s) = Len(q) - n
      /\ \A k \in 1..(Len(q) - n) : n + k \in 1..Len(q) /\ s[k] = q[n + k]
  <2>1. n <= Len(q)
    BY <1>3
  <2>. HIDE DEF q
  <2> QED BY <1>2, <1>3, <1>4, <2>1, StreamRemains
<1>6. up' = [up EXCEPT ![c] = s] /\ written' = written
  BY <1>4 DEF Recv
<1>7. PICK m \in ParseMessage(Taken(q, n)) :
        handled' = IF m = NoMessage THEN handled
                   ELSE [handled EXCEPT ![c] = Append(h, m)]
  BY DEF Recv
<1>8. up'[c] = s /\ \A d \in Conns : d # c => up'[d] = up[d] /\ handled'[d] = handled[d]
  BY <1>1, <1>6, <1>7
<1>9. h \in Seq(Int) /\ Len(h) \in Nat
  BY <1>1, LenProperties
<1>10. \A i \in 1..Len(h) : h[i] # Garbage =>
         /\ Written(h[i]) /\ \A j \in 1..(i - 1) : h[j] < h[i]
         /\ \A k \in 1..Len(q) : h[i] < q[k][1]
  BY <1>1 DEF HandledOK
<1>11. \A i \in 1..Len(h) : h[i] \in Int
  BY <1>9, ElementOfSeq
<1>. HIDE DEF q, h
<1>12. UpOK(c)'
  <2>1. \A k \in 1..Len(s) : Written(s[k][1])
    BY <1>2, <1>3, <1>5
  <2>2. \A k \in 1..Len(s) : \E i \in 1..Len(written') : s[k][1] = written'[i]
    BY <1>6, <2>1 DEF Written
  <2> QED BY <1>5, <1>8, <2>2 DEF UpOK, Written
<1>13. \A i \in 1..Len(h) : h[i] # Garbage => \A k \in 1..Len(s) : h[i] < s[k][1]
  <2>1. ASSUME NEW i \in 1..Len(h), h[i] # Garbage, NEW k \in 1..Len(s)
        PROVE  h[i] < s[k][1]
    <3>1. n + k \in 1..Len(q) /\ s[k] = q[n + k]
      BY <1>2, <1>3, <1>5
    <3> QED BY <1>10, <2>1, <3>1
  <2> QED BY <2>1
<1>14. HandledOK(c)' /\ handled' \in [Conns -> Seq(Int)]
  <2>1. CASE m = NoMessage
    <3>1. handled' = handled
      BY <1>7, <2>1
    <3>2. handled'[c] = h
      BY <3>1 DEF h
    <3> QED BY <1>1, <1>6, <1>8, <1>9, <1>10, <1>13, <3>1, <3>2 DEF HandledOK, Written
  <2>2. CASE m # NoMessage
    <3>1. m = Garbage \/ (m = q[1][1] /\ q[1][2] = 1 /\ Width <= n /\ m \in Nat)
      BY <1>2, <1>3, <2>2, ParsedMessage
    <3>2. m \in Int
      BY <3>1 DEF Garbage
    <3>3. PICK g : g = Append(h, m)
      OBVIOUS
    <3>4. /\ g \in Seq(Int) /\ Len(g) = Len(h) + 1
          /\ \A i \in 1..Len(h) : g[i] = h[i]
          /\ g[Len(h) + 1] = m
      BY <1>9, <3>2, <3>3, AppendProperties
    <3>5. handled' = [handled EXCEPT ![c] = g] /\ handled'[c] = g
      BY <1>1, <1>7, <2>2, <3>3
    <3>6. 1 \in 1..Len(q)
      BY <1>2, <1>3
    <3>7. ASSUME m # Garbage, NEW k \in 1..Len(s)  PROVE m < s[k][1]
      <4>1. n + k \in 1..Len(q) /\ s[k] = q[n + k] /\ 1 \in 1..((n + k) - 1)
        BY <1>2, <1>3, <1>5, <3>7
      <4>2. q[1][1] <= q[n + k][1]
            /\ (q[1][1] = q[n + k][1] => q[n + k][2] - q[1][2] = (n + k) - 1)
        BY <1>2, <4>1 DEF InOrder
      <4>3. q[n + k] \in StreamBytes
        BY <1>2, <4>1, ElementOfSeq
      <4>4. q[n + k][1] \in Nat /\ q[n + k][2] \in 1..Width
        BY <4>3 DEF StreamBytes
      <4>5. q[1][1] # q[n + k][1]
        <5>1. q[1][2] = 1 /\ Width <= n /\ n \in Nat /\ k \in Nat /\ k >= 1
          BY <1>2, <1>3, <3>1, <3>7
        <5>2. PICK v \in 1..Width : v = q[n + k][2]
          BY <4>4
        <5>3. q[1][1] = q[n + k][1] => v - 1 = (n + k) - 1
          BY <4>2, <5>1, <5>2
        <5> QED BY <5>1, <5>3, WidthIsPositive
      <4> QED BY <3>1, <3>7, <4>1, <4>2, <4>4, <4>5
    <3>8. ASSUME NEW i \in 1..Len(g), g[i] # Garbage
          PROVE  /\ Written(g[i]) /\ \A j \in 1..(i - 1) : g[j] < g[i]
                 /\ \A k \in 1..Len(s) : g[i] < s[k][1]
      <4>1. CASE i \in 1..Len(h)
        <5>1. \A j \in 1..(i - 1) : j \in 1..Len(h) /\ g[j] = h[j]
          BY <1>9, <3>4, <4>1
        <5> QED BY <1>10, <1>13, <3>4, <3>8, <4>1, <5>1
      <4>2. CASE i = Len(h) + 1
        <5>1. g[i] = m /\ m # Garbage
          BY <3>4, <3>8, <4>2
        <5>2. m = q[1][1] /\ m \in Nat
          BY <3>1, <5>1
        <5>3. Written(m)
          BY <1>2, <3>6, <5>2
        <5>4. ASSUME NEW j \in 1..(i - 1)  PROVE g[j] < m
          <6>1. j \in 1..Len(h) /\ g[j] = h[j]
            BY <1>9, <3>4, <4>2
          <6>2. CASE h[j] = Garbage
            BY <5>2, <6>1, <6>2 DEF Garbage
          <6>3. CASE h[j] # Garbage
            BY <1>10, <3>6, <5>2, <6>1, <6>3
          <6> QED BY <6>2, <6>3
        <5> QED BY <3>7, <5>1, <5>3, <5>4
      <4> QED BY <1>9, <3>4, <4>1, <4>2
    <3>9. HandledOK(c)'
      <4>1. \A i \in 1..Len(g) : g[i] # Garbage =>
              /\ \E j \in 1..Len(written') : g[i] = written'[j]
              /\ \A j \in 1..(i - 1) : g[j] < g[i]
              /\ \A k \in 1..Len(s) : g[i] < s[k][1]
        BY <1>6, <3>8 DEF Written
      <4>2. up'[c] = s /\ handled'[c] = g
        BY <1>8, <3>5
      <4>3. \A i \in 1..Len(handled'[c]) : handled'[c][i] # Garbage =>
              /\ \E j \in 1..Len(written') : handled'[c][i] = written'[j]
              /\ \A j \in 1..(i - 1) : handled'[c][j] < handled'[c][i]
              /\ \A k \in 1..Len(up'[c]) : handled'[c][i] < up'[c][k][1]
        BY <4>1, <4>2
      <4>4. handled'[c] \in Seq(Int)
        BY <3>4, <4>2
      <4> QED BY <4>3, <4>4 DEF HandledOK, Written
    <3> QED BY <1>1, <3>4, <3>5, <3>9
  <2> QED BY <2>1, <2>2
<1>15. ASSUME NEW d \in Conns, d # c  PROVE UpOK(d)' /\ HandledOK(d)'
  <2>1. UpOK(d) /\ HandledOK(d)
    BY <1>1
  <2>2. up'[d] = up[d] /\ handled'[d] = handled[d] /\ written' = written
    BY <1>6, <1>8, <1>15
  <2>3. UpOK(d)'
    BY <2>1, <2>2 DEF UpOK, Written
  <2>4. HandledOK(d)'
    BY <2>1, <2>2 DEF HandledOK, Written
  <2> QED BY <2>3, <2>4
<1>16. up' \in [Conns -> Seq(StreamBytes)]
  BY <1>1, <1>5, <1>6
<1> QED BY <1>12, <1>14, <1>15, <1>16 DEF ServerSide


LEMMA ServerSideStep ==
  ASSUME Control, OrderOK, ServerSide, [Next]_vars  PROVE ServerSide'
<1>1. StateOK /\ ConnectedMeansUp
  BY DEF Control
<1>2. CASE MessageForwarded
  <2>1. tcpClient \in Conns
    BY <1>1, <1>2 DEF MessageForwarded, ConnectedMeansUp, StateOK
  <2>2. Forward(tcpClient, <<received + 1>>) /\ handled' = handled
    BY <1>2 DEF MessageForwarded
  <2>3. Later(<<received + 1>>)
    BY <1>1, NewestIsLater
  <2> QED BY <2>1, <2>2, <2>3, ForwardKeeps
<1>3. ASSUME NEW c \in Conns, Connected(c)  PROVE ServerSide'
  <2>1. Forward(c, waiting) /\ handled' = handled /\ Later(waiting)
    BY <1>3 DEF Connected, OrderOK
  <2> QED BY <2>1, ForwardKeeps
<1>4. ASSUME NEW c \in Conns, NEW n \in 1..BufferSize, Recv(c, n)  PROVE ServerSide'
  BY <1>4, RecvKeeps
<1>5. CASE MessageWaits \/ MessageDials \/ MessageRefused \/ WsClose \/ UNCHANGED vars
  BY <1>5, ServerSideUntouched
  DEF MessageWaits, MessageDials, MessageRefused, WsClose, wires, vars
<1>6. ASSUME NEW c \in Conns,
             \/ ConnectedForNobody(c) \/ DialFails(c) \/ DialTimesOut(c)
             \/ ServerCloses(c) \/ ConnectionFails(c) \/ ServerSends(c)
             \/ \E n \in 1..(MaxDown * Width) : Data(c, n)
      PROVE  ServerSide'
  BY <1>6, ServerSideUntouched
  DEF ConnectedForNobody, DialFails, DialTimesOut, ServerCloses, ConnectionFails,
      ServerSends, Data, wires
<1>7. ASSUME NEW who \in Owners, RetryTimer(who)  PROVE ServerSide'
  BY <1>7, ServerSideUntouched DEF RetryTimer, wires
<1> QED BY <1>2, <1>3, <1>4, <1>5, <1>6, <1>7 DEF Next, Dials


-----------------------------------------------------------------------------
(***************************************************************************)
(* The way down.  A message of the server is named by its connection and   *)
(* its number; byte i of all that is ever sent on connection c belongs to: *)
(***************************************************************************)
Place(c, i) == <<<<c, ((i - 1) \div Width) + 1>>, ((i - 1) % Width) + 1>>

DownMessages == Conns \X Nat
DownBytes == DownMessages \X (1..Width)

\* The bytes on their way are the last that were sent.
DownOK(c) ==
  /\ sent[c] \in Nat /\ down[c] \in Seq(DownBytes)
  /\ Len(down[c]) <= Width * sent[c]
  /\ \A i \in 1..Len(down[c]) :
       down[c][i] = Place(c, Width * sent[c] - Len(down[c]) + i)

(***************************************************************************)
(* The browser was shown the first so many messages of the connection in   *)
(* use, the buffer goes on where they end, and what is on its way where    *)
(* the buffer ends.                                                        *)
(***************************************************************************)
BufferOK ==
  LET c == tcpClient
      k == Len(shown)
  IN  /\ shown = [i \in 1..k |-> <<c, i>>]
      /\ Width * k + Len(buffer) = Width * sent[c] - Len(down[c])
      /\ \A i \in 1..Len(buffer) : buffer[i] = Place(c, Width * k + i)

BrowserSide ==
  /\ down \in [Conns -> Seq(DownBytes)] /\ sent \in [Conns -> Nat]
  /\ buffer \in Seq(DownBytes) /\ shown \in Seq(DownMessages)
  /\ Len(buffer) < Width
  /\ \A c \in Conns :
       sock[c] \in {"NONE", "DIALING"} => down[c] = <<>> /\ sent[c] = 0
  /\ \A c \in Conns : DownOK(c)
  /\ ~isConnected => buffer = <<>> /\ (ws = "OPEN" => shown = <<>>)
  /\ isConnected /\ ws = "OPEN" => BufferOK
  /\ ShownIsWhatWasSent

\* Byte t of message number p + 1 of a connection.
LEMMA PlaceOf ==
  ASSUME NEW c, NEW p \in Nat, NEW t \in 1..Width
  PROVE  Place(c, Width * p + t) = <<<<c, p + 1>>, t>>
<1>. DEFINE n == Width
            x == t - 1
            y == n * p
<1>1. n \in Nat \ {0} /\ x \in Nat /\ x < n /\ y \in Nat
  <2>1. n \in Nat \ {0}
    BY WidthIsPositive
  <2> QED BY <2>1
<1>2. (y + x) \div n = p + (x \div n) /\ (y + x) % n = x % n
  BY <1>1, ShiftedPlace
<1>3. x \div n = 0 /\ x % n = x
  <2>. DEFINE a == x \div n
              b == x % n
  <2>1. a \in Nat /\ b \in 0..(n - 1) /\ x = n * a + b
    BY <1>1, Division
  <2>2. x = n * 0 + x /\ x \in 0..(n - 1)
    BY <1>1
  <2>. HIDE DEF n, x, a, b
  <2>3. n * a + b = n * 0 + x
    BY <2>1, <2>2
  <2>4. a = 0 /\ b = x
    BY <1>1, <2>1, <2>2, <2>3, OneDivision
  <2> QED BY <2>4 DEF a, b
<1>4. (y + t) - 1 = y + x /\ p + 0 = p /\ x + 1 = t
  BY <1>1
<1> QED BY <1>2, <1>3, <1>4 DEF Place

\* The bytes of a message.
LEMMA BytesOfOne ==
  ASSUME NEW m \in DownMessages
  PROVE  /\ Bytes(m) \in Seq(DownBytes) /\ Len(Bytes(m)) = Width
         /\ \A t \in 1..Width : Bytes(m)[t] = <<m, t>>
<1>1. Bytes(m) \in [1..Width -> DownBytes]
  BY DEF Bytes, DownBytes
<1>2. Bytes(m) \in Seq(DownBytes) /\ Len(Bytes(m)) = Width
  BY <1>1, WidthIsPositive, TableIsASeq
<1> QED BY <1>2 DEF Bytes

LEMMA BrowserInit == ASSUME Init  PROVE BrowserSide
<1>1. <<>> \in Seq(DownBytes) /\ <<>> \in Seq(DownMessages) /\ Len(<<>>) = 0
  BY EmptySeq
<1>2. Len(buffer) < Width
  BY <1>1, WidthIsPositive DEF Init
<1>3. down \in [Conns -> Seq(DownBytes)] /\ sent \in [Conns -> Nat]
  BY <1>1 DEF Init
<1>4. \A c \in Conns : DownOK(c)
  <2>1. \A c \in Conns : down[c] = <<>> /\ sent[c] = 0
    BY DEF Init
  <2>2. Width * 0 = 0
    BY WidthIsPositive
  <2>3. ASSUME NEW c \in Conns  PROVE DownOK(c)
    <3>0. down[c] = <<>> /\ sent[c] = 0
      BY <2>1
    <3>1. /\ sent[c] \in Nat /\ down[c] \in Seq(DownBytes) /\ Len(down[c]) = 0
      BY <1>1, <3>0
    <3>2. sent[c] = 0
      BY <2>1
    <3>3. Width * sent[c] = 0
      BY <2>2, <3>2
    <3>4. Len(down[c]) <= Width * sent[c] /\ 1..Len(down[c]) = {}
      BY <3>1, <3>3
    <3> QED BY <3>1, <3>4 DEF DownOK
  <2> QED BY <2>3
<1>5. ShownIsWhatWasSent
  <2>1. 1 \in Conns
    BY GatewayAssumption DEF Conns
  <2>2. Len(shown) <= sent[1] /\ shown = [i \in 1..Len(shown) |-> <<1, i>>]
    BY <1>1, <2>1 DEF Init
  <2> QED BY <2>1, <2>2 DEF ShownIsWhatWasSent
<1> QED BY <1>1, <1>2, <1>3, <1>4, <1>5 DEF Init, BrowserSide


-----------------------------------------------------------------------------
(***************************************************************************)
(* The gateway takes the complete messages out of a buffer: what is left   *)
(* is less than a message, and if the buffer was the part of the stream of *)
(* connection c that follows message k, those are its messages from k + 1, *)
(* and what is left follows them.                                          *)
(***************************************************************************)
LEMMA Extraction ==
  ASSUME NEW all \in Seq(DownBytes)
  PROVE  /\ Complete(all) \in Nat
         /\ Len(all) = Width * Complete(all) + Len(BufferRest(all))
         /\ BufferRest(all) \in Seq(DownBytes) /\ Len(BufferRest(all)) < Width
         /\ \A c, k : k \in Nat /\ (\A i \in 1..Len(all) : all[i] = Place(c, Width * k + i)) =>
              /\ \A i \in 1..Complete(all) : ExtractMessages(all)[i] = <<c, k + i>>
              /\ \A i \in 1..Len(BufferRest(all)) :
                   BufferRest(all)[i] = Place(c, Width * (k + Complete(all)) + i)
<1>. DEFINE l == Len(all)
            n == Width
            x == Complete(all)
            d == n * x
            rest == BufferRest(all)
<1>1. l \in Nat /\ n \in Nat \ {0}
  BY LenProperties, WidthIsPositive
<1>2. x \in Nat /\ l % n \in 0..(n - 1) /\ l = d + (l % n)
  BY <1>1, Division DEF Complete
<1>3. d \in Nat /\ d <= l
  <2>1. d \in Nat
    BY <1>1, <1>2
  <2>. HIDE DEF d
  <2> QED BY <1>1, <1>2, <2>1
<1>4. rest = Remaining(all, d)
  <2>1. Complete(all) * Width = Width * Complete(all)
    BY <1>1, <1>2
  <2> QED BY <2>1 DEF BufferRest
<1>5. /\ rest \in Seq(DownBytes) /\ Len(rest) = l - d
      /\ \A i \in 1..(l - d) : d + i \in 1..l /\ rest[i] = all[d + i]
  <2>. HIDE DEF d, rest, l
  <2>1. d <= Len(all)
    BY <1>3 DEF l
  <2>2. /\ Remaining(all, d) \in Seq(DownBytes) /\ Len(Remaining(all, d)) = Len(all) - d
        /\ \A i \in 1..(Len(all) - d) :
             d + i \in 1..Len(all) /\ Remaining(all, d)[i] = all[d + i]
    BY <1>3, <2>1, LastBytes
  <2> QED BY <1>4, <2>2 DEF l
<1>6. Len(rest) < n /\ l = d + Len(rest)
  <2>. HIDE DEF d, l, rest, n
  <2> QED BY <1>1, <1>2, <1>3, <1>5
<1>7. ASSUME NEW c, NEW k \in Nat, \A i \in 1..l : all[i] = Place(c, n * k + i)
      PROVE  /\ \A i \in 1..x : ExtractMessages(all)[i] = <<c, k + i>>
             /\ \A i \in 1..Len(rest) : rest[i] = Place(c, n * (k + x) + i)
  <2>1. ASSUME NEW i \in 1..x  PROVE ExtractMessages(all)[i] = <<c, k + i>>
    <3>. DEFINE j == i - 1
                z == n * j
    <3>1. ExtractMessages(all)[i] = all[(i - 1) * Width + 1][1]
      BY DEF ExtractMessages
    <3>2. j \in Nat /\ j < x
      BY <1>2
    <3>3. n * j + n <= n * x
      BY <1>1, <1>2, <3>2, Multiples
    <3>4. (i - 1) * Width + 1 = z + 1 /\ z \in Nat
      BY <1>1, <3>2
    <3>5. z + 1 \in 1..l
      <4>. HIDE DEF z, d, l, n
      <4>1. z + n <= d
        BY <3>3 DEF z, d
      <4> QED BY <1>1, <1>3, <3>4, <4>1
    <3>6. n * k + (z + 1) = n * (k + j) + 1
      BY <1>1, <3>2
    <3>7. k + j \in Nat /\ 1 \in 1..n
      BY <1>1, <3>2
    <3>8. Place(c, n * (k + j) + 1) = <<<<c, k + j + 1>>, 1>>
      BY <3>7, PlaceOf
    <3>9. all[z + 1] = Place(c, n * k + (z + 1))
      BY <1>7, <3>5
    <3>10. k + j + 1 = k + i
      BY <3>2
    <3>11. all[z + 1][1] = <<c, k + i>>
      BY <3>6, <3>8, <3>9, <3>10
    <3> QED BY <3>1, <3>4, <3>11
  <2>2. ASSUME NEW i \in 1..Len(rest)  PROVE rest[i] = Place(c, n * (k + x) + i)
    <3>. DEFINE e == d + i
    <3>0. i \in Nat
      OBVIOUS
    <3>1. e \in 1..l /\ rest[i] = all[e]
      <4>1. i \in 1..(l - d)
        BY <1>5
      <4> QED BY <1>5, <4>1
    <3>2. rest[i] = Place(c, n * k + e)
      BY <1>7, <3>1
    <3>3. n * k + e = n * (k + x) + i
      BY <1>1, <1>2, <3>0
    <3> QED BY <3>2, <3>3
  <2> QED BY <2>1, <2>2
<1> QED BY <1>2, <1>5, <1>6, <1>7


-----------------------------------------------------------------------------
\* The server sends one message more: its bytes go on where the others end.
LEMMA SendingGoesOn ==
  ASSUME BrowserSide, NEW c \in Conns, ServerSends(c)
  PROVE  /\ sent' \in [Conns -> Nat] /\ down' \in [Conns -> Seq(DownBytes)]
         /\ DownOK(c)' /\ sent'[c] = sent[c] + 1
         /\ Len(down'[c]) = Len(down[c]) + Width
         /\ \A d \in Conns : d # c => sent'[d] = sent[d] /\ down'[d] = down[d]
<1>. DEFINE m == sent[c]
            q == down[c]
            n == Width
            l == Len(q)
<1>1. /\ down \in [Conns -> Seq(DownBytes)] /\ sent \in [Conns -> Nat] /\ DownOK(c)
  BY DEF BrowserSide
<1>2. /\ m \in Nat /\ q \in Seq(DownBytes) /\ l \in Nat /\ n \in Nat \ {0}
      /\ l <= n * m /\ \A i \in 1..l : q[i] = Place(c, n * m - l + i)
  BY <1>1, LenProperties, WidthIsPositive DEF DownOK
<1>3. sent' = [sent EXCEPT ![c] = m + 1] /\ sent'[c] = m + 1
  BY <1>1 DEF ServerSends
<1>4. PICK b : b = Bytes(<<c, m + 1>>)
  OBVIOUS
<1>5. b \in Seq(DownBytes) /\ Len(b) = n /\ \A t \in 1..n : b[t] = <<<<c, m + 1>>, t>>
  <2>1. <<c, m + 1>> \in DownMessages
    BY <1>2 DEF DownMessages
  <2> QED BY <1>4, <2>1, BytesOfOne
<1>6. PICK s : s = q \o b
  OBVIOUS
<1>7. down' = [down EXCEPT ![c] = s]
  <2>1. down' = [down EXCEPT ![c] = down[c] \o Bytes(<<c, sent'[c]>>)]
    BY DEF ServerSends
  <2> QED BY <1>3, <1>4, <1>6, <2>1
<1>8. /\ s \in Seq(DownBytes) /\ Len(s) = l + n
      /\ \A i \in 1..(l + n) : s[i] = IF i <= l THEN q[i] ELSE b[i - l]
  <2>1. /\ q \o b \in Seq(DownBytes) /\ Len(q \o b) = Len(q) + Len(b)
        /\ \A i \in 1..(Len(q) + Len(b)) :
             (q \o b)[i] = IF i <= Len(q) THEN q[i] ELSE b[i - Len(q)]
    <3>. HIDE DEF q, n, l
    <3> QED BY <1>2, <1>5, ConcatProperties
  <2> QED BY <1>5, <1>6, <2>1
<1>9. /\ down' \in [Conns -> Seq(DownBytes)] /\ sent' \in [Conns -> Nat]
      /\ down'[c] = s
      /\ \A d \in Conns : d # c => sent'[d] = sent[d] /\ down'[d] = down[d]
  BY <1>1, <1>2, <1>3, <1>7, <1>8
<1>10. n * (m + 1) = n * m + n /\ n * m \in Nat
  BY <1>2
<1>. DEFINE z == n * m
<1>. HIDE DEF m, q, n, l, z
<1>11. \A i \in 1..(l + n) : s[i] = Place(c, n * (m + 1) - (l + n) + i)
  <2>1. ASSUME NEW i \in 1..(l + n)  PROVE s[i] = Place(c, n * (m + 1) - (l + n) + i)
    <3>1. n * (m + 1) = z + n /\ z \in Nat
      BY <1>10 DEF z
    <3>2. n * (m + 1) - (l + n) + i = z - l + i
      BY <1>2, <3>1
    <3>3. CASE i <= l
      <4>1. i \in 1..l
        BY <1>2, <3>3
      <4> QED BY <1>2, <1>8, <3>2, <3>3, <4>1 DEF z
    <3>4. CASE ~(i <= l)
      <4>1. PICK t \in 1..n : t = i - l
        BY <1>2, <3>4
      <4>2. s[i] = <<<<c, m + 1>>, t>>
        BY <1>5, <1>8, <3>4, <4>1
      <4>3. z - l + i = z + t
        BY <1>2, <3>1, <4>1
      <4>4. Place(c, z + t) = <<<<c, m + 1>>, t>>
        BY <1>2, PlaceOf DEF z, n
      <4> QED BY <3>2, <4>2, <4>3, <4>4
    <3> QED BY <3>3, <3>4
  <2> QED BY <2>1
<1>12. l + n <= n * (m + 1)
  BY <1>2, <1>10 DEF z
<1>13. DownOK(c)'
  <2>1. sent'[c] = m + 1 /\ down'[c] = s /\ m + 1 \in Nat
    BY <1>2, <1>3, <1>9
  <2>2. \A i \in 1..Len(s) : s[i] = Place(c, n * (m + 1) - Len(s) + i)
    BY <1>8, <1>11
  <2>3. Len(s) <= n * (m + 1)
    BY <1>8, <1>12
  <2> QED BY <1>8, <2>1, <2>2, <2>3 DEF DownOK, Place, n
<1> QED BY <1>3, <1>8, <1>9, <1>13 DEF m, l, n, q


LEMMA ServerSendsKeeps ==
  ASSUME BrowserSide, Control, NEW c \in Conns, ServerSends(c)  PROVE BrowserSide'
<1>1. /\ sent' \in [Conns -> Nat] /\ down' \in [Conns -> Seq(DownBytes)]
      /\ DownOK(c)' /\ sent'[c] = sent[c] + 1
      /\ Len(down'[c]) = Len(down[c]) + Width
      /\ \A d \in Conns : d # c => sent'[d] = sent[d] /\ down'[d] = down[d]
  BY SendingGoesOn
<1>2. sock[c] = "UP" /\ UNCHANGED <<ws, sock, tcpClient, isConnected, buffer, shown>>
  BY DEF ServerSends, gatewayVars
<1>3. \A d \in Conns : DownOK(d)'
  <2>1. \A d \in Conns : d # c => DownOK(d)'
    <3>1. ASSUME NEW d \in Conns, d # c  PROVE DownOK(d)'
      <4>1. DownOK(d) /\ sent'[d] = sent[d] /\ down'[d] = down[d]
        BY <1>1, <3>1 DEF BrowserSide
      <4> QED BY <4>1 DEF DownOK, Place
    <3> QED BY <3>1
  <2> QED BY <1>1, <2>1
<1>4. ShownIsWhatWasSent'
  <2>1. PICK d \in Conns : Len(shown) <= sent[d] /\ shown = [i \in 1..Len(shown) |-> <<d, i>>]
    BY DEF BrowserSide, ShownIsWhatWasSent
  <2>2. sent[d] \in Nat /\ sent'[d] \in Nat /\ sent[d] <= sent'[d]
    <3>1. sent[d] \in Nat
      BY DEF BrowserSide
    <3>2. sent'[d] = sent[d] \/ sent'[d] = sent[d] + 1
      BY <1>1
    <3> QED BY <3>1, <3>2
  <2>3. Len(shown) <= sent'[d]
    <3>1. Len(shown) \in Nat
      BY LenProperties DEF BrowserSide
    <3> QED BY <2>1, <2>2, <3>1
  <2> QED BY <1>2, <2>1, <2>3 DEF ShownIsWhatWasSent
<1>5. isConnected' /\ ws' = "OPEN" => BufferOK'
  <2>1. SUFFICES ASSUME isConnected, ws = "OPEN"  PROVE BufferOK'
    BY <1>2
  <2>2. BufferOK /\ tcpClient \in Conns
    BY <2>1 DEF BrowserSide, Control, ConnectedMeansUp, StateOK
  <2>3. Width * Len(shown) + Len(buffer) =
          Width * sent'[tcpClient] - Len(down'[tcpClient])
    <3>1. /\ Width \in Nat /\ sent[tcpClient] \in Nat /\ Len(down[tcpClient]) \in Nat
      BY <2>2, WidthIsPositive, LenProperties DEF BrowserSide
    <3>2. Width * (sent[tcpClient] + 1) - (Len(down[tcpClient]) + Width) =
            Width * sent[tcpClient] - Len(down[tcpClient])
      <4>. DEFINE s == sent[tcpClient]
                  x == Len(down[tcpClient])
                  z == Width * s
      <4>1. Width * (s + 1) = z + Width /\ z \in Nat
        BY <3>1
      <4>. HIDE DEF s, x, z
      <4>2. x \in Nat
        BY <3>1 DEF x
      <4>3. Width * (s + 1) - (x + Width) = z - x
        BY <3>1, <4>1, <4>2
      <4> QED BY <4>3 DEF s, x, z
    <3>3. CASE tcpClient = c
      BY <1>1, <2>2, <3>2, <3>3 DEF BufferOK
    <3>4. CASE tcpClient # c
      BY <1>1, <2>2, <3>4 DEF BufferOK
    <3> QED BY <3>3, <3>4
  <2> QED BY <1>2, <2>2, <2>3 DEF BufferOK, Place
<1>6. \A d \in Conns : sock'[d] \in {"NONE", "DIALING"} => down'[d] = <<>> /\ sent'[d] = 0
  BY <1>1, <1>2 DEF BrowserSide
<1> QED BY <1>1, <1>2, <1>3, <1>4, <1>5, <1>6 DEF BrowserSide

\* Steps that the way down does not notice.
LEMMA BrowserUntouched ==
  ASSUME BrowserSide, UNCHANGED <<down, sent, buffer, shown, isConnected, tcpClient>>,
         ws' = "OPEN" => ws = "OPEN",
         \A c \in Conns : sock'[c] \in {"NONE", "DIALING"} => sock[c] \in {"NONE", "DIALING"}
  PROVE  BrowserSide'
BY DEF BrowserSide, BufferOK, DownOK, Place, ShownIsWhatWasSent

\* The connection in use is gone, and what was left of its stream is forgotten.
LEMMA BrowserLost ==
  ASSUME BrowserSide, UNCHANGED <<down, sent, shown>>, ~isConnected', buffer' = <<>>,
         ws' # "OPEN",
         \A c \in Conns : sock'[c] \in {"NONE", "DIALING"} => sock[c] \in {"NONE", "DIALING"}
  PROVE  BrowserSide'
<1>1. buffer' \in Seq(DownBytes) /\ Len(buffer') < Width
  BY EmptySeq, WidthIsPositive
<1>2. ShownIsWhatWasSent' /\ \A c \in Conns : DownOK(c)'
  BY DEF BrowserSide, ShownIsWhatWasSent, DownOK, Place
<1> QED BY <1>1, <1>2 DEF BrowserSide

\* A new connection in use: nothing has been sent on it, nothing been shown.
LEMMA BrowserConnected ==
  ASSUME BrowserSide, Control, NEW c \in Conns, Connected(c)  PROVE BrowserSide'
<1>1. /\ sock[c] = "DIALING" /\ sock' = [sock EXCEPT ![c] = "UP"]
      /\ tcpClient' = c /\ isConnected'
      /\ UNCHANGED <<ws, down, sent, buffer, shown>>
  BY DEF Connected
<1>2. sock \in [Conns -> SockStates] /\ ~isConnected
  BY <1>1 DEF Control, StateOK, OnePromise, Dialing, Connected
<1>3. down[c] = <<>> /\ sent[c] = 0 /\ buffer = <<>> /\ (ws = "OPEN" => shown = <<>>)
  BY <1>1, <1>2 DEF BrowserSide
<1>4. ws' = "OPEN" => BufferOK'
  <2>1. SUFFICES ASSUME ws = "OPEN"  PROVE BufferOK'
    BY <1>1
  <2>2. tcpClient' = c /\ shown' = <<>> /\ buffer' = <<>> /\ down'[c] = <<>> /\ sent'[c] = 0
    BY <1>1, <1>3, <2>1
  <2>3. Len(<<>>) = 0 /\ Width * 0 + 0 = Width * 0 - 0
    BY WidthIsPositive
  <2>4. <<>> = [i \in 1..0 |-> <<c, i>>]
    OBVIOUS
  <2> QED BY <2>2, <2>3, <2>4 DEF BufferOK
<1>5. \A d \in Conns : sock'[d] \in {"NONE", "DIALING"} => sock[d] \in {"NONE", "DIALING"}
  BY <1>1, <1>2
<1>6. ShownIsWhatWasSent' /\ \A d \in Conns : DownOK(d)'
  BY <1>1 DEF BrowserSide, ShownIsWhatWasSent, DownOK, Place
<1> QED BY <1>1, <1>4, <1>5, <1>6 DEF BrowserSide


-----------------------------------------------------------------------------
\* The first so many messages of connection c, followed by the next ones.
LEMMA ShownGoesOn ==
  ASSUME NEW c, NEW s \in Seq(DownMessages), NEW e \in Seq(DownMessages),
         \A i \in 1..Len(s) : s[i] = <<c, i>>,
         \A i \in 1..Len(e) : e[i] = <<c, Len(s) + i>>
  PROVE  /\ s \o e \in Seq(DownMessages) /\ Len(s \o e) = Len(s) + Len(e)
         /\ \A i \in 1..Len(s \o e) : (s \o e)[i] = <<c, i>>
<1>1. Len(s) \in Nat /\ Len(e) \in Nat
  BY LenProperties
<1>2. /\ s \o e \in Seq(DownMessages) /\ Len(s \o e) = Len(s) + Len(e)
      /\ \A i \in 1..(Len(s) + Len(e)) :
           (s \o e)[i] = IF i <= Len(s) THEN s[i] ELSE e[i - Len(s)]
  BY ConcatProperties
<1>3. ASSUME NEW i \in 1..(Len(s) + Len(e))  PROVE (s \o e)[i] = <<c, i>>
  <2>1. CASE i <= Len(s)
    <3>1. i \in 1..Len(s)
      BY <1>1, <2>1
    <3> QED BY <1>2, <2>1, <3>1
  <2>2. CASE ~(i <= Len(s))
    <3>1. i - Len(s) \in 1..Len(e) /\ Len(s) + (i - Len(s)) = i
      BY <1>1, <2>2
    <3>2. (s \o e)[i] = e[i - Len(s)]
      BY <1>2, <2>2
    <3> QED BY <3>1, <3>2
  <2> QED BY <2>1, <2>2
<1> QED BY <1>2, <1>3

\* A sequence is the table of its elements.
LEMMA SeqIsATable ==
  ASSUME NEW c, NEW s \in Seq(DownMessages), \A i \in 1..Len(s) : s[i] = <<c, i>>
  PROVE  s = [i \in 1..Len(s) |-> <<c, i>>]
<1>1. s = [i \in 1..Len(s) |-> s[i]]
  BY LenProperties
<1> QED BY <1>1

\* What is extracted are messages.
LEMMA ExtractedAreMessages ==
  ASSUME NEW all, Complete(all) \in Nat, NEW c \in Conns, NEW k \in Nat,
         \A i \in 1..Complete(all) : ExtractMessages(all)[i] = <<c, k + i>>
  PROVE  /\ ExtractMessages(all) \in Seq(DownMessages)
         /\ Len(ExtractMessages(all)) = Complete(all)
<1>1. \A i \in 1..Complete(all) : ExtractMessages(all)[i] \in DownMessages
  BY DEF DownMessages
<1>2. ExtractMessages(all) \in [1..Complete(all) -> DownMessages]
  <2>1. ExtractMessages(all) =
          [i \in 1..Complete(all) |-> ExtractMessages(all)[i]]
    BY DEF ExtractMessages
  <2> QED BY <1>1, <2>1
<1> QED BY <1>2, TableIsASeq

(***************************************************************************)
(* A piece of the stream arrives.  Cut off anywhere, it makes of the buffer *)
(* a longer piece of the same stream.                                      *)
(***************************************************************************)
LEMMA DataKeeps ==
  ASSUME BrowserSide, Control, NEW c \in Conns, NEW n \in 1..(MaxDown * Width), Data(c, n)
  PROVE  BrowserSide'
<1>. DEFINE q == down[c]
            l == Len(q)
            b == Len(buffer)
            w == Width
            z == w * sent[c]
<1>1. /\ down \in [Conns -> Seq(DownBytes)] /\ sent \in [Conns -> Nat]
      /\ buffer \in Seq(DownBytes) /\ shown \in Seq(DownMessages) /\ DownOK(c)
  BY DEF BrowserSide
<1>2. /\ sock[c] = "UP" /\ owner[c] = "promise" /\ n <= l
      /\ UNCHANGED <<ws, sock, tcpClient, isConnected, sent>>
  BY DEF Data, gatewayVars
<1>3. c = tcpClient /\ isConnected
  BY <1>2 DEF Control, ConnectedMeansUp, Conns, Nothing
<1>4. n \in Nat /\ l \in Nat /\ b \in Nat /\ w \in Nat \ {0} /\ sent[c] \in Nat
  BY <1>1, LenProperties, WidthIsPositive
<1>5. z \in Nat /\ l <= z /\ q \in Seq(DownBytes) /\ \A i \in 1..l : q[i] = Place(c, z - l + i)
  BY <1>1, <1>4 DEF DownOK
<1>6. PICK s : s = Remaining(q, n)
  OBVIOUS
<1>7. PICK t : t = Taken(q, n)
  OBVIOUS
<1>8. PICK all : all = buffer \o t
  OBVIOUS
<1>9. /\ down' = [down EXCEPT ![c] = s] /\ buffer' = BufferRest(all)
      /\ shown' = IF ws = "OPEN" THEN shown \o ExtractMessages(all) ELSE shown
  BY <1>6, <1>7, <1>8 DEF Data
<1>. HIDE DEF q, l, b, w, z
<1>10. /\ s \in Seq(DownBytes) /\ Len(s) = l - n
       /\ \A i \in 1..(l - n) : n + i \in 1..l /\ s[i] = q[n + i]
  BY <1>2, <1>4, <1>5, <1>6, LastBytes DEF l
<1>11. t \in Seq(DownBytes) /\ Len(t) = n /\ \A i \in 1..n : t[i] = q[i]
  <2>1. n \in 0..Len(q)
    BY <1>2, <1>4 DEF l
  <2> QED BY <1>5, <1>7, <2>1, FirstBytes
<1>12. /\ all \in Seq(DownBytes) /\ Len(all) = b + n
       /\ \A i \in 1..(b + n) : all[i] = IF i <= b THEN buffer[i] ELSE t[i - b]
  BY <1>1, <1>8, <1>11, ConcatProperties DEF b
<1>13. /\ down' \in [Conns -> Seq(DownBytes)] /\ down'[c] = s
       /\ \A d \in Conns : d # c => down'[d] = down[d]
  BY <1>1, <1>9, <1>10
<1>14. DownOK(c)'
  <2>1. \A i \in 1..(l - n) : s[i] = Place(c, z - (l - n) + i)
    <3>1. ASSUME NEW i \in 1..(l - n)  PROVE s[i] = Place(c, z - (l - n) + i)
      <4>1. n + i \in 1..l /\ s[i] = q[n + i] /\ z - l + (n + i) = z - (l - n) + i
        BY <1>4, <1>5, <1>10
      <4> QED BY <1>5, <4>1
    <3> QED BY <3>1
  <2>2. Len(s) <= z /\ sent'[c] = sent[c]
    BY <1>2, <1>4, <1>5, <1>10
  <2>3. \A i \in 1..Len(s) : s[i] = Place(c, z - Len(s) + i)
    BY <1>10, <2>1
  <2> QED BY <1>4, <1>10, <1>13, <2>2, <2>3 DEF DownOK, Place, z, w
<1>15. \A d \in Conns : DownOK(d)'
  <2>1. ASSUME NEW d \in Conns, d # c  PROVE DownOK(d)'
    <3>1. DownOK(d) /\ sent'[d] = sent[d] /\ down'[d] = down[d]
      BY <1>2, <1>13, <2>1 DEF BrowserSide
    <3> QED BY <3>1 DEF DownOK, Place
  <2> QED BY <1>14, <2>1
<1>16. /\ Complete(all) \in Nat /\ Len(all) = w * Complete(all) + Len(buffer')
       /\ buffer' \in Seq(DownBytes) /\ Len(buffer') < Width
  BY <1>9, <1>12, Extraction DEF w
<1>17. \A d \in Conns : sock'[d] \in {"NONE", "DIALING"} => down'[d] = <<>> /\ sent'[d] = 0
  BY <1>2, <1>13 DEF BrowserSide
<1>18. CASE ws # "OPEN"
  <2>1. shown' = shown /\ ws' # "OPEN" /\ isConnected' /\ sent' = sent
    BY <1>2, <1>3, <1>9, <1>18
  <2>2. ShownIsWhatWasSent'
    BY <2>1 DEF BrowserSide, ShownIsWhatWasSent
  <2> QED BY <1>1, <1>13, <1>15, <1>16, <1>17, <2>1, <2>2 DEF BrowserSide
<1>19. CASE ws = "OPEN"
  <2>k. PICK k : k = Len(shown)
    OBVIOUS
  <2>x. PICK x : x = Complete(all)
    OBVIOUS
  <2>e. PICK e : e = ExtractMessages(all)
    OBVIOUS
  <2>y. PICK y : y = w * k
    OBVIOUS
  <2>1. /\ shown = [i \in 1..k |-> <<c, i>>] /\ y + b = z - l
        /\ \A i \in 1..b : buffer[i] = Place(c, y + i)
    BY <1>3, <1>19, <2>k, <2>y DEF BrowserSide, BufferOK, b, l, q, z, w
  <2>2. k \in Nat /\ x \in Nat /\ y \in Nat
    <3>1. k \in Nat /\ x \in Nat
      BY <1>1, <1>16, <2>k, <2>x, LenProperties
    <3> QED BY <1>4, <2>y, <3>1
  <2>3. \A i \in 1..Len(all) : all[i] = Place(c, y + i)
    <3>1. ASSUME NEW i \in 1..(b + n)  PROVE all[i] = Place(c, y + i)
      <4>1. CASE i <= b
        <5>1. i \in 1..b
          BY <1>4, <4>1
        <5> QED BY <1>12, <2>1, <4>1, <5>1
      <4>2. CASE ~(i <= b)
        <5>1. PICK j \in 1..n : j = i - b
          BY <1>4, <4>2
        <5>2. all[i] = q[j] /\ j \in 1..l
          BY <1>2, <1>4, <1>11, <1>12, <4>2, <5>1
        <5>3. z - l + j = y + i
          <6>1. y + b = z - l /\ z \in Nat /\ l \in Nat /\ b \in Nat /\ y \in Nat
            BY <1>4, <1>5, <2>1, <2>2
          <6>2. i \in Nat /\ j = i - b
            BY <1>4, <5>1
          <6> QED BY <6>1, <6>2
        <5> QED BY <1>5, <5>2, <5>3
      <4> QED BY <4>1, <4>2
    <3> QED BY <1>12, <3>1
  <2>4. /\ \A i \in 1..x : e[i] = <<c, k + i>>
        /\ \A i \in 1..Len(buffer') : buffer'[i] = Place(c, w * (k + x) + i)
    <3>1. \A i \in 1..Len(all) : all[i] = Place(c, Width * k + i)
      BY <2>3, <2>y DEF w
    <3>2. /\ \A i \in 1..Complete(all) : ExtractMessages(all)[i] = <<c, k + i>>
          /\ \A i \in 1..Len(BufferRest(all)) :
               BufferRest(all)[i] = Place(c, Width * (k + Complete(all)) + i)
      <4>1. \A d, j : j \in Nat /\ (\A i \in 1..Len(all) : all[i] = Place(d, Width * j + i)) =>
              /\ \A i \in 1..Complete(all) : ExtractMessages(all)[i] = <<d, j + i>>
              /\ \A i \in 1..Len(BufferRest(all)) :
                   BufferRest(all)[i] = Place(d, Width * (j + Complete(all)) + i)
        BY <1>12, Extraction
      <4>2. k \in Nat /\ \A i \in 1..Len(all) : all[i] = Place(c, Width * k + i)
        BY <2>2, <3>1
      <4> QED BY <4>1, <4>2
    <3> QED BY <1>9, <2>x, <2>e, <3>2 DEF w
  <2>5. /\ shown' \in Seq(DownMessages) /\ Len(shown') = k + x
        /\ shown' = [i \in 1..Len(shown') |-> <<c, i>>]
    <3>1. e \in Seq(DownMessages) /\ Len(e) = x
      BY <2>x, <2>e, <2>2, <2>4, ExtractedAreMessages
    <3>2. \A i \in 1..Len(shown) : shown[i] = <<c, i>>
      BY <2>k, <2>1
    <3>3. \A i \in 1..Len(e) : e[i] = <<c, Len(shown) + i>>
      BY <2>k, <2>4, <3>1
    <3>4. /\ shown \o e \in Seq(DownMessages) /\ Len(shown \o e) = Len(shown) + Len(e)
          /\ \A i \in 1..Len(shown \o e) : (shown \o e)[i] = <<c, i>>
      BY <1>1, <3>1, <3>2, <3>3, ShownGoesOn
    <3>5. shown' = shown \o e
      BY <1>9, <1>19, <2>e
    <3>6. shown' \in Seq(DownMessages) /\ \A i \in 1..Len(shown') : shown'[i] = <<c, i>>
      BY <3>4, <3>5
    <3> QED BY <2>k, <3>1, <3>4, <3>5, <3>6, SeqIsATable
  <2>6. PICK v \in Nat : v = w * (k + x)
    <3>1. k + x \in Nat
      BY <2>2
    <3> QED BY <1>4, <3>1
  <2>7. v + Len(buffer') = z - (l - n)
    <3>1. PICK u \in Nat : u = w * x
      BY <1>4, <2>2
    <3>2. v = y + u
      <4>1. w * (k + x) = w * k + w * x
        BY <1>4, <2>2
      <4> QED BY <2>y, <2>6, <3>1, <4>1
    <3>3. b + n = u + Len(buffer') /\ Len(buffer') \in Nat
      BY <1>12, <1>16, <2>x, <3>1, LenProperties
    <3>4. /\ y \in Nat /\ b \in Nat /\ n \in Nat /\ l \in Nat /\ z \in Nat
          /\ y + b = z - l
      BY <1>4, <1>5, <2>1, <2>2
    <3>5. PICK r \in Nat : r = Len(buffer')
      BY <3>3
    <3>6. v + r = z - (l - n)
      BY <3>2, <3>3, <3>4, <3>5
    <3> QED BY <3>5, <3>6
  <2>8. k + x <= sent[c]
    <3>1. Len(buffer') \in Nat /\ k + x \in Nat
      BY <1>16, <2>2, LenProperties
    <3>2. v <= z
      BY <1>2, <1>4, <1>5, <2>6, <2>7, <3>1
    <3>3. ASSUME sent[c] < k + x  PROVE FALSE
      <4>. DEFINE u == k + x
                  r == sent[c]
      <4>1. u \in Nat /\ r \in Nat /\ r < u
        BY <1>4, <3>1, <3>3
      <4>2. z = w * r /\ v = w * u
        BY <2>6 DEF z
      <4>. HIDE DEF u, r
      <4>3. w * r + w <= w * u
        BY <1>4, <4>1, Multiples
      <4>4. z + w <= v
        BY <4>2, <4>3
      <4> QED BY <1>4, <1>5, <2>6, <3>2, <4>4
    <3> QED BY <1>4, <3>1, <3>3
  <2>9. BufferOK'
    <3>1. tcpClient' = c /\ sent'[c] = sent[c] /\ Len(down'[c]) = l - n
      BY <1>2, <1>3, <1>10, <1>13
    <3> QED BY <2>4, <2>5, <2>6, <2>7, <3>1 DEF BufferOK, Place, w, z
  <2>10. ShownIsWhatWasSent'
    BY <1>2, <2>5, <2>8 DEF ShownIsWhatWasSent
  <2>11. isConnected' /\ sent' \in [Conns -> Nat]
    BY <1>1, <1>2, <1>3
  <2> QED BY <1>13, <1>15, <1>16, <1>17, <2>5, <2>9, <2>10, <2>11 DEF BrowserSide
<1> QED BY <1>18, <1>19



-----------------------------------------------------------------------------
\* A dial takes a connection that was not used.
LEMMA DialMoves ==
  ASSUME Control, NEW who, Dial(who)
  PROVE  \A c \in Conns : sock'[c] \in {"NONE", "DIALING"} => sock[c] \in {"NONE", "DIALING"}
<1>1. NextConn \in Conns /\ sock[NextConn] = "NONE"
  BY NextConnIsNew DEF Dial
<1>2. sock' = [sock EXCEPT ![NextConn] = "DIALING"] /\ sock \in [Conns -> SockStates]
  BY DEF Dial, Control, StateOK
<1> QED BY <1>1, <1>2

\* A connection that ends is not set up again.
LEMMA EndedStays ==
  ASSUME Control, NEW c, NEW s \in {"UP", "CLOSED"}, sock' = [sock EXCEPT ![c] = s]
  PROVE  \A d \in Conns : sock'[d] \in {"NONE", "DIALING"} => sock[d] \in {"NONE", "DIALING"}
<1>1. sock \in [Conns -> SockStates]
  BY DEF Control, StateOK
<1> QED BY <1>1

\* The end of a connection: only that of the connection in use is noticed.
LEMMA BrowserConnectionLost ==
  ASSUME BrowserSide, Control, NEW c \in Conns, sock' = [sock EXCEPT ![c] = "CLOSED"],
         ConnectionLost(c), UNCHANGED <<down, sent, shown, tcpClient>>
  PROVE  BrowserSide'
<1>1. \A d \in Conns : sock'[d] \in {"NONE", "DIALING"} => sock[d] \in {"NONE", "DIALING"}
  BY EndedStays
<1>2. CASE owner[c] = "promise"
  <2>1. ~isConnected' /\ buffer' = <<>> /\ ws' # "OPEN"
    BY <1>2 DEF ConnectionLost, CloseWs
  <2> QED BY <1>1, <2>1, BrowserLost
<1>3. CASE owner[c] # "promise"
  <2>1. UNCHANGED <<isConnected, buffer, ws>>
    BY <1>3 DEF ConnectionLost
  <2> QED BY <1>1, <2>1, BrowserUntouched
<1> QED BY <1>2, <1>3

LEMMA BrowserStep == ASSUME BrowserSide, Control, [Next]_vars  PROVE BrowserSide'
<1>. DEFINE Moves == \A c \in Conns :
              sock'[c] \in {"NONE", "DIALING"} => sock[c] \in {"NONE", "DIALING"}
<1>1. CASE MessageForwarded
  BY <1>1, BrowserUntouched DEF MessageForwarded, gatewayVars
<1>2. CASE MessageWaits
  BY <1>2, BrowserUntouched DEF MessageWaits, wires
<1>3. CASE MessageDials
  <2>1. Moves
    BY <1>3, DialMoves DEF MessageDials
  <2> QED BY <1>3, <2>1, BrowserUntouched DEF MessageDials, wires
<1>4. CASE MessageRefused
  BY <1>4, BrowserUntouched DEF MessageRefused, gatewayVars, wires, CloseWs
<1>5. ASSUME NEW c \in Conns, Connected(c)  PROVE BrowserSide'
  BY <1>5, BrowserConnected
<1>6. ASSUME NEW c \in Conns, ConnectedForNobody(c)  PROVE BrowserSide'
  <2>1. Moves
    BY <1>6, EndedStays DEF ConnectedForNobody
  <2> QED BY <1>6, <2>1, BrowserUntouched DEF ConnectedForNobody, wires
<1>7. ASSUME NEW c \in Conns, DialFails(c)  PROVE BrowserSide'
  <2>1. Moves
    BY <1>7, EndedStays DEF DialFails
  <2>2. ws' = "OPEN" => ws = "OPEN"
    BY <1>7 DEF DialFails, Reject, CloseWs
  <2>3. UNCHANGED <<down, sent, buffer, shown, isConnected, tcpClient>>
    BY <1>7 DEF DialFails, wires
  <2> QED BY <2>1, <2>2, <2>3, BrowserUntouched
<1>8. ASSUME NEW c \in Conns, DialTimesOut(c)  PROVE BrowserSide'
  <2>1. Moves
    BY <1>8, EndedStays DEF DialTimesOut
  <2>2. ws' = "OPEN" => ws = "OPEN"
    BY <1>8 DEF DialTimesOut, Reject, CloseWs
  <2>3. UNCHANGED <<down, sent, buffer, shown, isConnected, tcpClient>>
    BY <1>8 DEF DialTimesOut, wires
  <2> QED BY <2>1, <2>2, <2>3, BrowserUntouched
<1>9. ASSUME NEW c \in Conns, ServerCloses(c)  PROVE BrowserSide'
  BY <1>9, BrowserConnectionLost DEF ServerCloses
<1>10. ASSUME NEW c \in Conns, ConnectionFails(c)  PROVE BrowserSide'
  BY <1>10, BrowserConnectionLost DEF ConnectionFails
<1>11. ASSUME NEW c \in Conns, ServerSends(c)  PROVE BrowserSide'
  BY <1>11, ServerSendsKeeps
<1>12. ASSUME NEW c \in Conns, NEW n \in 1..BufferSize, Recv(c, n)  PROVE BrowserSide'
  BY <1>12, BrowserUntouched DEF Recv, gatewayVars
<1>13. ASSUME NEW c \in Conns, NEW n \in 1..(MaxDown * Width), Data(c, n)
       PROVE  BrowserSide'
  BY <1>13, DataKeeps
<1>14. ASSUME NEW who \in Owners, RetryTimer(who)  PROVE BrowserSide'
  <2>1. Moves
    <3>1. CASE isConnecting
      BY <1>14, <3>1 DEF RetryTimer
    <3>2. CASE ~isConnecting
      BY <1>14, <3>2, DialMoves DEF RetryTimer
    <3> QED BY <3>1, <3>2
  <2>2. ws' = "OPEN" => ws = "OPEN"
    BY <1>14 DEF RetryTimer, Reject, CloseWs
  <2>3. UNCHANGED <<down, sent, buffer, shown, isConnected, tcpClient>>
    BY <1>14 DEF RetryTimer, wires
  <2> QED BY <2>1, <2>2, <2>3, BrowserUntouched
<1>15. CASE WsClose
  <2>1. UNCHANGED <<down, sent, shown, tcpClient>> /\ ws' = "CLOSED"
    BY <1>15 DEF WsClose
  <2>2. CASE tcpClient # Nothing /\ sock[tcpClient] = "UP"
    <3>1. sock' = [sock EXCEPT ![tcpClient] = "CLOSED"] /\ ~isConnected' /\ buffer' = <<>>
      BY <1>15, <2>2 DEF WsClose, DestroyTcpClient
    <3>2. Moves
      BY <3>1, EndedStays
    <3> QED BY <2>1, <3>1, <3>2, BrowserLost
  <2>3. CASE ~(tcpClient # Nothing /\ sock[tcpClient] = "UP")
    <3>1. UNCHANGED <<sock, isConnected, buffer>>
      BY <1>15, <2>3 DEF WsClose, DestroyTcpClient
    <3> QED BY <2>1, <3>1, BrowserUntouched
  <2> QED BY <2>2, <2>3
<1>16. CASE UNCHANGED vars
  BY <1>16, BrowserUntouched DEF vars, gatewayVars
<1> QED
  BY <1>1, <1>2, <1>3, <1>4, <1>5, <1>6, <1>7, <1>8, <1>9, <1>10, <1>11, <1>12,
     <1>13, <1>14, <1>15, <1>16 DEF Next, Dials



-----------------------------------------------------------------------------
\* Control, the order of the messages, and both ways of the stream.
IInv == Control /\ OrderOK /\ ServerSide /\ BrowserSide

LEMMA Initially == Init => IInv
BY ControlInit, OrderInit, ServerSideInit, BrowserInit DEF IInv

LEMMA EveryStep == IInv /\ [Next]_vars => IInv'
BY ControlStep, OrderStep, ServerSideStep, BrowserStep DEF IInv

(***************************************************************************)
(* The inductive invariant of the gateway: one promise in one place, a     *)
(* connection in use that is known to be up, messages written in the order *)
(* they came, and streams whose every byte is in its place.                *)
(***************************************************************************)
THEOREM GatewayInvariance == Spec => []IInv
<1>1. Init => IInv
  BY Initially
<1>2. IInv /\ [Next]_vars => IInv'
  BY EveryStep
<1> QED BY <1>1, <1>2, PTL DEF Spec

(***************************************************************************)
(* The variables of the gateway keep their types, nobody waits for a       *)
(* promise that is not pending, and less than a message is kept back.      *)
(***************************************************************************)
THEOREM GatewayTypes == Spec => []TypeOK
<1>1. IInv => TypeOK
  <2>1. SUFFICES ASSUME IInv  PROVE TypeOK
    OBVIOUS
  <2>2. StateOK /\ (waiting # <<>> => attempt) /\ Len(buffer) < Width
    BY <2>1 DEF IInv, Control, OrderOK, BrowserSide
  <2>3. {isConnected, attempt, isConnecting} \subseteq BOOLEAN
    BY <2>2 DEF StateOK
  <2> QED BY <2>2, <2>3 DEF TypeOK, StateOK
<1> QED BY <1>1, GatewayInvariance, PTL

(***************************************************************************)
(* isConnected always tells whether the connection in use is up, whatever  *)
(* fails, times out or is dialled again, and no second connection with     *)
(* listeners is up beside it.                                              *)
(***************************************************************************)
THEOREM ConnectedIsUp == Spec => []ConnectedMeansUp
<1>1. IInv => ConnectedMeansUp
  BY DEF IInv, Control
<1> QED BY <1>1, GatewayInvariance, PTL

(***************************************************************************)
(* The connections that stay up after their WebSocket has closed are those *)
(* that were established too late or belong to nobody.                     *)
(***************************************************************************)
THEOREM OnlyLateOnesStay == Spec => []OnlyLateOnesOutlive
<1>1. IInv => OnlyLateOnesOutlive
  BY DEF IInv, Control
<1> QED BY <1>1, GatewayInvariance, PTL

(***************************************************************************)
(* Messages are written to the server in the order in which the WebSocket  *)
(* brought them, each at most once, also those that had to wait.           *)
(***************************************************************************)
THEOREM ForwardsOnceInOrder == Spec => []ForwardedOnceInOrder
<1>1. IInv => ForwardedOnceInOrder
  BY DEF IInv, OrderOK, ForwardedOnceInOrder
<1> QED BY <1>1, GatewayInvariance, PTL

(***************************************************************************)
(* However TCP cuts the stream, the server handles a message of it once,   *)
(* in order, and when no byte of it is still on its way.                   *)
(***************************************************************************)
THEOREM HandlesWholeInOrder == Spec => []HandledWholeInOrder
<1>1. ASSUME IInv, NEW c \in Conns, NEW i \in 1..Len(handled[c]), handled[c][i] # Garbage
      PROVE  /\ \A j \in 1..(i - 1) : handled[c][j] < handled[c][i]
             /\ \A k \in 1..Len(up[c]) : up[c][k][1] # handled[c][i]
  <2>1. UpOK(c) /\ HandledOK(c)
    BY <1>1 DEF IInv, ServerSide
  <2>2. handled[c][i] \in Int
    BY <2>1, <1>1, ElementOfSeq DEF HandledOK
  <2>3. \A k \in 1..Len(up[c]) : up[c][k] \in StreamBytes
    BY <2>1, ElementOfSeq DEF UpOK
  <2>4. \A k \in 1..Len(up[c]) : up[c][k][1] \in Nat /\ handled[c][i] < up[c][k][1]
    BY <1>1, <2>1, <2>3 DEF HandledOK, StreamBytes
  <2> QED BY <1>1, <2>1, <2>2, <2>4 DEF HandledOK
<1>2. IInv => HandledWholeInOrder
  BY <1>1 DEF HandledWholeInOrder
<1> QED BY <1>2, GatewayInvariance, PTL

(***************************************************************************)
(* However TCP cuts the stream, the browser is shown the first so many     *)
(* messages of one connection, each whole and once.                        *)
(***************************************************************************)
THEOREM ShowsWhatWasSent == Spec => []ShownIsWhatWasSent
<1>1. IInv => ShownIsWhatWasSent
  BY DEF IInv, BrowserSide
<1> QED BY <1>1, GatewayInvariance, PTL
=============================================================================
