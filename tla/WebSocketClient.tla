--------------------------- MODULE WebSocketClient ---------------------------
(***************************************************************************)
(* The clients of a remote workspace's WebSocket                           *)
(* (workspaceContext/client.ts) and how the folder manager puts one in the *)
(* place of another (workspaceFolderManager.ts).  A client without a       *)
(* socket and without a timer has ended and is forgotten.                  *)
(***************************************************************************)
EXTENDS Naturals, FiniteSets

CONSTANTS Clients,        \* bound on the clients with a socket or a timer
          NoClient,
          MaxReconnects   \* maxReconnectAttempts, 5 in the code

ASSUME ClientAssumption == NoClient \notin Clients /\ MaxReconnects \in Nat

VARIABLES loggedIn,  \* the credentials provider has a token
          current,   \* workspaceState.webSocketClient
          sock,      \* the state of each client
          dropped    \* ghost: destroyed or replaced while closing or waiting to reconnect

sockets == <<current, sock, dropped>>

Closed == [st |-> "closed", tries |-> 0]

\* getWebsocketReadyState is CONNECTING or OPEN; it stays CONNECTING after a handshake is refused.
Live(c) == sock[c].st \in {"connecting", "refused", "open"}
isConnected == current # NoClient /\ sock[current].st = "open"

\* handleDisconnect
Disconnected(s) ==
    IF s.tries < MaxReconnects THEN [st |-> "backoff", tries |-> s.tries + 1] ELSE Closed

\* Without a token it counts as a disconnection.
connect(s) == IF loggedIn THEN [s EXCEPT !.st = "connecting"] ELSE Disconnected(s)

\* destroyClient: a socket closes for good, and a timer that is to reconnect goes on.
Destroyed(s) == IF s.st = "backoff" THEN [s EXCEPT !.tries = MaxReconnects] ELSE Closed

\* The current client is dropped when drop holds; clients that have ended are forgotten.
SetSock(s, drop) ==
    /\ sock' = s
    /\ LET left == {c \in Clients : drop /\ c = current /\ sock[c].st \in {"closing", "backoff"}}
       IN  dropped' = {c \in dropped \cup left : s[c] # Closed}

DestroyCurrent == SetSock([c \in Clients |-> IF c = current THEN Destroyed(sock[c]) ELSE sock[c]], TRUE)

\* resetWebSocketClient
ResetWebSocketClient == DestroyCurrent /\ current' = NoClient

\* A new client takes the place of the current one.
Replace ==
    /\ \E d \in Clients : sock[d] = Closed
    /\ LET c == CHOOSE d \in Clients : sock[d] = Closed IN
       current' = c /\ SetSock([sock EXCEPT ![c] = connect(Closed)], TRUE)

\* Mutant: a connection that is on its way is not waited for.
establishConnection_again == IF isConnected THEN UNCHANGED sockets ELSE Replace

\* The current client is kept when its socket is open or on its way, and not when it is closing.
establishConnection ==
    IF current # NoClient /\ Live(current) THEN UNCHANGED sockets ELSE Replace

\* Checks, polls and timers that overlap open one socket to the workspace between them, apart from
\* those of clients that were destroyed or replaced while they closed or waited to reconnect.
OneSocket == Cardinality({c \in Clients : Live(c)} \ dropped) <= 1
=============================================================================
