-------------------------- MODULE ConnectionProofs --------------------------
(***************************************************************************)
(* Proofs that a server does not hold connections twice.  McpManager, for  *)
(* any number of operations and connections: the mutex makes the operation *)
(* that connects the only one; it has dropped the client before, so that   *)
(* the open connections are the client or the one being set up, and the    *)
(* stray ones.  RemoteWorkspace (as W), for every number of clients, of    *)
(* intervals and of reconnections: however checks, polls, monitors and     *)
(* timers overlap, a client that is not the current one has no socket,     *)
(* unless it was dropped while it closed or waited to reconnect.           *)
(***************************************************************************)
EXTENDS McpManager, WebSocketClient, FiniteSetTheorems, TLAPS

TaskType == task \in [Tasks -> [op : Ops, at : Awaits, conn : Conns \cup {None},
                                seenPid : Conns \cup {None}]]

MapType ==
    /\ client \in Conns \cup {None} /\ pid \in Conns \cup {None}
    /\ live \subseteq Conns /\ late \subseteq live /\ broken \in BOOLEAN

\* serverInitMutexes: one initialisation at a time.
Exclusive == \A t, u \in Tasks :
    task[t].at \in Initializing /\ task[u].at \in Initializing => t = u

\* The connection being set up is open, is nobody else's, and there is no client beside it.
SetUp == \A t \in Tasks : task[t].at = "connecting" =>
    /\ client = None
    /\ task[t].conn \in live \ late
    /\ task[t].conn # pid

\* A connection that is open and known is the client, or is being set up.
Known == \A c \in live \ (late \cup lost) :
    c = client \/ \E t \in Tasks : task[t].at = "connecting" /\ task[t].conn = c

\* A client that is closed will be dropped by an operation that waits for the close, unless the
\* close was rejected.
Closing == {"cleanup", "failing", "removeClose", "permClose", "closing"}
OpenClient == client # None =>
    client \notin late /\ (client \in live \/ broken \/ \E t \in Tasks : task[t].at \in Closing)

\* The tools are listed for the client that was set up, unless it was dropped meanwhile.
Listing == \A t \in Tasks : task[t].at = "listing" => tools = {} /\ client \in {None, task[t].conn}

\* A client whose close was rejected, or that a failed initialisation closes, is not open.
Broken == /\ broken => client \notin live
          /\ \A t \in Tasks : task[t].at = "failing" => client \notin live

\* The tools are the client's once they are listed, while the client is a working one.
OwnTools == client # None =>
    tools = {client} \/ broken \/ \E t \in Tasks : task[t].at \in {"listing", "failing"}

ConnInv == /\ TaskType /\ MapType /\ Exclusive /\ SetUp /\ Known
           /\ OpenClient /\ Listing /\ Broken /\ OwnTools

\* The tools of a disabled server will be taken back by a change of permission in progress.
Permission == {"permSave", "permUnsave", "permClose"}
ToolsInv ==
    /\ mcpState \in BOOLEAN
    /\ ~mcpState => registered = {}
    /\ cfg = "off" => registered = {} \/ \E t \in Tasks : task[t].at \in Permission

(***************************************************************************)
(* What the helpers do to the operation in progress                        *)
(***************************************************************************)
Moves(t, a) == task'[t].at = a /\ \A u \in Tasks \ {t} : task'[u] = task[u]

LEMMA SuspendMoves ==
    ASSUME TaskType, NEW t \in Tasks, NEW a \in Awaits, Suspend(t, a)
    PROVE  TaskType' /\ Moves(t, a) /\ task'[t].conn = task[t].conn
BY DEF TaskType, Suspend, Moves

LEMMA EndMoves ==
    ASSUME TaskType, NEW t \in Tasks, End(t)
    PROVE  TaskType' /\ Moves(t, "idle")
BY DEF TaskType, End, Moves, Idle, Ops, Awaits

LEMMA StartMoves ==
    ASSUME TaskType, NEW t \in Tasks, NEW op \in Ops, NEW a \in Awaits, Start(t, op, a)
    PROVE  TaskType' /\ Moves(t, a) /\ task[t].at = "idle"
BY Zenon DEF TaskType, Start, At, Moves, Idle

LEMMA ResetMoves ==
    ASSUME TaskType, NEW t \in Tasks, NEW a \in Awaits,
           task' = [task EXCEPT ![t] = [Idle EXCEPT !.at = a]]
    PROVE  TaskType' /\ Moves(t, a)
BY DEF TaskType, Moves, Idle, Ops

LEMMA FinishMoves ==
    ASSUME TaskType, NEW t \in Tasks, Finish(t)
    PROVE  /\ TaskType'
           /\ Moves(t, "idle") \/ Moves(t, "unsave")
<1>1. "unsave" \in Awaits
    BY DEF Awaits
<1>2. task' = [task EXCEPT ![t] = [Idle EXCEPT !.at = "unsave"]] \/ End(t)
    BY DEF Finish
<1> QED BY <1>1, <1>2, ResetMoves, EndMoves

LEMMA InitDoneMoves ==
    ASSUME TaskType, NEW t \in Tasks, NEW e \in BOOLEAN, InitDone(t, e)
    PROVE  /\ TaskType'
           /\ Moves(t, "idle") \/ Moves(t, "unsave")
           /\ emitToolsChanged \/ registered' = registered
<1>1. Finish(t) /\ (emitToolsChanged \/ registered' = registered)
    BY DEF InitDone
<1> QED BY <1>1, FinishMoves

(***************************************************************************)
(* The steps that leave the connections alone, close one, or drop one      *)
(***************************************************************************)
LEMMA Aside ==
    ASSUME ConnInv, TaskType', NEW t \in Tasks, NEW a, Moves(t, a), a \notin Initializing,
           task[t].at \notin Closing, task[t].at \notin {"connecting", "listing"},
           UNCHANGED <<client, pid, tools, live, late, lost, broken>>
    PROVE  ConnInv'
<1> USE DEF Moves
<1>1. MapType' /\ Exclusive'
    BY DEF ConnInv, MapType, Exclusive
<1>2. SetUp' /\ Listing'
    BY DEF ConnInv, SetUp, Listing, Initializing
<1>3. Known'
    BY DEF ConnInv, Known
<1>4. OpenClient'
    BY DEF ConnInv, OpenClient
<1>5. OwnTools' /\ Broken'
    BY DEF ConnInv, OwnTools, Broken, Closing, Initializing
<1> QED BY <1>1, <1>2, <1>3, <1>4, <1>5 DEF ConnInv

LEMMA Closes ==
    ASSUME ConnInv, TaskType', NEW t \in Tasks, NEW a \in Closing, Moves(t, a), a \notin Initializing,
           task[t].at \notin Initializing,
           NEW S, S \subseteq {client, pid},
           live' = live \ S, late' = late \ S, lost \cap live' \subseteq lost',
           UNCHANGED <<client, pid, tools, broken>>
    PROVE  ConnInv'
<1> USE DEF Moves
<1>1. MapType' /\ Exclusive'
    BY DEF ConnInv, MapType, Exclusive
<1>2. SetUp'
    <2> SUFFICES ASSUME NEW u \in Tasks, task'[u].at = "connecting"
                 PROVE  client' = None /\ task'[u].conn \in live' \ late' /\ task'[u].conn # pid'
        BY DEF SetUp
    <2>1. u # t /\ task'[u] = task[u]
        BY DEF Initializing
    <2>2. client = None /\ task[u].conn \in live \ late /\ task[u].conn # pid
        BY <2>1 DEF ConnInv, SetUp
    <2>3. task[u].conn # None
        BY <2>2, McpAssumption DEF ConnInv, MapType
    <2> QED BY <2>1, <2>2, <2>3
<1>3. Listing'
    BY DEF ConnInv, Listing, Initializing
<1>4. Known'
    BY DEF ConnInv, Known, Initializing
<1>5. OpenClient'
    BY DEF ConnInv, OpenClient
<1>6. OwnTools' /\ Broken'
    BY DEF ConnInv, OwnTools, Broken, Initializing
<1> QED BY <1>1, <1>2, <1>3, <1>4, <1>5, <1>6 DEF ConnInv

LEMMA Drops ==
    ASSUME ConnInv, TaskType', NEW t \in Tasks, NEW a, Moves(t, a), a \notin Initializing,
           task[t].at \notin Initializing,
           DropClient, UNCHANGED <<live, late>>, pid' \in {pid, None}, tools' \in {tools, {}}
    PROVE  ConnInv'
<1> USE DEF Moves, DropClient
<1>1. MapType' /\ Exclusive'
    BY Zenon DEF ConnInv, MapType, Exclusive
<1>2. SetUp'
    BY McpAssumption DEF ConnInv, SetUp, MapType, Initializing
<1>3. Listing'
    BY DEF ConnInv, Listing, Initializing
<1>4. Known'
    BY DEF ConnInv, Known, Initializing
<1>5. OpenClient' /\ OwnTools'
    BY DEF OpenClient, OwnTools
<1>6. Broken'
    BY McpAssumption DEF ConnInv, MapType, Broken
<1> QED BY <1>1, <1>2, <1>3, <1>4, <1>5, <1>6 DEF ConnInv

LEMMA Rejected ==
    ASSUME ConnInv, TaskType', NEW t \in Tasks, NEW a, Moves(t, a), a \notin Initializing,
           task[t].at \in {"failing", "removeClose", "permClose"},
           CloseRejected, UNCHANGED <<client, pid, tools>>
    PROVE  ConnInv'
<1> USE DEF Moves
<1>1. /\ UNCHANGED <<live, late, lost>>
      /\ broken' \in BOOLEAN /\ (broken' <=> client # None /\ client \notin live)
    BY Zenon DEF CloseRejected
<1>2. MapType' /\ Exclusive'
    BY <1>1 DEF ConnInv, MapType, Exclusive
<1>3. SetUp' /\ Listing' /\ Broken'
    BY <1>1 DEF ConnInv, SetUp, Listing, Broken, Initializing
<1>4. Known'
    BY <1>1 DEF ConnInv, Known
<1>5. OpenClient'
    BY <1>1 DEF ConnInv, OpenClient
<1>6. OwnTools'
    BY <1>1 DEF ConnInv, OwnTools, Broken
<1> QED BY <1>2, <1>3, <1>4, <1>5, <1>6 DEF ConnInv

(***************************************************************************)
(* The initialisation                                                      *)
(***************************************************************************)
LEMMA ConnectInv ==
    ASSUME ConnInv, NEW t \in Tasks, NEW old, Connect(t, old),
           \A u \in Tasks \ {t} : task[u].at \notin Initializing,
           task[t].at # "connecting"
    PROVE  ConnInv' /\ Moves(t, "connecting")
<1>1. PICK c \in Conns \ InUse :
          /\ task' = [task EXCEPT ![t] = [@ EXCEPT !.at = "connecting", !.conn = c, !.seenPid = None]]
          /\ live' = (live \ {old}) \cup {c}
    BY Zenon DEF Connect
<1>2. c \notin live /\ c # pid /\ c # None
    BY McpAssumption DEF InUse
<1>3. TaskType' /\ Moves(t, "connecting") /\ task'[t].conn = c
    BY <1>1, ZenonT(40) DEF ConnInv, TaskType, Moves, Awaits, Initializing
<1>4. /\ client' = None /\ late' = late \ {old} /\ pid' \in {pid, None} /\ tools' = tools
      /\ lost' = (lost \cup {client}) \cap live' /\ broken' = FALSE
    BY DEF Connect, DropClient
<1> USE DEF Moves
<1>5. MapType'
    BY <1>1, <1>4, Zenon DEF ConnInv, MapType
<1>6. Exclusive' /\ Listing'
    BY <1>3 DEF Exclusive, Listing, Initializing
<1>7. SetUp'
    BY <1>1, <1>2, <1>3, <1>4 DEF ConnInv, MapType, SetUp, Initializing
<1>8. Known'
    <2> SUFFICES ASSUME NEW d \in live' \ (late' \cup lost')
                 PROVE  \E u \in Tasks : task'[u].at = "connecting" /\ task'[u].conn = d
        BY DEF Known
    <2>1. CASE d = c
        BY <2>1, <1>3
    <2>2. CASE d # c
        <3>1. d \in live \ (late \cup lost) /\ d # client
            BY <2>2, <1>1, <1>4
        <3> QED BY <3>1 DEF ConnInv, Known, Initializing
    <2> QED BY <2>1, <2>2
<1>9. OpenClient' /\ OwnTools'
    BY <1>4 DEF OpenClient, OwnTools
<1>10. Broken'
    BY <1>3, <1>4 DEF Broken, Initializing
<1> QED BY <1>3, <1>5, <1>6, <1>7, <1>8, <1>9, <1>10 DEF ConnInv

LEMMA CleanUpInv ==
    ASSUME ConnInv, NEW t \in Tasks, CleanUp(t),
           \A u \in Tasks \ {t} : task[u].at \notin Initializing,
           task[t].at \in {"lock", "consent"}
    PROVE  ConnInv' /\ \E a \in Awaits : Moves(t, a)
<1>1. CASE client = None
    BY <1>1, ConnectInv DEF CleanUp, Awaits, Initializing
<1>2. CASE client # None
    <2>1. /\ task' = [task EXCEPT ![t] = [@ EXCEPT !.at = "cleanup", !.seenPid = pid]]
          /\ live' = live \ {client} /\ late' = late \ {client}
          /\ UNCHANGED <<client, pid, tools, lost, broken>>
        BY <1>2 DEF CleanUp, CloseClient, maps
    <2>2. pid \in Conns \cup {None}
        BY DEF ConnInv, MapType
    <2>3. TaskType' /\ Moves(t, "cleanup")
        BY <2>1, <2>2, ZenonT(40) DEF ConnInv, TaskType, Moves, Awaits, Initializing
    <2> USE DEF Moves
    <2>4. MapType' /\ OpenClient'
        BY <2>1, <2>3 DEF ConnInv, MapType, OpenClient, Closing
    <2>5. Exclusive' /\ SetUp' /\ Listing'
        BY <2>3 DEF Exclusive, SetUp, Listing, Initializing
    <2>6. Known'
        BY <2>1, <2>3 DEF ConnInv, Known
    <2>7. OwnTools' /\ Broken'
        BY <2>1, <2>3 DEF ConnInv, OwnTools, Broken
    <2>8. "cleanup" \in Awaits
        BY DEF Awaits, Initializing
    <2> QED BY <2>3, <2>4, <2>5, <2>6, <2>7, <2>8 DEF ConnInv
<1> QED BY <1>1, <1>2

LEMMA GiveUpInv ==
    ASSUME ConnInv, NEW t \in Tasks, task[t].at \in Initializing,
           NEW alive \in SUBSET live, NEW timedOut, GiveUp(t, alive, timedOut),
           task[t].at = "connecting" => task[t].conn \notin alive \ timedOut
    PROVE  /\ ConnInv'
           /\ Moves(t, "idle") \/ Moves(t, "unsave")
           /\ emitToolsChanged \/ registered' = registered
<1>1. PICK benign \in BOOLEAN : InitDone(t, ~benign)
    BY DEF GiveUp
<1>2. PICK a \in {"idle", "unsave"} : Moves(t, a)
    BY <1>1, InitDoneMoves, Zenon DEF ConnInv
<1>3. TaskType' /\ (emitToolsChanged \/ registered' = registered)
    BY <1>1, InitDoneMoves, Zenon DEF ConnInv
<1>4. /\ live' = alive \ {pid} /\ late' = (late \cup timedOut) \cap live'
      /\ client' = None /\ pid' = None /\ tools' = {}
      /\ lost' = (lost \cup {client}) \cap live' /\ broken' = FALSE
    BY DEF GiveUp, DropClient
<1>5. \A u \in Tasks : task'[u].at \notin Initializing
    BY <1>2 DEF ConnInv, Exclusive, Moves, Initializing
<1>6. MapType'
    BY <1>4, Zenon DEF ConnInv, MapType
<1>7. Exclusive' /\ SetUp' /\ Listing' /\ Broken' /\ OpenClient' /\ OwnTools'
    BY <1>4, <1>5 DEF Exclusive, SetUp, Listing, Broken, OpenClient, OwnTools, Initializing
<1>8. Known'
    <2> SUFFICES ASSUME NEW d \in live' \ (late' \cup lost') PROVE FALSE
        BY DEF Known
    <2>1. d \in live \ (late \cup lost) /\ d # client /\ d \in alive \ timedOut
        BY <1>4
    <2>2. PICK u \in Tasks : task[u].at = "connecting" /\ task[u].conn = d
        BY <2>1 DEF ConnInv, Known
    <2>3. u = t
        BY <2>2 DEF ConnInv, Exclusive, Initializing
    <2> QED BY <2>1, <2>2, <2>3
<1> QED BY <1>2, <1>3, <1>6, <1>7, <1>8 DEF ConnInv

LEMMA AcquireInv ==
    ASSUME ConnInv, NEW t \in Tasks, Acquire(t) \/ AcquireLost(t) \/ Allowed(t) \/ NotAllowed(t)
    PROVE  ConnInv'
<1> USE DEF At
<1>1. ASSUME NEW e \in BOOLEAN, InitDone(t, e), UNCHANGED <<client, pid, tools, live, late, lost, broken>>,
             task[t].at \in {"lock", "consent"}
      PROVE  ConnInv'
    <2>1. PICK a \in {"idle", "unsave"} : Moves(t, a)
        BY <1>1, InitDoneMoves DEF ConnInv
    <2>2. TaskType'
        BY <1>1, InitDoneMoves DEF ConnInv
    <2> QED BY <1>1, <2>1, <2>2, Aside DEF Closing, Initializing
<1>2. CASE Acquire(t)
    <2>1. task[t].at = "lock" /\ \A u \in Tasks : task[u].at \notin Initializing
        BY <1>2 DEF Acquire
    <2>2. CASE CleanUp(t)
        BY <2>1, <2>2, CleanUpInv
    <2>3. CASE Suspend(t, "consent") /\ UNCHANGED <<maps, live, late, lost, broken>>
        <3>1. TaskType' /\ Moves(t, "consent")
            BY <2>3, SuspendMoves DEF ConnInv, Awaits, Initializing
        <3> USE DEF Moves
        <3>2. UNCHANGED <<client, pid, tools, live, late, lost, broken>>
            BY <2>3 DEF maps
        <3>3. MapType' /\ Exclusive' /\ SetUp' /\ Listing'
            BY <2>1, <3>1, <3>2 DEF ConnInv, MapType, Exclusive, SetUp, Listing, Initializing
        <3>4. Known'
            BY <2>1, <3>1, <3>2 DEF ConnInv, Known, Initializing
        <3>5. OpenClient' /\ OwnTools' /\ Broken'
            BY <2>1, <3>1, <3>2 DEF ConnInv, OpenClient, OwnTools, Broken, Closing
        <3> QED BY <3>1, <3>3, <3>4, <3>5 DEF ConnInv
    <2>4. CASE InitDone(t, FALSE) /\ UNCHANGED <<client, pid, tools, live, late, lost, broken>>
        BY <2>1, <2>4, <1>1, Zenon
    <2> QED BY <1>2, <2>2, <2>3, <2>4, Zenon DEF Acquire
<1>3. CASE AcquireLost(t)
    <2>1. TaskType' /\ Moves(t, "idle")
        BY <1>3, EndMoves DEF AcquireLost, ConnInv
    <2> QED BY <1>3, <2>1, Aside DEF AcquireLost, Closing, Initializing
<1>4. CASE Allowed(t)
    <2>1. task[t].at = "consent" /\ \A u \in Tasks \ {t} : task[u].at \notin Initializing
        BY <1>4 DEF Allowed, ConnInv, Exclusive, Initializing
    <2> QED BY <1>4, <2>1, CleanUpInv DEF Allowed
<1>5. CASE NotAllowed(t)
    BY <1>5, <1>1, Zenon DEF NotAllowed
<1> QED BY <1>2, <1>3, <1>4, <1>5

LEMMA ConnectedInv ==
    ASSUME ConnInv, NEW t \in Tasks, CleanedUp(t) \/ Connected(t) \/ Listed(t)
    PROVE  ConnInv'
<1> USE DEF At
<1>1. CASE CleanedUp(t)
    <2>1. task[t].at = "cleanup" /\ \A u \in Tasks \ {t} : task[u].at \notin Initializing
        BY <1>1 DEF CleanedUp, ConnInv, Exclusive, Initializing
    <2> QED BY <1>1, <2>1, ConnectInv DEF CleanedUp
<1>2. CASE Connected(t)
    <2> DEFINE c == task[t].conn
    <2>1. /\ task[t].at = "connecting"
          /\ client' = c /\ pid' \in {pid, c} /\ tools' = {} /\ broken' = FALSE
          /\ UNCHANGED <<live, late, lost>>
        BY <1>2 DEF Connected
    <2>2. TaskType' /\ Moves(t, "listing") /\ task'[t].conn = c
        BY <1>2, SuspendMoves DEF Connected, ConnInv, Awaits, Initializing
    <2>3. \A u \in Tasks \ {t} : task[u].at \notin Initializing /\ task'[u].at \notin Initializing
        BY <2>1, <2>2 DEF ConnInv, Exclusive, Initializing, Moves
    <2>4. client = None /\ c \in live \ late
        BY <2>1 DEF ConnInv, SetUp
    <2> HIDE DEF c
    <2> USE DEF Moves
    <2>5. MapType' /\ OpenClient' /\ OwnTools'
        BY <2>1, <2>2, <2>4, Zenon DEF ConnInv, MapType, OpenClient, OwnTools
    <2>6. Exclusive' /\ SetUp' /\ Listing' /\ Broken'
        BY <2>1, <2>2, <2>3 DEF Exclusive, SetUp, Listing, Broken, Initializing
    <2>7. Known'
        <3> SUFFICES ASSUME NEW d \in live \ (late \cup lost) PROVE d = c
            BY <2>1 DEF Known
        <3>1. d # client
            BY <2>4, McpAssumption DEF ConnInv, MapType
        <3> QED BY <3>1, <2>3 DEF ConnInv, Known, Initializing, c
    <2> QED BY <2>2, <2>5, <2>6, <2>7 DEF ConnInv
<1>3. CASE Listed(t)
    <2>1. /\ task[t].at = "listing" /\ tools' = tools \cup {task[t].conn}
          /\ UNCHANGED <<client, pid, live, late, lost, broken>>
        BY <1>3 DEF Listed
    <2>2. PICK a \in {"idle", "unsave"} : Moves(t, a)
        BY <1>3, InitDoneMoves, Zenon DEF Listed, ConnInv
    <2>3. TaskType'
        BY <1>3, InitDoneMoves, Zenon DEF Listed, ConnInv
    <2>4. \A u \in Tasks : task'[u].at \notin Initializing
        BY <2>1, <2>2 DEF ConnInv, Exclusive, Initializing, Moves
    <2>5. tools = {} /\ client \in {None, task[t].conn}
        BY <2>1 DEF ConnInv, Listing
    <2> USE DEF Moves
    <2>6. MapType' /\ Exclusive' /\ SetUp' /\ Listing' /\ Broken'
        BY <2>1, <2>4 DEF ConnInv, MapType, Exclusive, SetUp, Listing, Broken, Initializing
    <2>7. Known'
        BY <2>1, <2>2 DEF ConnInv, Known
    <2>8. OpenClient'
        BY <2>1, <2>2 DEF ConnInv, OpenClient, Closing
    <2>9. OwnTools'
        BY <2>1, <2>5 DEF OwnTools
    <2> QED BY <2>3, <2>6, <2>7, <2>8, <2>9 DEF ConnInv
<1> QED BY <1>1, <1>2, <1>3

LEMMA FailedInv ==
    ASSUME ConnInv, NEW t \in Tasks,
           ConnectFails(t) \/ ConnectTimesOut(t) \/ ListFails(t) \/ GaveUp(t) \/ NotGivenUp(t)
    PROVE  ConnInv'
<1> USE DEF At
<1>1. CASE ConnectFails(t)
    <2>1. task[t].at = "connecting" /\ client = None
        BY <1>1 DEF ConnectFails, ConnInv, SetUp
    <2>2. GiveUp(t, live \ {task[t].conn}, {})
        BY <1>1, <2>1 DEF ConnectFails, InitFails
    <2> QED BY <2>1, <2>2, GiveUpInv DEF Initializing
<1>2. CASE ConnectTimesOut(t)
    <2>1. task[t].at = "connecting" /\ client = None
        BY <1>2 DEF ConnectTimesOut, ConnInv, SetUp
    <2>2. GiveUp(t, live, {task[t].conn})
        BY <1>2, <2>1 DEF ConnectTimesOut, InitFails
    <2> QED BY <2>1, <2>2, GiveUpInv DEF Initializing
<1>3. CASE ListFails(t) /\ client = None
    <2>1. task[t].at = "listing" /\ GiveUp(t, live, {})
        BY <1>3 DEF ListFails, InitFails
    <2> QED BY <2>1, GiveUpInv, Zenon DEF Initializing
<1>4. CASE ListFails(t) /\ client # None
    <2>1. /\ task[t].at = "listing"
          /\ task' = [task EXCEPT ![t] = [@ EXCEPT !.at = "failing", !.conn = None]]
          /\ live' = live \ {client} /\ late' = late \cap live'
          /\ UNCHANGED <<client, pid, tools, lost, broken>>
        BY <1>4 DEF ListFails, InitFails, maps
    <2>2. TaskType' /\ Moves(t, "failing")
        BY <2>1, ZenonT(40) DEF ConnInv, TaskType, Moves, Awaits, Initializing
    <2> USE DEF Moves
    <2>3. MapType' /\ OpenClient' /\ OwnTools'
        BY <2>1, <2>2 DEF ConnInv, MapType, OpenClient, OwnTools, Closing
    <2>4. Exclusive' /\ SetUp' /\ Listing' /\ Broken'
        BY <2>1, <2>2 DEF ConnInv, Exclusive, SetUp, Listing, Broken, Initializing
    <2>5. Known'
        BY <2>1, <2>2 DEF ConnInv, Known
    <2> QED BY <2>2, <2>3, <2>4, <2>5 DEF ConnInv
<1>5. CASE GaveUp(t)
    <2>1. task[t].at = "failing" /\ GiveUp(t, live, {})
        BY <1>5 DEF GaveUp
    <2> QED BY <2>1, GiveUpInv, Zenon DEF Initializing
<1>6. CASE NotGivenUp(t)
    <2>1. task[t].at = "failing" /\ CloseRejected /\ UNCHANGED <<client, pid, tools>> /\ Finish(t)
        BY <1>6 DEF NotGivenUp
    <2>2. \E a \in {"idle", "unsave"} : Moves(t, a) /\ TaskType'
        BY <2>1, FinishMoves DEF ConnInv
    <2> QED BY <2>1, <2>2, Rejected DEF Initializing
<1> QED BY <1>1, <1>2, <1>3, <1>4, <1>5, <1>6

LEMMA LateInv ==
    ASSUME ConnInv, NEW c \in Conns, LateConnection(c)
    PROVE  ConnInv'
<1>1. /\ c \in late /\ live' \in {live, live \ {c}} /\ late' \subseteq late /\ late' \subseteq live'
      /\ pid' \in {pid, c} /\ UNCHANGED <<task, client, tools, broken>>
      /\ live' \ (late' \cup lost') \subseteq live \ (late \cup lost)
    BY DEF LateConnection, ConnInv, MapType
<1>2. TaskType' /\ MapType' /\ Exclusive' /\ Listing' /\ Broken' /\ OwnTools'
    BY <1>1 DEF ConnInv, TaskType, MapType, Exclusive, Listing, Broken, OwnTools
<1>3. SetUp' /\ OpenClient'
    BY <1>1 DEF ConnInv, SetUp, OpenClient
<1>4. Known'
    BY <1>1 DEF ConnInv, Known
<1> QED BY <1>2, <1>3, <1>4 DEF ConnInv

(***************************************************************************)
(* The other operations                                                    *)
(***************************************************************************)
LEMMA ServerStepInv ==
    ASSUME ConnInv, NEW t \in Tasks, ServerStep(t)
    PROVE  ConnInv'
<1> DEFINE Quiet == UNCHANGED <<client, pid, tools, live, late, lost, broken>>
<1> USE DEF At
<1>1. CASE AddServer(t)
    <2>1. task[t].at = "form" /\ Quiet
        BY <1>1, Zenon DEF AddServer
    <2>2. \E a \in {"idle", "unsave", "addSave"} : Moves(t, a) /\ TaskType'
        <3>1. InitDone(t, TRUE) \/ Suspend(t, "addSave")
            BY <1>1, Zenon DEF AddServer
        <3>2. "addSave" \in Awaits
            BY DEF Awaits
        <3> QED BY <3>1, <3>2, InitDoneMoves, SuspendMoves, Zenon DEF ConnInv
    <2> QED BY <2>1, <2>2, Aside DEF Closing, Initializing
<1>2. CASE AddSaved(t)
    <2>1. task[t].at = "addSave" /\ Quiet /\ Suspend(t, "lock")
        BY <1>2 DEF AddSaved, RequestInit
    <2>2. Moves(t, "lock") /\ TaskType'
        BY <2>1, SuspendMoves DEF ConnInv, Awaits
    <2> QED BY <2>1, <2>2, Aside DEF Closing, Initializing
<1>3. CASE Unsaved(t)
    <2>1. task[t].at = "unsave" /\ Quiet /\ End(t)
        BY <1>3 DEF Unsaved, maps
    <2> QED BY <2>1, EndMoves, Aside DEF Closing, Initializing, ConnInv
<1>4. CASE RemoveClosed(t)
    <2>1. Moves(t, "removeConsent") /\ TaskType'
        BY <1>4, SuspendMoves DEF RemoveClosed, ConnInv, Awaits
    <2> QED BY <1>4, <2>1, Drops DEF RemoveClosed, Initializing
<1>5. CASE ConsentRemoved(t)
    <2>1. task[t].at = "removeConsent" /\ Quiet /\ Suspend(t, "removeSave")
        BY <1>5 DEF ConsentRemoved, maps
    <2>2. Moves(t, "removeSave") /\ TaskType'
        BY <2>1, SuspendMoves DEF ConnInv, Awaits
    <2> QED BY <2>1, <2>2, Aside DEF Closing, Initializing
<1>6. CASE Removed(t)
    <2>1. task[t].at = "removeSave" /\ Quiet /\ (Suspend(t, "addSave") \/ End(t))
        BY <1>6 DEF Removed
    <2>2. \E a \in {"idle", "addSave"} : Moves(t, a) /\ TaskType'
        BY <2>1, SuspendMoves, EndMoves DEF ConnInv, Awaits
    <2> QED BY <2>1, <2>2, Aside DEF Closing, Initializing
<1>7. CASE PermissionSaved(t)
    <2>1. /\ task[t].at \in {"permSave", "permUnsave"}
          /\ UNCHANGED <<client, pid, tools, lost, broken>>
        BY <1>7 DEF PermissionSaved
    <2>2. CASE CloseClient /\ task' = [task EXCEPT ![t] = [Idle EXCEPT !.at = "permClose"]]
        <3>1. Moves(t, "permClose") /\ TaskType'
            BY <2>2, ResetMoves, Zenon DEF ConnInv, Awaits
        <3>2. {client} \subseteq {client, pid} /\ live' = live \ {client} /\ late' = late \ {client}
            BY <2>2 DEF CloseClient
        <3>3. "permClose" \in Closing
            BY DEF Closing
        <3> QED BY <2>1, <3>1, <3>2, <3>3, Closes, Zenon DEF Initializing
    <2>3. CASE /\ End(t) \/ Suspend(t, "lock") \/ Suspend(t, "lockLost")
               /\ UNCHANGED <<live, late>>
        <3>1. \E a \in {"idle", "lock", "lockLost"} : Moves(t, a) /\ TaskType'
            BY <2>3, SuspendMoves, EndMoves DEF ConnInv, Awaits
        <3> QED BY <2>1, <2>3, <3>1, Aside DEF Closing, Initializing
    <2> QED BY <1>7, <2>2, <2>3 DEF PermissionSaved
<1>8. CASE PermissionClosed(t)
    <2>1. Moves(t, "idle") /\ TaskType'
        BY <1>8, EndMoves DEF PermissionClosed, ConnInv
    <2> QED BY <1>8, <2>1, Drops DEF PermissionClosed, Initializing
<1>9. CASE AllClosed(t)
    <2>1. Suspend(t, "loading") \/ End(t)
        BY <1>9 DEF AllClosed
    <2>2. \E a \in {"loading", "idle"} : Moves(t, a) /\ TaskType'
        BY <2>1, SuspendMoves, EndMoves DEF ConnInv, Awaits
    <2> QED BY <1>9, <2>2, Drops DEF AllClosed, Initializing
<1>10. CASE Loaded(t)
    <2>1. task[t].at = "loading" /\ Quiet /\ (End(t) \/ Suspend(t, "lock"))
        BY <1>10 DEF Loaded, RequestInit
    <2>2. \E a \in {"idle", "lock"} : Moves(t, a) /\ TaskType'
        BY <2>1, SuspendMoves, EndMoves DEF ConnInv, Awaits
    <2> QED BY <2>1, <2>2, Aside DEF Closing, Initializing
<1>11. CASE AddNotSaved(t)
    <2>1. task[t].at = "addSave" /\ Quiet /\ InitDone(t, TRUE)
        BY <1>11, Zenon DEF AddNotSaved
    <2>2. \E a \in {"idle", "unsave"} : Moves(t, a) /\ TaskType'
        BY <2>1, InitDoneMoves, Zenon DEF ConnInv
    <2> QED BY <2>1, <2>2, Aside DEF Closing, Initializing
<1>12. CASE RemoveFails(t)
    <2>1. /\ UNCHANGED <<client, pid, tools>> /\ Finish(t)
          /\ \/ task[t].at = "removeClose" /\ CloseRejected
             \/ task[t].at = "removeSave" /\ UNCHANGED <<live, late, lost, broken>>
        BY <1>12 DEF RemoveFails, maps
    <2>2. \E a \in {"idle", "unsave"} : Moves(t, a) /\ TaskType'
        BY <2>1, FinishMoves DEF ConnInv
    <2> QED BY <2>1, <2>2, Aside, Rejected DEF Closing, Initializing
<1>13. CASE PermissionFails(t)
    <2>1. /\ UNCHANGED <<client, pid, tools>> /\ End(t)
          /\ \/ task[t].at = "permClose" /\ CloseRejected
             \/ /\ task[t].at \in {"permSave", "permUnsave"}
                /\ UNCHANGED <<live, late, lost, broken>>
        BY <1>13 DEF PermissionFails
    <2>2. Moves(t, "idle") /\ TaskType'
        BY <2>1, EndMoves DEF ConnInv
    <2> QED BY <2>1, <2>2, Aside, Rejected DEF Closing, Initializing
<1> QED BY <1>1, <1>2, <1>3, <1>4, <1>5, <1>6, <1>7, <1>8, <1>9, <1>10, <1>11, <1>12, <1>13
        DEF ServerStep

LEMMA CloseInv ==
    ASSUME ConnInv, NEW t \in Tasks, NEW op \in Ops, Close(t, op)
    PROVE  ConnInv' /\ Moves(t, "closing") /\ task[t].at = "idle"
<1>1. Moves(t, "closing") /\ TaskType' /\ task[t].at = "idle"
    BY StartMoves DEF Close, ConnInv, Awaits
<1>2. {client, pid} \subseteq {client, pid} /\ "closing" \in Closing
    BY DEF Closing
<1>3. /\ live' = live \ {client, pid} /\ late' = late \ {client, pid} /\ lost \cap live' \subseteq lost'
      /\ UNCHANGED <<client, pid, tools, broken>>
    BY DEF Close, maps
<1> QED BY <1>1, <1>2, <1>3, Closes, Zenon DEF Initializing

LEMMA RequestInv ==
    ASSUME ConnInv, NEW t \in Tasks, Request(t)
    PROVE  ConnInv'
<1> DEFINE Quiet == UNCHANGED <<client, pid, tools, live, late, lost, broken>>
<1> USE DEF At
<1>1. CASE SaveForm(t)
    <2>1. Quiet /\ \E op \in Ops : Start(t, op, "form")
        BY <1>1 DEF SaveForm, maps, Ops
    <2>2. Moves(t, "form") /\ TaskType' /\ task[t].at = "idle"
        BY <2>1, StartMoves DEF ConnInv, Awaits
    <2> QED BY <2>1, <2>2, Aside DEF Closing, Initializing
<1>2. CASE RemoveServer(t)
    <2>1. task[t].at \in {"idle", "form"} /\ UNCHANGED <<client, pid, lost, broken>>
        BY <1>2 DEF RemoveServer
    <2>2. CASE End(t) /\ UNCHANGED <<tools, live, late>>
        BY <2>1, <2>2, EndMoves, Aside DEF Closing, Initializing, ConnInv
    <2>3. ASSUME NEW op \in Ops, NEW a \in {"removeClose", "removeConsent"},
                 task' = [task EXCEPT ![t] = [@ EXCEPT !.op = op, !.at = a]]
          PROVE  Moves(t, a) /\ TaskType'
        BY <2>3, ZenonT(40) DEF Moves, TaskType, ConnInv, Awaits
    <2>4. CASE /\ \E op \in Ops : task' = [task EXCEPT ![t] = [@ EXCEPT !.op = op,
                                                                        !.at = "removeClose"]]
               /\ CloseClient /\ UNCHANGED tools
        <3>1. Moves(t, "removeClose") /\ TaskType'
            BY <2>3, <2>4, Zenon
        <3>2. {client} \subseteq {client, pid} /\ live' = live \ {client} /\ late' = late \ {client}
            BY <2>4 DEF CloseClient
        <3>3. "removeClose" \in Closing
            BY DEF Closing
        <3> QED BY <2>1, <2>4, <3>1, <3>2, <3>3, Closes, Zenon DEF Initializing
    <2>5. CASE /\ \E op \in Ops : task' = [task EXCEPT ![t] = [@ EXCEPT !.op = op,
                                                                        !.at = "removeConsent"]]
               /\ client = None /\ tools' = {} /\ UNCHANGED <<live, late>>
        <3>1. Moves(t, "removeConsent") /\ TaskType'
            BY <2>3, <2>5, Zenon
        <3> USE DEF Moves
        <3>2. MapType' /\ Exclusive' /\ SetUp' /\ Listing' /\ Broken'
            BY <2>1, <2>5, <3>1 DEF ConnInv, MapType, Exclusive, SetUp, Listing, Broken, Initializing
        <3>3. Known'
            BY <2>1, <2>5, <3>1 DEF ConnInv, Known
        <3>4. OpenClient' /\ OwnTools'
            BY <2>1, <2>5 DEF OpenClient, OwnTools
        <3> QED BY <3>1, <3>2, <3>3, <3>4 DEF ConnInv
    <2>6. "delete" \in Ops /\ "edit" \in Ops
        BY DEF Ops
    <2> QED BY <1>2, <2>2, <2>4, <2>5, <2>6, Zenon DEF RemoveServer
<1>3. CASE \E op \in {"enable", "disable"} : UpdateServerPermission(t, op)
    <2>1. Quiet /\ (UNCHANGED task
                    \/ \E op \in Ops : Start(t, op, "permSave") \/ Start(t, op, "permUnsave"))
        BY <1>3 DEF UpdateServerPermission, Ops
    <2>2. CASE UNCHANGED task
        BY <2>1, <2>2 DEF ConnInv, TaskType, MapType, Exclusive, SetUp, Known, OpenClient, Listing,
                          Broken, OwnTools
    <2>3. CASE \E op \in Ops : Start(t, op, "permSave") \/ Start(t, op, "permUnsave")
        <3>1. \E a \in {"permSave", "permUnsave"} : Moves(t, a) /\ TaskType' /\ task[t].at = "idle"
            BY <2>3, StartMoves DEF ConnInv, Awaits
        <3> QED BY <2>1, <3>1, Aside, Zenon DEF Closing, Initializing
    <2> QED BY <2>1, <2>2, <2>3
<1>4. CASE Refresh(t) \/ McpDisabled(t)
    <2>1. \E op \in Ops : Close(t, op)
        BY <1>4 DEF Refresh, McpDisabled, Ops
    <2> QED BY <2>1, CloseInv
<1>5. CASE McpEnabled(t)
    <2>1. Quiet /\ Start(t, "mcpOn", "loading") /\ "mcpOn" \in Ops
        BY <1>5 DEF McpEnabled, maps, Ops
    <2>2. Moves(t, "loading") /\ TaskType' /\ task[t].at = "idle"
        BY <2>1, StartMoves DEF ConnInv, Awaits
    <2> QED BY <2>1, <2>2, Aside DEF Closing, Initializing
<1> QED BY <1>1, <1>2, <1>3, <1>4, <1>5 DEF Request

LEMMA NextConn == ConnInv /\ [Next]_vars => ConnInv'
<1> SUFFICES ASSUME ConnInv, [Next]_vars PROVE ConnInv'
    OBVIOUS
<1>1. CASE \E t \in Tasks : InitStep(t)
    BY <1>1, AcquireInv, ConnectedInv, FailedInv DEF InitStep
<1>2. CASE \E t \in Tasks : ServerStep(t) \/ Request(t)
    BY <1>2, ServerStepInv, RequestInv
<1>3. CASE \E c \in Conns : LateConnection(c)
    BY <1>3, LateInv
<1>4. CASE UNCHANGED vars
    BY <1>4 DEF vars, maps, ConnInv, TaskType, MapType, Exclusive, SetUp, Known, OpenClient, Listing,
                Broken, OwnTools
<1> QED BY <1>1, <1>2, <1>3, <1>4 DEF Next

(***************************************************************************)
(* The tools that are registered                                           *)
(***************************************************************************)
Others(t) == \A u \in Tasks \ {t} : task'[u] = task[u]

LEMMA FinishOthers ==
    ASSUME TaskType, NEW t \in Tasks, Finish(t)
    PROVE  Others(t)
BY DEF Finish, End, Others, TaskType

LEMMA InitDoneOthers ==
    ASSUME TaskType, NEW t \in Tasks, NEW e, InitDone(t, e)
    PROVE  Others(t) /\ (emitToolsChanged \/ registered' = registered)
BY FinishOthers DEF InitDone

LEMMA EmitsInv ==
    ASSUME ToolsInv, emitToolsChanged, UNCHANGED mcpState
    PROVE  ToolsInv'
<1>1. mcpState => (cfg' = "off" => registered' = {})
    BY DEF emitToolsChanged, Enabled
<1>2. ~mcpState => registered' = {}
    BY DEF emitToolsChanged, ToolsInv
<1> QED BY <1>1, <1>2 DEF ToolsInv

LEMMA KeepsInv ==
    ASSUME ToolsInv, NEW t \in Tasks, Others(t), UNCHANGED <<mcpState, registered>>,
           \/ cfg' # "off"
           \/ cfg' = cfg /\ task[t].at \notin Permission
           \/ task'[t].at \in Permission
    PROVE  ToolsInv'
BY DEF ToolsInv, Others

LEMMA InitStepTools ==
    ASSUME TaskType, ToolsInv, NEW t \in Tasks, InitStep(t)
    PROVE  ToolsInv'
<1> USE DEF At
<1>1. task[t].at \notin Permission
    BY Zenon DEF InitStep, Acquire, AcquireLost, Allowed, NotAllowed, CleanedUp, Connected, ConnectFails,
           ConnectTimesOut, Listed, ListFails, GaveUp, NotGivenUp, Permission
<1>2. UNCHANGED mcpState
    BY Zenon DEF InitStep, Acquire, AcquireLost, Allowed, NotAllowed, CleanedUp, Connected, ConnectFails,
           ConnectTimesOut, Listed, ListFails, GaveUp, NotGivenUp, InitFails
<1>3. ASSUME NEW old, Connect(t, old)
      PROVE  Others(t) /\ cfg' = cfg
    BY <1>3 DEF Connect, Others, TaskType
<1>4. ASSUME CleanUp(t)
      PROVE  Others(t) /\ cfg' = cfg
    BY <1>3, <1>4 DEF CleanUp, Others, TaskType, maps
<1>5. ASSUME NEW alive, NEW timedOut, GiveUp(t, alive, timedOut)
      PROVE  Others(t) /\ cfg' = cfg /\ (emitToolsChanged \/ registered' = registered)
    <2>1. cfg' = cfg /\ \E e : InitDone(t, e)
        BY <1>5 DEF GiveUp
    <2> QED BY <2>1, InitDoneOthers
<1>6. ASSUME NEW alive, NEW timedOut, InitFails(t, alive, timedOut)
      PROVE  Others(t) /\ cfg' = cfg /\ (emitToolsChanged \/ registered' = registered)
    BY <1>5, <1>6 DEF InitFails, Others, TaskType, maps
<1>7. Others(t) /\ cfg' = cfg /\ (emitToolsChanged \/ registered' = registered)
    <2>1. CASE Acquire(t) /\ Suspend(t, "consent")
        BY <2>1, Zenon DEF Acquire, CleanUp, Connect, InitDone, maps, Suspend, Others, TaskType
    <2>2. CASE Acquire(t) /\ CleanUp(t) /\ UNCHANGED registered
        BY <1>4, <2>2
    <2>3. CASE Acquire(t) /\ cfg' = cfg /\ InitDone(t, FALSE)
        BY <2>3, InitDoneOthers, Zenon
    <2>4. CASE Acquire(t)
        BY <2>1, <2>2, <2>3, <2>4, Zenon DEF Acquire
    <2>5. CASE AcquireLost(t)
        BY <2>5 DEF AcquireLost, End, Others, TaskType
    <2>6. CASE Allowed(t)
        BY <1>4, <2>6 DEF Allowed
    <2>7. CASE NotAllowed(t) \/ Listed(t)
        BY <2>7, InitDoneOthers, Zenon DEF NotAllowed, Listed
    <2>8. CASE CleanedUp(t)
        BY <1>3, <2>8 DEF CleanedUp
    <2>9. CASE Connected(t)
        BY <2>9 DEF Connected, Suspend, Others, TaskType
    <2>10. CASE ConnectFails(t) \/ ConnectTimesOut(t) \/ ListFails(t)
        BY <1>6, <2>10 DEF ConnectFails, ConnectTimesOut, ListFails
    <2>11. CASE GaveUp(t)
        BY <1>5, <2>11 DEF GaveUp
    <2>12. CASE NotGivenUp(t)
        BY <2>12, FinishOthers DEF NotGivenUp
    <2> QED BY <2>4, <2>5, <2>6, <2>7, <2>8, <2>9, <2>10, <2>11, <2>12 DEF InitStep
<1> QED BY <1>1, <1>2, <1>7, EmitsInv, KeepsInv

LEMMA ServerStepTools ==
    ASSUME TaskType, ToolsInv, NEW t \in Tasks, ServerStep(t)
    PROVE  ToolsInv'
<1> USE DEF At
<1>1. CASE AddServer(t) \/ AddNotSaved(t)
    <2>1. task[t].at \in {"form", "addSave"} /\ UNCHANGED <<cfg, mcpState>>
        BY <1>1, Zenon DEF AddServer, AddNotSaved
    <2>2. Others(t) /\ (emitToolsChanged \/ registered' = registered)
        BY <1>1, InitDoneOthers, Zenon DEF AddServer, AddNotSaved, Suspend, Others, TaskType
    <2> QED BY <2>1, <2>2, EmitsInv, KeepsInv DEF Permission
<1>2. CASE AddSaved(t) \/ Unsaved(t) \/ RemoveClosed(t) \/ ConsentRemoved(t) \/ AllClosed(t)
    <2>1. Others(t) /\ UNCHANGED <<mcpState, registered>>
        BY <1>2 DEF AddSaved, RequestInit, Unsaved, RemoveClosed, ConsentRemoved, AllClosed, Suspend,
                    End, Others, TaskType
    <2>2. cfg' # "off" \/ (cfg' = cfg /\ task[t].at \notin Permission)
        BY <1>2 DEF AddSaved, Unsaved, RemoveClosed, ConsentRemoved, AllClosed, maps, Permission
    <2> QED BY <2>1, <2>2, KeepsInv
<1>3. CASE Removed(t) \/ PermissionClosed(t) \/ PermissionFails(t)
    BY <1>3, EmitsInv, Zenon DEF Removed, PermissionClosed, PermissionFails
<1>4. CASE PermissionSaved(t)
    <2>1. UNCHANGED <<cfg, mcpState>>
        BY <1>4 DEF PermissionSaved
    <2>2. CASE emitToolsChanged
        BY <2>1, <2>2, EmitsInv
    <2>3. CASE ~emitToolsChanged
        <3>1. Others(t) /\ registered' = registered
            BY <1>4, <2>3 DEF PermissionSaved, Suspend, Others, TaskType
        <3>2. cfg # "off" \/ task'[t].at \in Permission
            BY <1>4, <2>3 DEF PermissionSaved, Permission, Idle, TaskType
        <3> QED BY <2>1, <3>1, <3>2, KeepsInv
    <2> QED BY <2>2, <2>3
<1>5. CASE Loaded(t)
    <2>1. UNCHANGED mcpState /\ cfg' = disk
        BY <1>5, Zenon DEF Loaded
    <2>2. CASE emitToolsChanged
        BY <2>1, <2>2, EmitsInv
    <2>3. CASE ~emitToolsChanged
        <3>1. Others(t) /\ registered' = registered /\ disk # "off"
            BY <1>5, <2>3 DEF Loaded, RequestInit, Suspend, End, Others, TaskType
        <3> QED BY <2>1, <3>1, KeepsInv
    <2> QED BY <2>2, <2>3
<1>6. CASE RemoveFails(t)
    BY <1>6, FinishOthers, KeepsInv DEF RemoveFails, maps, Permission
<1> QED BY <1>1, <1>2, <1>3, <1>4, <1>5, <1>6 DEF ServerStep

LEMMA RequestTools ==
    ASSUME TaskType, ToolsInv, NEW t \in Tasks, Request(t)
    PROVE  ToolsInv'
<1> USE DEF At
<1>1. CASE SaveForm(t) \/ RemoveServer(t) \/ Refresh(t)
    <2>1. Others(t) /\ UNCHANGED <<mcpState, registered, cfg>>
        BY <1>1 DEF SaveForm, RemoveServer, Refresh, Close, Start, End, Others, TaskType, maps
    <2>2. task[t].at \notin Permission
        BY <1>1 DEF SaveForm, RemoveServer, Refresh, Close, Start, Permission
    <2> QED BY <2>1, <2>2, KeepsInv
<1>2. ASSUME NEW op \in {"enable", "disable"}, UpdateServerPermission(t, op)
      PROVE  ToolsInv'
    <2>1. CASE cfg = "none"
        BY <1>2, <2>1, EmitsInv DEF UpdateServerPermission
    <2>2. CASE cfg # "none"
        <3>1. Others(t) /\ UNCHANGED <<mcpState, registered>>
            BY <1>2, <2>2 DEF UpdateServerPermission, Start, Others, TaskType
        <3>2. task'[t].at \in Permission
            BY <1>2, <2>2, ZenonT(40) DEF UpdateServerPermission, Start, Idle, TaskType, Permission
        <3> QED BY <3>1, <3>2, KeepsInv
    <2> QED BY <2>1, <2>2
<1>3. CASE McpDisabled(t)
    BY <1>3, Zenon DEF McpDisabled, ToolsInv
<1>4. CASE McpEnabled(t)
    BY <1>4 DEF McpEnabled, ToolsInv
<1> QED BY <1>1, <1>2, <1>3, <1>4 DEF Request

LEMMA NextTools == TaskType /\ ToolsInv /\ [Next]_vars => ToolsInv'
<1> SUFFICES ASSUME TaskType, ToolsInv, [Next]_vars PROVE ToolsInv'
    OBVIOUS
<1>1. CASE \E t \in Tasks : InitStep(t) \/ ServerStep(t) \/ Request(t)
    BY <1>1, InitStepTools, ServerStepTools, RequestTools
<1>2. CASE UNCHANGED <<task, cfg, mcpState, registered>>
    BY <1>2 DEF ToolsInv
<1> QED BY <1>1, <1>2 DEF Next, LateConnection, vars, maps

(***************************************************************************)
(* The theorems                                                            *)
(***************************************************************************)
IInv == ConnInv /\ ToolsInv

LEMMA InitIInv == Init => IInv
<1> SUFFICES ASSUME Init PROVE IInv
    OBVIOUS
<1>1. TaskType /\ \A t \in Tasks : task[t].at = "idle"
    BY DEF Init, Idle, TaskType, Ops, Awaits
<1>2. MapType /\ Exclusive /\ SetUp /\ Known
    BY <1>1, Zenon DEF Init, MapType, Exclusive, SetUp, Known, Initializing
<1>3. OpenClient /\ Listing /\ OwnTools /\ ToolsInv
    BY <1>1, Zenon DEF Init, OpenClient, Listing, OwnTools, ToolsInv
<1>4. Broken
    BY <1>1 DEF Init, Broken
<1> QED BY <1>1, <1>2, <1>3, <1>4 DEF IInv, ConnInv

LEMMA Inductive == Spec => []IInv
<1>1. IInv /\ [Next]_vars => IInv'
    BY NextConn, NextTools DEF IInv, ConnInv
<1> QED BY <1>1, InitIInv, PTL DEF Spec

\* However initialisations, removals, permission changes and refreshes overlap, McpManager has at
\* most one open connection to the server that its maps know of.
THEOREM SingleConnection == Spec => []OneConnection
<1>1. IInv => OneConnection
    <2> SUFFICES ASSUME IInv PROVE OneConnection
        OBVIOUS
    <2> DEFINE known == live \ (late \cup lost)
    <2>1. \A c, d \in known : c = d
        <3> SUFFICES ASSUME NEW c \in known, NEW d \in known PROVE c = d
            OBVIOUS
        <3>1. c # None /\ d # None
            BY McpAssumption DEF IInv, ConnInv, MapType
        <3>2. CASE client # None
            BY <3>2 DEF IInv, ConnInv, Known, SetUp
        <3>3. CASE client = None
            BY <3>1, <3>3 DEF IInv, ConnInv, Known, Exclusive, Initializing
        <3> QED BY <3>2, <3>3
    <2>2. CASE known = {}
        BY <2>2, FS_EmptySet DEF OneConnection
    <2>3. CASE known # {}
        <3>1. PICK c : known = {c}
            BY <2>1, <2>3
        <3>2. Cardinality(known) = 1
            BY <3>1, FS_Singleton
        <3> QED BY <3>2 DEF OneConnection
    <2> QED BY <2>2, <2>3
<1> QED BY <1>1, Inductive, PTL

\* When every operation has ended, the client in McpManager's maps is open and the tools it lists
\* are that client's, unless its close was rejected; any other open connection is a stray one.
THEOREM ClientWhenSettled == Spec => []SettledClient
<1>1. IInv => SettledClient
    <2> SUFFICES ASSUME IInv, \A t \in Tasks : task[t].at = "idle" PROVE SettledClient
        BY DEF SettledClient, Settled, At
    <2>1. live \subseteq {client} \cup late \cup lost
        BY DEF IInv, ConnInv, Known
    <2>2. client # None /\ ~broken => client \in live /\ tools = {client}
        BY DEF IInv, ConnInv, OpenClient, OwnTools, Closing
    <2> QED BY <2>1, <2>2 DEF SettledClient
<1> QED BY <1>1, Inductive, PTL

\* The listener of AGENT_TOOLS_CHANGED and removeAllMcpTools leave no tool registered while MCP is
\* switched off, nor those of a disabled server once every change has ended.
THEOREM ToolsOff == Spec => []NoToolsWhenOff
<1>1. IInv => NoToolsWhenOff
    BY DEF IInv, ToolsInv, NoToolsWhenOff, Settled, At, Permission
<1> QED BY <1>1, Inductive, PTL

(***************************************************************************)
(* The remote workspace, whose clients are those of WebSocketClient.       *)
(* WorkspaceConstants is what ClientAssumption and WorkspaceAssumption say *)
(* of the constants.                                                       *)
(***************************************************************************)
CONSTANTS Polls, MaxCalls, Outs, MaxFaults

VARIABLES optedIn, profile, active, initialized, evaluation, missed, adminOut, disabled, admin,
          remote, deleting, monitor, outMonitor, outTimers, outCalls, check, waitFor, polls,
          pollCalls, uploading, hasId, resolved, waiting, faults

W == INSTANCE RemoteWorkspace

WorkspaceConstants ==
    /\ NoClient \notin Clients /\ MaxReconnects \in Nat
    /\ None \notin Polls \cup Outs /\ Polls \cup Outs \subseteq Nat
    /\ MaxCalls \in Nat /\ MaxFaults \in Nat

\* A client that has ended does not remember its tries.
Sockets ==
    {W!Closed} \cup [st : {"connecting", "refused", "open", "closing", "backoff"},
                    tries : 0..MaxReconnects]

SocketTypes ==
    /\ current \in Clients \cup {NoClient} /\ dropped \subseteq Clients
    /\ sock \in [Clients -> Sockets]

\* Clients that are neither current nor dropped have ended for good.
OthersClosed == \A c \in Clients \ dropped : c # current => sock[c] = W!Closed

SocketInv == SocketTypes /\ OthersClosed

LEMMA ClosedType == W!Closed \in Sockets /\ W!Closed.st = "closed"
  BY DEF W!Closed, Sockets

LEMMA SocketTypesOf ==
    ASSUME WorkspaceConstants, NEW s \in Sockets
    PROVE  W!Disconnected(s) \in Sockets /\ W!connect(s) \in Sockets /\ W!Destroyed(s) \in Sockets
<1> DEFINE Going == [st : {"connecting", "refused", "open", "closing", "backoff"},
                     tries : 0..MaxReconnects]
<1>1. s.tries \in 0..MaxReconnects
  BY DEF WorkspaceConstants, Sockets, W!Closed
<1>2. W!Disconnected(s) \in Sockets
  <2>1. s.tries < MaxReconnects => [st |-> "backoff", tries |-> s.tries + 1] \in Going
    BY <1>1 DEF WorkspaceConstants
  <2> QED
    BY <2>1 DEF W!Disconnected, Sockets
<1>3. W!connect(s) \in Sockets
  <2>1. [s EXCEPT !.st = "connecting"] \in Going
    BY <1>1 DEF Sockets, W!Closed
  <2> QED
    BY <1>2, <2>1 DEF W!connect, Sockets
<1>4. W!Destroyed(s) \in Sockets
  <2>1. s.st = "backoff" => [s EXCEPT !.tries = MaxReconnects] \in Going
    BY DEF WorkspaceConstants, Sockets, W!Closed
  <2> QED
    BY <2>1 DEF W!Destroyed, Sockets
<1> QED
  BY <1>2, <1>3, <1>4

\* SetSock keeps the invariant if the clients that are not to be dropped have ended.
LEMMA SetSockInv ==
    ASSUME SocketInv, NEW s \in [Clients -> Sockets], NEW drop \in BOOLEAN, W!SetSock(s, drop),
           current' \in Clients \cup {NoClient},
           \A c \in Clients : c # current' =>
               \/ s[c] = W!Closed
               \/ c \in dropped
               \/ drop /\ c = current /\ sock[c].st \in {"closing", "backoff"}
    PROVE  SocketInv'
<1> DEFINE left == {c \in Clients : drop /\ c = current /\ sock[c].st \in {"closing", "backoff"}}
<1>1. sock' = s /\ dropped' = {c \in dropped \cup left : s[c] # W!Closed}
  BY DEF W!SetSock
<1>2. SocketTypes'
  BY <1>1 DEF SocketInv, SocketTypes
<1>3. \A c \in Clients : c # current' /\ c \notin dropped' => sock'[c] = W!Closed
  BY <1>1
<1> QED
  BY <1>2, <1>3 DEF SocketInv, OthersClosed

LEMMA DestroyInv ==
    ASSUME WorkspaceConstants, SocketInv, W!DestroyCurrent, current' \in {current, NoClient}
    PROVE  SocketInv'
<1> DEFINE s == [c \in Clients |-> IF c = current THEN W!Destroyed(sock[c]) ELSE sock[c]]
<1>1. s \in [Clients -> Sockets]
  BY SocketTypesOf DEF SocketInv, SocketTypes
<1>2. W!SetSock(s, TRUE)
  BY Zenon DEF W!DestroyCurrent
<1>3. \A c \in Clients : s[c] = IF c = current THEN W!Destroyed(sock[c]) ELSE sock[c]
  OBVIOUS
<1>4. current' \in Clients \cup {NoClient}
  BY DEF SocketInv, SocketTypes
<1> HIDE DEF s
<1>5. \A c \in Clients : c # current' =>
          \/ s[c] = W!Closed
          \/ c \in dropped
          \/ TRUE /\ c = current /\ sock[c].st \in {"closing", "backoff"}
  BY <1>3, Zenon DEF SocketInv, OthersClosed, W!Destroyed
<1> QED
  BY <1>1, <1>2, <1>4, <1>5, SetSockInv, Zenon

\* A client is replaced only when it has no socket, so the new one is alone.
LEMMA ReplaceInv ==
    ASSUME WorkspaceConstants, SocketInv, W!Replace, ~(current # NoClient /\ W!Live(current))
    PROVE  SocketInv'
<1> DEFINE c == CHOOSE d \in Clients : sock[d] = W!Closed
           s == [sock EXCEPT ![c] = W!connect(W!Closed)]
<1>1. c \in Clients /\ sock[c] = W!Closed
  BY DEF W!Replace
<1>2. current' = c /\ W!SetSock(s, TRUE)
  BY Zenon DEF W!Replace
<1> HIDE DEF c
<1>3. s \in [Clients -> Sockets] /\ \A d \in Clients : d # c => s[d] = sock[d]
  BY <1>1, SocketTypesOf, ClosedType DEF SocketInv, SocketTypes
<1> HIDE DEF s
<1>4. ASSUME NEW d \in Clients, d # current'
      PROVE  \/ s[d] = W!Closed
             \/ d \in dropped
             \/ TRUE /\ d = current /\ sock[d].st \in {"closing", "backoff"}
  <2>1. s[d] = sock[d]
    BY <1>2, <1>3, <1>4
  <2>2. CASE d # current
    BY <2>1, <2>2 DEF SocketInv, OthersClosed
  <2>3. CASE d = current
    <3>1. d # NoClient
      BY DEF WorkspaceConstants
    <3>2. sock[d] = W!Closed \/ sock[d].st \in {"closing", "backoff"}
      BY <2>3, <3>1 DEF W!Live, SocketInv, SocketTypes, Sockets
    <3> QED
      BY <2>1, <2>3, <3>2
  <2> QED
    BY <2>2, <2>3
<1> QED
  BY <1>1, <1>2, <1>3, <1>4, SetSockInv, Zenon
(***************************************************************************)
(* The steps of a socket                                                   *)
(***************************************************************************)
\* A client with a socket or a timer that is not the current one was dropped.
LEMMA NotClosed ==
    ASSUME SocketInv, NEW c \in Clients, sock[c].st # "closed"
    PROVE  c = current \/ c \in dropped
  BY ClosedType DEF SocketInv, OthersClosed

LEMMA ChangeInv ==
    ASSUME SocketInv, NEW c \in Clients, sock[c].st # "closed", NEW t \in Sockets,
           W!SetSock([sock EXCEPT ![c] = t], FALSE), current' = current
    PROVE  SocketInv'
<1> DEFINE s == [sock EXCEPT ![c] = t]
<1>1. s \in [Clients -> Sockets] /\ \A d \in Clients : d # c => s[d] = sock[d]
  BY DEF SocketInv, SocketTypes
<1> HIDE DEF s
<1>2. \A d \in Clients : d # current' =>
          \/ s[d] = W!Closed
          \/ d \in dropped
          \/ FALSE /\ d = current /\ sock[d].st \in {"closing", "backoff"}
  BY <1>1, NotClosed DEF SocketInv, OthersClosed
<1>3. W!SetSock(s, FALSE) /\ current' \in Clients \cup {NoClient}
  BY Zenon DEF s, SocketInv, SocketTypes
<1> QED
  BY <1>1, <1>2, <1>3, SetSockInv, Zenon

LEMMA SocketStepInv ==
    ASSUME WorkspaceConstants, SocketInv, NEW c \in Clients, W!SocketStep(c)
    PROVE  SocketInv'
<1>1. sock[c] \in Sockets
  BY DEF SocketInv, SocketTypes
<1>2. CASE W!Opened(c)
  <2> DEFINE t == [st |-> "open", tries |-> 0]
  <2>1. sock' = [sock EXCEPT ![c] = t] /\ current' = current /\ dropped' = dropped
    BY <1>2 DEF W!Opened
  <2>2. t \in Sockets
    BY DEF WorkspaceConstants, Sockets
  <2>3. c = current \/ c \in dropped
    BY <1>2, NotClosed DEF W!Opened
  <2> HIDE DEF t
  <2> QED
    BY <2>1, <2>2, <2>3 DEF SocketInv, SocketTypes, OthersClosed
<1>3. CASE W!Lost(c)
  <2> DEFINE t == [sock[c] EXCEPT !.st = "closing"]
  <2>1. sock[c].st # "closed" /\ current' = current
    BY <1>3, Zenon DEF W!Lost
  <2>2. \/ W!SetSock([sock EXCEPT ![c] = W!Disconnected(sock[c])], FALSE)
        \/ W!SetSock([sock EXCEPT ![c] = t], FALSE)
    BY <1>3, Zenon DEF W!Lost
  <2>3. t \in Sockets
    BY <1>1, <2>1 DEF Sockets, W!Closed
  <2> HIDE DEF t
  <2>4. W!Disconnected(sock[c]) \in Sockets
    BY <1>1, SocketTypesOf
  <2> QED
    BY <2>1, <2>2, <2>3, <2>4, ChangeInv, Zenon
<1>5. CASE W!CloseEvent(c)
  <2>1. sock[c].st # "closed" /\ current' = current
    BY <1>5 DEF W!CloseEvent
  <2>2. \/ W!SetSock([sock EXCEPT ![c] = W!Disconnected(sock[c])], FALSE)
        \/ W!SetSock([sock EXCEPT ![c] = W!Closed], FALSE)
    BY <1>5, ZenonT(40) DEF W!CloseEvent
  <2> QED
    BY <1>1, <2>1, <2>2, SocketTypesOf, ClosedType, ChangeInv, Zenon
<1>6. CASE W!Refused(c)
  <2> DEFINE t == [sock[c] EXCEPT !.st = "refused"]
  <2>1. sock' = [sock EXCEPT ![c] = t] /\ current' = current /\ dropped' = dropped
    BY <1>6 DEF W!Refused
  <2>2. t \in Sockets
    BY <1>1, <1>6 DEF W!Refused, Sockets, W!Closed
  <2>3. c = current \/ c \in dropped
    BY <1>6, NotClosed DEF W!Refused
  <2> HIDE DEF t
  <2> QED
    BY <2>1, <2>2, <2>3 DEF SocketInv, SocketTypes, OthersClosed
<1>4. CASE W!Reconnect(c)
  <2>1. sock[c].st # "closed" /\ current' = current
    BY <1>4 DEF W!Reconnect
  <2>2. W!SetSock([sock EXCEPT ![c] = W!connect(sock[c])], FALSE)
    BY <1>4, Zenon DEF W!Reconnect
  <2> QED
    BY <1>1, <2>1, <2>2, SocketTypesOf, ChangeInv, Zenon
<1> QED
  BY <1>2, <1>3, <1>4, <1>5, <1>6 DEF W!SocketStep

(***************************************************************************)
(* Every step leaves the sockets alone, destroys the current client,       *)
(* replaces one that has no socket, or is a step of a socket.              *)
(***************************************************************************)
SocketEffect ==
    \/ UNCHANGED W!sockets
    \/ W!DestroyCurrent /\ current' \in {current, NoClient}
    \/ W!Replace /\ ~(current # NoClient /\ W!Live(current))
    \/ \E c \in Clients : W!SocketStep(c)

LEMMA EstablishEffect == W!establishConnection => SocketEffect
  BY Zenon DEF W!establishConnection, SocketEffect

LEMMA NotAllowedEffect == ASSUME NEW answer, W!NotAllowed(answer) PROVE SocketEffect
  BY Zenon DEF W!NotAllowed, W!Clear, SocketEffect

LEMMA EffectOfNext == [W!Next]_(W!vars) => SocketEffect
<1> SUFFICES ASSUME [W!Next]_(W!vars) PROVE SocketEffect
  OBVIOUS
<1>1. CASE UNCHANGED W!sockets
  BY <1>1 DEF SocketEffect
<1>2. CASE UNCHANGED W!vars
  BY <1>2 DEF W!vars, SocketEffect
<1>3. CASE W!Environment
  <2>1. ASSUME NEW in \in BOOLEAN, W!UpdateConfiguration(in) PROVE SocketEffect
    BY <2>1, <1>1, Zenon DEF W!UpdateConfiguration, SocketEffect
  <2> QED
    BY <1>1, <1>3, <2>1, Zenon DEF W!Environment, W!LogInOrOut, W!SelectProfile, W!GoIdle,
       W!Administer, W!Expire, W!FoldersAdded, W!RecordActivity
<1>4. CASE W!Provisioned \/ W!Deleted \/ W!Evaluated \/ W!CreateAnswered \/ W!Uploaded
  BY <1>1, <1>4, Zenon DEF W!Provisioned, W!Deleted, W!Evaluated, W!StartWorkflow,
     W!CreateAnswered, W!Uploaded
<1>5. CASE W!WorkflowTick
  BY <1>1, <1>5, Zenon DEF W!WorkflowTick, W!StartWorkflow, W!clearAllWorkspaceResources, W!Clear,
     SocketEffect
<1>6. CASE W!MonitorTick
  BY <1>1, <1>6, Zenon DEF W!MonitorTick, W!ResetWebSocketClient, SocketEffect
<1>7. CASE W!ListAnswered
  BY <1>1, <1>7, EstablishEffect, NotAllowedEffect, Zenon
     DEF W!ListAnswered, W!ResetWebSocketClient, SocketEffect
<1>8. ASSUME NEW i \in Polls, W!PollStep(i) PROVE SocketEffect
  BY <1>1, <1>8, EstablishEffect, NotAllowedEffect, Zenon
     DEF W!PollStep, W!PollTick, W!PollTimesOut, W!PollAnswered, W!PollNotAllowed
<1>9. ASSUME NEW i \in Outs, W!OptOutStep(i) PROVE SocketEffect
  BY <1>1, <1>9, Zenon DEF W!OptOutStep, W!OptOutTick, W!OptOutAnswered
<1>10. ASSUME NEW c \in Clients, W!SocketStep(c) PROVE SocketEffect
  BY <1>10, ZenonT(40) DEF SocketEffect
<1> QED
  BY <1>2, <1>3, <1>4, <1>5, <1>6, <1>7, <1>8, <1>9, <1>10, Zenon DEF W!Next

LEMMA SocketInvInitially == W!Init => SocketInv
<1> SUFFICES ASSUME W!Init PROVE SocketInv
  OBVIOUS
<1>1. current = NoClient /\ sock = [c \in Clients |-> W!Closed] /\ dropped = {}
  BY Zenon DEF W!Init
<1> QED
  BY <1>1, ClosedType DEF SocketInv, SocketTypes, OthersClosed

LEMMA SocketInvInductive ==
    ASSUME WorkspaceConstants
    PROVE  SocketInv /\ [W!Next]_(W!vars) => SocketInv'
<1> SUFFICES ASSUME SocketInv, SocketEffect PROVE SocketInv'
  BY EffectOfNext
<1>1. CASE UNCHANGED W!sockets
  BY <1>1 DEF W!sockets, SocketInv, SocketTypes, OthersClosed
<1> QED
  BY <1>1, DestroyInv, ReplaceInv, SocketStepInv, Zenon DEF SocketEffect

LEMMA AtMostOne ==
    ASSUME NEW S, NEW x, S \subseteq {x} PROVE Cardinality(S) <= 1
<1>1. S = {} \/ S = {x}
  OBVIOUS
<1>2. Cardinality({}) = 0 /\ Cardinality({x}) = 1
  BY FS_EmptySet, FS_Singleton, Zenon
<1> QED
  BY <1>1, <1>2

\* establishConnection and the clients it replaces: checks, polls, monitors and reconnections, in
\* any number and any order, have one socket to the workspace between them, apart from those of
\* clients that were destroyed or replaced while they closed or waited to reconnect.
THEOREM SingleSocket ==
    ASSUME WorkspaceConstants PROVE W!Spec => []OneSocket
<1>1. SocketInv => OneSocket
  <2> SUFFICES ASSUME SocketInv PROVE OneSocket
    OBVIOUS
  <2>1. {c \in Clients : Live(c)} \ dropped \subseteq {current}
    BY NotClosed DEF Live
  <2> QED
    BY <2>1, AtMostOne, Zenon DEF OneSocket
<1> QED
  BY <1>1, SocketInvInitially, SocketInvInductive, PTL DEF W!Spec

(***************************************************************************)
(* Types                                                                   *)
(***************************************************************************)
UserFlags ==
    /\ optedIn \in BOOLEAN /\ loggedIn \in BOOLEAN /\ profile \in BOOLEAN /\ active \in BOOLEAN
    /\ initialized \in BOOLEAN /\ missed \in BOOLEAN

Flags ==
    /\ adminOut \in BOOLEAN /\ disabled \in BOOLEAN /\ deleting \in BOOLEAN
    /\ monitor \in BOOLEAN /\ uploading \in BOOLEAN /\ hasId \in BOOLEAN /\ resolved \in BOOLEAN

Modes ==
    /\ evaluation \in {"no", "running", "in", "out"}
    /\ admin \in {"in", "out", "disabled"} /\ remote \in W!Remotes
    /\ check \in {"idle", "listing", "creating", "retrying", "waiting", "uploading"}
    /\ waiting \in {"no", "yes", "orphan"}

Timers ==
    /\ outMonitor \in Outs \cup {None} /\ outTimers \subseteq Outs /\ outCalls \subseteq Outs
    /\ waitFor \in Polls \cup {None} /\ polls \subseteq Polls

Calls == pollCalls \in [Polls -> 0..MaxCalls]

Faults == faults \in 0..MaxFaults

LEMMA UserFlagsInductive ==
    ASSUME UserFlags, [W!Next]_(W!vars) PROVE UserFlags'
<1> USE DEF UserFlags, W!user, W!workflow
<1>1. CASE UNCHANGED <<W!user, active, W!workflow>>
  BY <1>1, Zenon
<1>2. CASE W!LogInOrOut
  BY <1>2, Zenon DEF W!LogInOrOut
<1>3. CASE W!SelectProfile
  BY <1>3, Zenon DEF W!SelectProfile
<1>4. CASE W!RecordActivity \/ W!GoIdle
  BY <1>4, Zenon DEF W!RecordActivity, W!GoIdle
<1>5. ASSUME NEW in \in BOOLEAN, W!UpdateConfiguration(in) PROVE UserFlags'
  BY <1>5, Zenon DEF W!UpdateConfiguration
<1>6. CASE W!WorkflowTick
  BY <1>6, Zenon DEF W!WorkflowTick, W!StartWorkflow, W!initializeWorkspaceStatusMonitor
<1>7. CASE W!Evaluated
  BY <1>7, Zenon DEF W!Evaluated, W!StartWorkflow, W!initializeWorkspaceStatusMonitor
<1>8. ASSUME NEW i \in Outs, W!OptOutAnswered(i) PROVE UserFlags'
  BY <1>8, Zenon DEF W!OptOutAnswered, W!initializeWorkspaceStatusMonitor
<1> HIDE DEF UserFlags, W!user, W!workflow
<1>9. CASE W!FoldersAdded \/ W!Administer \/ W!Expire \/ W!Provisioned \/ W!Deleted
  BY <1>1, <1>9, Zenon DEF W!FoldersAdded, W!Administer, W!Expire, W!Provisioned, W!Deleted
<1>10. CASE W!MonitorTick \/ W!ListAnswered \/ W!CreateAnswered \/ W!Uploaded
  BY <1>1, <1>10, Zenon DEF W!MonitorTick, W!ListAnswered, W!CreateAnswered, W!Uploaded
<1>11. CASE \E i \in Polls : W!PollStep(i)
  BY <1>1, <1>11, Zenon DEF W!PollStep, W!PollTick, W!PollTimesOut, W!PollAnswered
<1>12. CASE \E i \in Outs : W!OptOutTick(i)
  BY <1>1, <1>12, Zenon DEF W!OptOutTick
<1>13. CASE \E c \in Clients : W!SocketStep(c)
  BY <1>1, <1>13, Zenon DEF W!SocketStep, W!Opened, W!Refused, W!Lost, W!CloseEvent, W!Reconnect
<1>14. CASE UNCHANGED W!vars
  BY <1>1, <1>14, Zenon DEF W!vars
<1> QED
  BY <1>2, <1>3, <1>4, <1>5, <1>6, <1>7, <1>8, <1>9, <1>10, <1>11, <1>12, <1>13, <1>14, Zenon
     DEF W!Next, W!Environment, W!OptOutStep

LEMMA NotAllowedFlags ==
    ASSUME Flags, NEW answer, W!NotAllowed(answer)
    PROVE  /\ adminOut' \in BOOLEAN /\ disabled' \in BOOLEAN /\ monitor' \in BOOLEAN
           /\ hasId' \in BOOLEAN /\ resolved' \in BOOLEAN
<1>1. monitor' \in BOOLEAN /\ hasId' \in BOOLEAN /\ resolved' \in BOOLEAN
  BY Zenon DEF Flags, W!NotAllowed, W!Clear, W!Resolve
<1>2. adminOut' \in BOOLEAN /\ disabled' \in BOOLEAN
  BY Zenon DEF Flags, W!NotAllowed
<1> QED
  BY <1>1, <1>2

LEMMA IdFlags ==
    ASSUME Flags, W!setRemoteWorkspaceId \/ W!resetRemoteWorkspaceId
    PROVE  hasId' \in BOOLEAN /\ resolved' \in BOOLEAN
  BY Zenon DEF Flags, W!setRemoteWorkspaceId, W!resetRemoteWorkspaceId, W!Resolve, W!gate

LEMMA ListFlags == ASSUME Flags, W!ListAnswered PROVE Flags'
<1>1. UNCHANGED <<W!user, active, W!workflow, W!service>>
  BY Zenon DEF W!ListAnswered
<1>2. adminOut' \in BOOLEAN /\ disabled' \in BOOLEAN /\ monitor' \in BOOLEAN
  BY NotAllowedFlags, Zenon DEF W!ListAnswered, Flags
<1>3. hasId' \in BOOLEAN /\ resolved' \in BOOLEAN
  BY NotAllowedFlags, IdFlags, Zenon DEF W!ListAnswered, Flags, W!gate
<1>4. uploading' \in BOOLEAN
  BY Zenon DEF W!ListAnswered, Flags
<1> QED
  BY <1>1, <1>2, <1>3, <1>4, Zenon DEF Flags, W!user, W!workflow, W!service

LEMMA PollFlags == ASSUME Flags, NEW i \in Polls, W!PollAnswered(i) PROVE Flags'
<1>1. UNCHANGED <<W!user, active, W!workflow, W!service, uploading>>
  BY Zenon DEF W!PollAnswered
<1>2. adminOut' \in BOOLEAN /\ disabled' \in BOOLEAN /\ monitor' \in BOOLEAN
      /\ hasId' \in BOOLEAN /\ resolved' \in BOOLEAN
  BY NotAllowedFlags, Zenon DEF W!PollAnswered, W!PollNotAllowed, Flags, W!gate
<1> QED
  BY <1>1, <1>2, Zenon DEF Flags, W!user, W!workflow, W!service

LEMMA UpdateFlags == ASSUME Flags, NEW in \in BOOLEAN, W!UpdateConfiguration(in) PROVE Flags'
  BY Zenon DEF Flags, W!UpdateConfiguration, W!user, W!workflow, W!service, W!gate, W!checking

LEMMA OptOutFlags == ASSUME Flags, NEW i \in Outs, W!OptOutAnswered(i) PROVE Flags'
  BY Zenon DEF Flags, W!OptOutAnswered, W!user, W!workflow, W!service, W!gate,
     W!initializeWorkspaceStatusMonitor

LEMMA FlagsInductive ==
    ASSUME Flags, [W!Next]_(W!vars) PROVE Flags'
<1> USE DEF Flags, W!user, W!workflow, W!service, W!outs, W!checking, W!gate
<1>1. CASE W!FoldersAdded
  BY <1>1, Zenon DEF W!FoldersAdded
<1>2. CASE W!RecordActivity
  BY <1>2, Zenon DEF W!RecordActivity
<1>3. CASE W!LogInOrOut \/ W!SelectProfile
  BY <1>3, ZenonT(40) DEF W!LogInOrOut, W!SelectProfile
<1>4. CASE W!GoIdle
  BY <1>4, Zenon DEF W!GoIdle
<1>5. CASE W!Administer
  BY <1>5, Zenon DEF W!Administer
<1>6. CASE W!Expire
  BY <1>6, Zenon DEF W!Expire
<1>7. CASE \E in \in BOOLEAN : W!UpdateConfiguration(in)
  BY <1>7, UpdateFlags, Zenon
<1>8. CASE W!Provisioned
  BY <1>8, Zenon DEF W!Provisioned
<1>9. CASE W!Deleted
  BY <1>9, Zenon DEF W!Deleted
<1>10. CASE W!Uploaded
  BY <1>10, Zenon DEF W!Uploaded
<1>11. CASE W!WorkflowTick
  BY <1>11, Zenon DEF W!WorkflowTick, W!StartWorkflow, W!initializeWorkspaceStatusMonitor,
     W!clearAllWorkspaceResources,
     W!Clear, W!Resolve
<1>12. CASE W!Evaluated
  BY <1>12, Zenon DEF W!Evaluated, W!StartWorkflow, W!initializeWorkspaceStatusMonitor
<1>13. CASE W!MonitorTick
  BY <1>13, Zenon DEF W!MonitorTick
<1>14. CASE W!CreateAnswered
  BY <1>14, Zenon DEF W!CreateAnswered, W!setRemoteWorkspaceId, W!Resolve
<1>15. CASE \E i \in Polls : W!PollTick(i) \/ W!PollTimesOut(i)
  BY <1>15, Zenon DEF W!PollTick, W!PollTimesOut
<1>16. CASE \E i \in Outs : W!OptOutTick(i)
  BY <1>16, Zenon DEF W!OptOutTick
<1>17. CASE \E i \in Outs : W!OptOutAnswered(i)
  BY <1>17, OptOutFlags
<1>18. CASE \E c \in Clients : W!SocketStep(c)
  BY <1>18, Zenon DEF W!SocketStep, W!Opened, W!Refused, W!Lost, W!CloseEvent,
     W!Reconnect
<1>19. CASE UNCHANGED W!vars
  BY <1>19, Zenon DEF W!vars
<1>20. CASE W!ListAnswered
  BY <1>20, ListFlags
<1>21. CASE \E i \in Polls : W!PollAnswered(i)
  BY <1>21, PollFlags
<1> QED
  BY <1>20, <1>21, <1>1, <1>2, <1>3, <1>4, <1>5, <1>6, <1>7, <1>8, <1>9, <1>10, <1>11, <1>12,
     <1>13, <1>14, <1>15, <1>16, <1>17, <1>18, <1>19, Zenon DEF W!Next, W!Environment, W!PollStep,
        W!OptOutStep

LEMMA ModesInductive ==
    ASSUME Modes, [W!Next]_(W!vars) PROVE Modes'
<1> USE DEF Modes, W!user, W!workflow, W!service, W!outs, W!checking, W!gate
<1>1. CASE W!FoldersAdded \/ W!RecordActivity
  BY <1>1, Zenon DEF W!FoldersAdded, W!RecordActivity
<1>2. CASE W!Administer \/ W!Provisioned
  BY <1>2, ZenonT(40) DEF W!Administer, W!Provisioned, W!Remotes
<1>3. CASE W!Expire \/ W!Deleted \/ W!LogInOrOut \/ W!SelectProfile \/ W!GoIdle \/ W!Uploaded
  BY <1>3, Zenon DEF W!Expire, W!Deleted, W!LogInOrOut, W!SelectProfile, W!GoIdle, W!Uploaded,
     W!Remotes
<1>4. CASE \E in \in BOOLEAN : W!UpdateConfiguration(in)
  BY <1>4, Zenon DEF W!UpdateConfiguration
<1>5. CASE W!WorkflowTick
  BY <1>5, Zenon DEF W!WorkflowTick, W!StartWorkflow, W!initializeWorkspaceStatusMonitor,
     W!clearAllWorkspaceResources,
     W!Clear, W!Resolve, W!Replaced
<1>6. CASE W!Evaluated
  BY <1>6, Zenon DEF W!Evaluated, W!StartWorkflow, W!initializeWorkspaceStatusMonitor, W!Replaced
<1>7. CASE W!MonitorTick
  BY <1>7, Zenon DEF W!MonitorTick
<1>8. CASE W!ListAnswered
  BY <1>8, ZenonT(40) DEF W!ListAnswered, W!NotAllowed, W!Clear, W!Resolve, W!Finish,
     W!resetRemoteWorkspaceId,
     W!setRemoteWorkspaceId, W!Replaced, W!Wait
<1>9. CASE W!CreateAnswered
  BY <1>9, Zenon DEF W!CreateAnswered, W!setRemoteWorkspaceId, W!Resolve, W!Wait, W!Remotes
<1>10. CASE \E i \in Polls : W!PollTick(i) \/ W!PollTimesOut(i)
  BY <1>10, Zenon DEF W!PollTick, W!PollTimesOut, W!Waited, W!Finish
<1>11. CASE \E i \in Polls : W!PollAnswered(i)
  BY <1>11, ZenonT(40) DEF W!PollAnswered, W!PollNotAllowed, W!NotAllowed, W!Clear, W!Resolve,
     W!Waited, W!Finish
<1>12. CASE \E i \in Outs : W!OptOutStep(i)
  BY <1>12, ZenonT(40) DEF W!OptOutStep, W!OptOutTick, W!OptOutAnswered,
     W!initializeWorkspaceStatusMonitor, W!Replaced
<1>13. CASE \E c \in Clients : W!SocketStep(c)
  BY <1>13, Zenon DEF W!SocketStep, W!Opened, W!Refused, W!Lost, W!CloseEvent,
     W!Reconnect
<1>14. CASE UNCHANGED W!vars
  BY <1>14, Zenon DEF W!vars
<1> QED
  BY <1>1, <1>2, <1>3, <1>4, <1>5, <1>6, <1>7, <1>8, <1>9, <1>10, <1>11, <1>12, <1>13, <1>14,
     Zenon DEF W!Next, W!Environment, W!PollStep

LEMMA TimersInductive ==
    ASSUME Timers, [W!Next]_(W!vars) PROVE Timers'
<1> USE DEF Timers, W!user, W!workflow, W!service, W!outs, W!checking, W!gate
<1>1. CASE W!Environment \/ W!Provisioned \/ W!Deleted \/ W!Uploaded
  BY <1>1, Zenon DEF W!Environment, W!FoldersAdded, W!RecordActivity, W!LogInOrOut, W!SelectProfile, W!GoIdle,
     W!Administer, W!Expire,
     W!UpdateConfiguration, W!stopOptOutMonitoring, W!Provisioned, W!Deleted, W!Uploaded
<1>2. CASE W!WorkflowTick \/ W!Evaluated \/ W!MonitorTick
  BY <1>2, Zenon DEF W!WorkflowTick, W!Evaluated, W!MonitorTick, W!StartWorkflow,
     W!clearAllWorkspaceResources,
     W!stopOptOutMonitoring
<1>3. CASE W!ListAnswered
  BY <1>3, Zenon DEF W!ListAnswered, W!NotAllowed, W!stopOptOutMonitoring, W!Finish, W!Wait
<1>4. CASE W!CreateAnswered
  BY <1>4, Zenon DEF W!CreateAnswered, W!Wait
<1>5. CASE \E i \in Polls : W!PollTick(i) \/ W!PollTimesOut(i)
  BY <1>5, Zenon DEF W!PollTick, W!PollTimesOut, W!Waited, W!Finish
<1>6. CASE \E i \in Polls : W!PollAnswered(i)
  BY <1>6, ZenonT(40) DEF W!PollAnswered, W!PollNotAllowed, W!NotAllowed, W!stopOptOutMonitoring,
     W!Waited, W!Finish
<1>7. CASE \E i \in Outs : W!OptOutStep(i)
  BY <1>7, Zenon DEF W!OptOutStep, W!OptOutTick, W!OptOutAnswered
<1>8. CASE \E c \in Clients : W!SocketStep(c)
  BY <1>8, Zenon DEF W!SocketStep, W!Opened, W!Refused, W!Lost, W!CloseEvent,
     W!Reconnect
<1>9. CASE UNCHANGED W!vars
  BY <1>9, Zenon DEF W!vars
<1> QED
  BY <1>1, <1>2, <1>3, <1>4, <1>5, <1>6, <1>7, <1>8, <1>9, Zenon DEF W!Next, W!PollStep

LEMMA CallsInductive ==
    ASSUME WorkspaceConstants, Calls, [W!Next]_(W!vars) PROVE Calls'
<1> USE DEF W!checking
<1>1. CASE UNCHANGED pollCalls
  BY <1>1 DEF Calls
<1>2. ASSUME NEW i \in Polls, W!PollTick(i) PROVE Calls'
  <2>1. pollCalls[i] < MaxCalls /\ pollCalls' = [pollCalls EXCEPT ![i] = pollCalls[i] + 1]
    BY <1>2 DEF W!PollTick
  <2> QED
    BY <2>1 DEF WorkspaceConstants, Calls
<1>3. ASSUME NEW i \in Polls, W!PollAnswered(i) PROVE Calls'
  <2>1. pollCalls[i] > 0 /\ pollCalls' = [pollCalls EXCEPT ![i] = pollCalls[i] - 1]
    BY <1>3, Zenon DEF W!PollAnswered
  <2> QED
    BY <2>1 DEF WorkspaceConstants, Calls
<1>4. CASE W!Environment \/ W!Provisioned \/ W!Deleted
  BY <1>1, <1>4, Zenon
     DEF W!Environment, W!FoldersAdded, W!RecordActivity, W!LogInOrOut, W!SelectProfile, W!GoIdle,
         W!Administer, W!Expire, W!UpdateConfiguration, W!Provisioned, W!Deleted
<1>5. CASE W!WorkflowTick \/ W!Evaluated \/ W!MonitorTick \/ W!ListAnswered
  BY <1>1, <1>5, Zenon DEF W!WorkflowTick, W!Evaluated, W!MonitorTick, W!ListAnswered
<1>6. CASE W!CreateAnswered \/ W!Uploaded
  BY <1>1, <1>6, Zenon DEF W!CreateAnswered, W!Uploaded
<1>7. CASE \E i \in Polls : W!PollTimesOut(i)
  BY <1>1, <1>7, Zenon DEF W!PollTimesOut
<1>8. CASE \E i \in Outs : W!OptOutStep(i)
  BY <1>1, <1>8, Zenon DEF W!OptOutStep, W!OptOutTick, W!OptOutAnswered
<1>9. CASE \E c \in Clients : W!SocketStep(c)
  BY <1>1, <1>9, ZenonT(40) DEF W!SocketStep, W!Opened, W!Refused, W!Lost, W!CloseEvent, W!Reconnect
<1>10. CASE UNCHANGED W!vars
  BY <1>1, <1>10 DEF W!vars
<1> QED
  BY <1>2, <1>3, <1>4, <1>5, <1>6, <1>7, <1>8, <1>9, <1>10, Zenon DEF W!Next, W!PollStep

LEMMA FaultsInductive ==
    ASSUME WorkspaceConstants, Faults, [W!Next]_(W!vars) PROVE Faults'
<1>1. CASE UNCHANGED faults
  BY <1>1 DEF Faults
<1>2. CASE W!Fault
  BY <1>2 DEF WorkspaceConstants, Faults, W!Fault
<1>3. CASE W!Environment \/ W!Provisioned \/ W!Deleted
  BY <1>1, <1>2, <1>3, Zenon
     DEF W!Environment, W!FoldersAdded, W!RecordActivity, W!LogInOrOut, W!SelectProfile, W!GoIdle,
        W!Administer,
        W!Expire,
         W!UpdateConfiguration, W!Provisioned, W!Deleted
<1>4. CASE W!WorkflowTick \/ W!Evaluated \/ W!MonitorTick \/ W!CreateAnswered \/ W!Uploaded
  BY <1>1, <1>2, <1>4, Zenon DEF W!WorkflowTick, W!Evaluated, W!MonitorTick, W!CreateAnswered,
     W!Uploaded
<1>5. CASE W!ListAnswered
  BY <1>1, <1>2, <1>5, Zenon DEF W!ListAnswered, W!ListAnswer
<1>6. CASE \E i \in Polls : W!PollStep(i)
  BY <1>1, <1>2, <1>6, Zenon DEF W!PollStep, W!PollTick, W!PollTimesOut, W!PollAnswered,
     W!ListAnswer
<1>7. CASE \E i \in Outs : W!OptOutStep(i)
  BY <1>1, <1>2, <1>7, Zenon DEF W!OptOutStep, W!OptOutTick, W!OptOutAnswered, W!ListAnswer
<1>8. CASE \E c \in Clients : W!SocketStep(c)
  BY <1>1, <1>2, <1>8, ZenonT(40) DEF W!SocketStep, W!Opened, W!Refused, W!Lost, W!CloseEvent,
     W!Reconnect
<1>9. CASE UNCHANGED W!vars
  BY <1>1, <1>9 DEF W!vars
<1> QED
  BY <1>3, <1>4, <1>5, <1>6, <1>7, <1>8, <1>9, Zenon DEF W!Next

\* Every variable keeps its type, for every number of clients and intervals and every bound on the
\* reconnections and on what disturbs the workspace.
THEOREM WorkspaceTypes ==
    ASSUME WorkspaceConstants PROVE W!Spec => []W!TypeOK
<1> DEFINE Types == UserFlags /\ Flags /\ Modes /\ Timers /\ Calls /\ Faults /\ SocketInv
<1>1. W!Init => Types
  <2> SUFFICES ASSUME W!Init PROVE UserFlags /\ Flags /\ Modes /\ Timers /\ Calls /\ Faults
    BY SocketInvInitially
  <2>1. UserFlags /\ Flags
    BY Zenon DEF W!Init, UserFlags, Flags
  <2>2. Modes
    BY Zenon DEF W!Init, Modes
  <2>3. Timers
    BY ZenonT(40) DEF W!Init, Timers
  <2>4. faults = 0 /\ pollCalls = [i \in Polls |-> 0]
    BY Zenon DEF W!Init
  <2>5. Calls /\ Faults
    BY <2>4 DEF WorkspaceConstants, Calls, Faults
  <2> QED
    BY <2>1, <2>2, <2>3, <2>5
<1>2. Types /\ [W!Next]_(W!vars) => Types'
  BY UserFlagsInductive, FlagsInductive, ModesInductive, TimersInductive, CallsInductive,
     FaultsInductive, SocketInvInductive
<1>3. Types => W!TypeOK
  <2> SUFFICES ASSUME Types PROVE W!TypeOK
    OBVIOUS
  <2> DEFINE States == {"closed", "connecting", "refused", "open", "closing", "backoff"}
  <2>1. Sockets \subseteq [st : States, tries : 0..MaxReconnects]
    BY DEF WorkspaceConstants, Sockets, W!Closed
  <2>2. sock \in [Clients -> [st : States, tries : 0..MaxReconnects]]
    BY <2>1 DEF SocketInv, SocketTypes
  <2>3. {optedIn, loggedIn, profile, active, initialized, missed, adminOut, disabled, deleting,
         monitor, uploading, hasId, resolved} \subseteq BOOLEAN
    BY ZenonT(40) DEF UserFlags, Flags
  <2>4. /\ outMonitor \in Outs \cup {None} /\ outTimers \cup outCalls \subseteq Outs
        /\ waitFor \in Polls \cup {None} /\ polls \subseteq Polls
    BY DEF Timers
  <2> QED
    BY <2>2, <2>3, <2>4, Zenon DEF W!TypeOK, Modes, Calls, Faults, SocketInv, SocketTypes
<1> QED
  BY <1>1, <1>2, <1>3, PTL DEF W!Spec
=============================================================================
