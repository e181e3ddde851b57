----------------------------- MODULE McpManager -----------------------------
(***************************************************************************)
(* One MCP server of the agentic chat: what McpManager                     *)
(* (agenticChat/tools/mcp/mcpManager.ts) keeps about it, the operations    *)
(* that the server list (mcpEventHandler.ts) and the profile monitor       *)
(* (profileStatusMonitor.ts) start, and the tools that toolServer.ts       *)
(* registers with the agent.  Operations run from one await to the next;   *)
(* only the initialisation of a server is exclusive (serverInitMutexes),   *)
(* the rest interleaves freely.  task[t] is an operation in progress:      *)
(*                                                                         *)
(*   op       which one                                                    *)
(*   at       the await it is suspended at                                 *)
(*   conn     the connection it sets up: client, transport and process     *)
(*   seenPid  the process it found before it closed a client               *)
(***************************************************************************)
EXTENDS Naturals, Sequences, FiniteSets

CONSTANTS Tasks,  \* bound on the operations at a time
          Conns,  \* bound on the connections at a time
          None

ASSUME McpAssumption == None \notin Conns

VARIABLES task,
          disk,       \* the server in the agent's configuration file
          agent,      \* agentConfig.mcpServers has the server
          cfg,        \* mcpServers
          client,     \* clients
          pid,        \* processPids
          tools,      \* mcpTools: the connections whose tools it lists
          status,     \* mcpServerStates
          queue,      \* those that wait for the server's mutex, first come first served
          live,       \* connections that were started and that nobody has closed
          late,       \* those of them whose initialisation had timed out
          consent,    \* to run the server: not needed, or what the user has said
          lost,       \* ghost: those of them that left clients without being closed
          broken,     \* ghost: the client was closed with an error and is still in clients
          mcpState,   \* ProfileStatusMonitor.lastMcpState
          registered  \* the tools that are registered with the agent

maps == <<cfg, client, pid, tools, status>>
vars == <<task, disk, agent, maps, queue, live, late, consent, mcpState, registered, lost,
          broken>>

Configs == {"none", "on", "off"}
Ops == {"add", "edit", "delete", "enable", "disable", "refresh", "mcpOff", "mcpOn"}
\* ENABLED; with an error to show (FAILED, or DISABLED because the user has not consented); or
\* any other (none yet, UNINITIALIZED, INITIALIZING, DISABLED by the user).
Statuses == {"ENABLED", "error", "other"}
Initializing == {"consent", "cleanup", "connecting", "listing", "failing"}
Awaits == Initializing \cup
          {"idle", "form", "removeClose", "removeConsent", "removeSave", "addSave", "unsave",
           "permSave", "permUnsave", "permClose", "closing", "loading", "lock", "lockLost"}

Idle == [op |-> "add", at |-> "idle", conn |-> None, seenPid |-> None]

Init ==
    /\ task = [t \in Tasks |-> Idle]
    /\ disk \in Configs /\ agent = FALSE
    /\ cfg = "none" /\ client = None /\ pid = None /\ tools = {} /\ status = "other"
    /\ queue = <<>> /\ live = {} /\ late = {} /\ lost = {} /\ broken = FALSE
    /\ consent \in {"global", "ask", "granted"}
    /\ mcpState = FALSE /\ registered = {}

At(t, at) == task[t].at = at
Suspend(t, at) == task' = [task EXCEPT ![t] = [@ EXCEPT !.at = at]]
Start(t, op, at) == /\ At(t, "idle")
                    /\ task' = [task EXCEPT ![t] = [Idle EXCEPT !.op = op, !.at = at]]
End(t) == task' = [task EXCEPT ![t] = Idle]
InUse == live \cup tools \cup registered \cup {client, pid}
         \cup UNION {{task[t].conn, task[t].seenPid} : t \in Tasks}

\* client.close(): whoever uses the connection sees it closed; the call returns some time later,
\* or is rejected, which some callers do not catch.
CloseClient == live' = live \ {client} /\ late' = late \ {client}

CloseRejected == broken' = (client # None /\ client \notin live) /\ UNCHANGED <<live, late, lost>>

\* clients.delete after the close: the client that is there now goes, closed or not.
DropClient == client' = None /\ broken' = FALSE /\ lost' = (lost \cup {client}) \cap live'

\* getEnabledTools
Enabled == IF cfg = "off" THEN {} ELSE tools

\* Mutant: the listener does not ask whether MCP is switched on.
emitToolsChanged_always == registered' = Enabled'

\* The listener of AGENT_TOOLS_CHANGED registers the tools that are enabled.
emitToolsChanged == registered' = IF mcpState THEN Enabled' ELSE registered

(***************************************************************************)
(* initOneServer                                                           *)
(***************************************************************************)
RequestInit(t) ==
    /\ Suspend(t, "lock")
    /\ queue' = Append(queue, t)

\* The end of an operation: an error takes the server of a form out of the file again.
Finish(t) ==
    IF task[t].op \in {"add", "edit"} /\ status' = "error" /\ cfg # "none"
    THEN task' = [task EXCEPT ![t] = [Idle EXCEPT !.at = "unsave"]] /\ agent' = FALSE
    ELSE End(t) /\ UNCHANGED agent

\* What follows the initialisation: a change of permission announces the tools, MCP switched on
\* registers what there is.
InitDone(t, emits) ==
    LET op == task[t].op IN
    /\ Finish(t)
    /\ IF emits \/ op \in {"enable", "disable"} \/ (op = "mcpOn" /\ Enabled' # {})
       THEN emitToolsChanged ELSE UNCHANGED registered

\* The process found before is killed, then doConnect starts one, or opens a connection.
Connect(t, old) ==
    /\ \E c \in Conns \ InUse :
          /\ task' = [task EXCEPT ![t] = [@ EXCEPT !.at = "connecting", !.conn = c,
                                                   !.seenPid = None]]
          /\ live' = (live \ {old}) \cup {c}
    /\ late' = late \ {old}
    /\ pid' = IF old = None THEN pid ELSE None
    /\ DropClient
    /\ status' = "other"
    /\ UNCHANGED <<cfg, tools>>

\* cleanupExistingServer: a client is closed first.
CleanUp(t) ==
    IF client # None
    THEN /\ CloseClient
         /\ task' = [task EXCEPT ![t] = [@ EXCEPT !.at = "cleanup", !.seenPid = pid]]
         /\ UNCHANGED <<maps, lost, broken>>
    ELSE Connect(t, pid)

CleanedUp(t) ==
    /\ At(t, "cleanup")
    /\ Connect(t, task[t].seenPid)
    /\ UNCHANGED <<disk, agent, queue, consent, mcpState, registered>>

\* Mutant: initialisations of a server are not exclusive.
Acquire_unlocked(t) ==
    /\ At(t, "lock")
    /\ queue' = SelectSeq(queue, LAMBDA u : u # t)
    /\ consent \in {"global", "granted"}
    /\ CleanUp(t)
    /\ UNCHANGED <<disk, agent, consent, mcpState, registered>>

\* The mutex is free.  A server of a workspace needs the user's consent, which is asked once.
Acquire(t) ==
    /\ At(t, "lock") /\ Head(queue) = t
    /\ \A u \in Tasks : task[u].at \notin Initializing
    /\ queue' = Tail(queue)
    /\ \/ /\ consent \in {"global", "granted"}
          /\ CleanUp(t)
          /\ UNCHANGED <<agent, registered>>
       \/ /\ consent = "ask"
          /\ Suspend(t, "consent")
          /\ UNCHANGED <<agent, maps, live, late, lost, broken, registered>>
       \/ /\ consent = "denied"
          /\ status' = "error"
          /\ UNCHANGED <<cfg, client, pid, tools, live, late, lost, broken>>
          /\ InitDone(t, FALSE)
    /\ UNCHANGED <<disk, consent, mcpState>>

\* The server was deleted before the mutex was asked for: there is no configuration to use.
AcquireLost(t) ==
    /\ At(t, "lockLost") /\ Head(queue) = t
    /\ \A u \in Tasks : task[u].at \notin Initializing
    /\ queue' = Tail(queue)
    /\ status' = "error"
    /\ UNCHANGED <<disk, agent, cfg, client, pid, tools, live, late, consent, mcpState, lost,
                   broken>>
    /\ emitToolsChanged
    /\ End(t)

Allowed(t) ==
    /\ At(t, "consent")
    /\ consent' = "granted"
    /\ CleanUp(t)
    /\ UNCHANGED <<disk, agent, queue, mcpState, registered>>

\* The user declines, or cannot be asked.
NotAllowed(t) ==
    /\ At(t, "consent")
    /\ consent' \in {"denied", consent}
    /\ status' = "error"
    /\ UNCHANGED <<disk, cfg, client, pid, tools, queue, live, late, mcpState, lost, broken>>
    /\ InitDone(t, FALSE)

\* Mutant: the tools of an earlier connection stay in the list.
Connected_appends(t) == LET c == task[t].conn IN
    /\ At(t, "connecting")
    /\ pid' \in {pid, c}
    /\ client' = c /\ broken' = FALSE
    /\ Suspend(t, "listing")
    /\ UNCHANGED <<disk, agent, cfg, tools, status, queue, live, late, consent, mcpState,
                   registered, lost>>

\* A local server has a process, a remote one has none.
Connected(t) == LET c == task[t].conn IN
    /\ At(t, "connecting")
    /\ pid' \in {pid, c}
    /\ client' = c /\ broken' = FALSE
    /\ tools' = {}
    /\ Suspend(t, "listing")
    /\ UNCHANGED <<disk, agent, cfg, status, queue, live, late, lost, consent, mcpState,
                   registered>>

Listed(t) ==
    /\ At(t, "listing") /\ task[t].conn \in live
    /\ tools' = tools \cup {task[t].conn}
    /\ status' = "ENABLED"
    /\ UNCHANGED <<disk, cfg, client, pid, queue, live, late, consent, mcpState, lost, broken>>
    /\ InitDone(t, TRUE)

\* The rest of the catch: the process is killed, and the error shown unless it looks like a
\* connection that was merely interrupted.
GiveUp(t, alive, timedOut) ==
    /\ live' = alive \ {pid} /\ late' = (late \cup timedOut) \cap live'
    /\ pid' = None /\ tools' = {}
    /\ DropClient
    /\ UNCHANGED cfg
    /\ \E benign \in BOOLEAN :
          /\ status' = IF benign THEN status ELSE "error"
          /\ InitDone(t, ~benign)

\* The catch of initOneServerInternal closes the client that is in the map, if any.
InitFails(t, alive, timedOut) ==
    /\ IF client # None
       THEN /\ task' = [task EXCEPT ![t] = [@ EXCEPT !.at = "failing", !.conn = None]]
            /\ live' = alive \ {client} /\ late' = (late \cup timedOut) \cap live'
            /\ UNCHANGED <<agent, maps, lost, broken, registered>>
       ELSE GiveUp(t, alive, timedOut)
    /\ UNCHANGED <<disk, queue, consent, mcpState>>

ConnectFails(t) ==
    /\ At(t, "connecting")
    /\ InitFails(t, live \ {task[t].conn}, {})

\* The time-out ends the initialisation but not the connection, which is not a client yet.
ConnectTimesOut(t) ==
    /\ At(t, "connecting")
    /\ InitFails(t, live, {task[t].conn})

ListFails(t) ==
    /\ At(t, "listing")
    /\ InitFails(t, live, {})

GaveUp(t) ==
    /\ At(t, "failing")
    /\ GiveUp(t, live, {})
    /\ UNCHANGED <<disk, queue, consent, mcpState>>

\* A connection that timed out fails, or is there after all; its process is then the tracked one.
LateConnection(c) ==
    /\ c \in late
    /\ \/ pid' = c /\ UNCHANGED <<live, late, lost>>
       \/ /\ live' = live \ {c} /\ late' = late \ {c} /\ lost' = lost \ {c}
          /\ UNCHANGED pid
    /\ UNCHANGED <<task, disk, agent, cfg, client, tools, status, queue, consent, mcpState,
                   registered, broken>>

\* The close is rejected, and so is initOneServer; addServer and updateServerPermission show it.
NotGivenUp(t) ==
    /\ At(t, "failing")
    /\ CloseRejected
    /\ UNCHANGED <<disk, cfg, client, pid, tools, queue, consent, mcpState>>
    /\ IF task[t].op \in {"refresh", "mcpOn"}
       THEN UNCHANGED <<status, registered>>
       ELSE status' = "error" /\ emitToolsChanged
    /\ Finish(t)

(***************************************************************************)
(* addServer, removeServer and removeServerFromConfigFile, as the form and *)
(* the list of servers call them                                           *)
(***************************************************************************)
\* The form is valid unless a server of that name runs, and finds out which file it is for.
SaveForm(t) ==
    /\ mcpState
    /\ \/ ~(cfg # "none" /\ status = "ENABLED") /\ Start(t, "add", "form")
       \/ cfg # "none" /\ Start(t, "edit", "form")
    /\ UNCHANGED <<disk, agent, maps, queue, live, late, consent, mcpState, registered, lost,
                   broken>>

\* addServer: a server of that name may have come up since.
AddServer(t) ==
    /\ At(t, "form") /\ task[t].op = "add"
    /\ IF cfg # "none" /\ status = "ENABLED"
       THEN /\ status' = "error"
            /\ UNCHANGED <<cfg, tools>>
            /\ InitDone(t, TRUE)
       ELSE /\ agent' = TRUE
            /\ Suspend(t, "addSave")
            /\ UNCHANGED <<cfg, tools, status, registered>>
    /\ UNCHANGED <<disk, client, pid, queue, live, late, consent, mcpState, lost, broken>>

AddSaved(t) ==
    /\ At(t, "addSave")
    /\ disk' = "on" /\ cfg' = "on"
    /\ consent' \in {consent} \cup (IF consent = "global" THEN {} ELSE {"ask"})
    /\ RequestInit(t)
    /\ UNCHANGED <<agent, client, pid, tools, status, live, late, mcpState, registered, lost,
                   broken>>

\* The file cannot be written.
AddNotSaved(t) ==
    /\ At(t, "addSave")
    /\ status' = "error"
    /\ UNCHANGED <<disk, cfg, client, pid, tools, queue, live, late, consent, mcpState, lost,
                   broken>>
    /\ InitDone(t, TRUE)

Unsaved(t) ==
    /\ At(t, "unsave")
    /\ disk' \in {"none", disk}
    /\ End(t)
    /\ UNCHANGED <<agent, maps, queue, live, late, consent, mcpState, registered, lost, broken>>

\* removeServer, asked for by the list or by a form that changes a server.
RemoveServer(t) ==
    /\ \/ At(t, "idle") /\ mcpState /\ cfg # "none"
       \/ At(t, "form") /\ task[t].op = "edit"
    /\ LET op == IF At(t, "idle") THEN "delete" ELSE "edit"
           Go(at) == task' = [task EXCEPT ![t] = [@ EXCEPT !.op = op, !.at = at]]
       IN
       \/ /\ cfg = "none"
          /\ End(t)
          /\ UNCHANGED <<tools, status, live, late>>
       \/ /\ cfg # "none" /\ client # None
          /\ Go("removeClose")
          /\ CloseClient
          /\ UNCHANGED <<tools, status>>
       \/ /\ cfg # "none" /\ client = None
          /\ Go("removeConsent")
          /\ tools' = {} /\ status' = "other"
          /\ UNCHANGED <<live, late>>
    /\ UNCHANGED <<disk, agent, cfg, client, pid, queue, consent, lost, broken, mcpState,
                   registered>>

RemoveClosed(t) ==
    /\ At(t, "removeClose")
    /\ UNCHANGED <<live, late>>
    /\ DropClient
    /\ tools' = {} /\ status' = "other"
    /\ Suspend(t, "removeConsent")
    /\ UNCHANGED <<disk, agent, cfg, pid, queue, consent, mcpState, registered>>

\* removeServer rejects; the form goes on to see whether the server is in error.
RemoveFails(t) ==
    /\ \/ At(t, "removeClose") /\ CloseRejected
       \/ At(t, "removeSave") /\ UNCHANGED <<live, late, lost, broken>>
    /\ UNCHANGED <<disk, maps, queue, consent, mcpState, registered>>
    /\ Finish(t)

\* The approval of a workspace's server is forgotten.
ConsentRemoved(t) ==
    /\ At(t, "removeConsent")
    /\ consent' = IF consent = "granted" THEN "ask" ELSE consent
    /\ agent' = FALSE
    /\ Suspend(t, "removeSave")
    /\ UNCHANGED <<disk, maps, queue, live, late, mcpState, registered, lost, broken>>

\* A server that is edited is then added again.
Removed(t) ==
    /\ At(t, "removeSave")
    /\ disk' = "none" /\ cfg' = "none"
    /\ UNCHANGED <<client, pid, tools, status, queue, live, late, consent, mcpState, lost, broken>>
    /\ emitToolsChanged
    /\ IF task[t].op = "edit" THEN Suspend(t, "addSave") /\ agent' = TRUE
       ELSE End(t) /\ UNCHANGED agent

(***************************************************************************)
(* updateServerPermission                                                  *)
(***************************************************************************)
PermittedAs(op) == IF op = "enable" THEN "on" ELSE "off"

\* Without an entry in agentConfig the server is saved as null, which removes it from the file.
UpdateServerPermission(t, op) ==
    /\ mcpState /\ At(t, "idle")
    /\ IF cfg = "none"
       THEN /\ status' = "error"
            /\ UNCHANGED <<task, cfg, tools>>
            /\ emitToolsChanged
       ELSE /\ cfg' = PermittedAs(op)
            /\ Start(t, op, IF agent THEN "permSave" ELSE "permUnsave")
            /\ UNCHANGED <<tools, status, registered>>
    /\ UNCHANGED <<disk, agent, client, pid, queue, live, late, consent, mcpState, lost, broken>>

\* The server is closed, initialised or left as it is, by what its configuration says now.
PermissionSaved(t) ==
    /\ task[t].at \in {"permSave", "permUnsave"}
    /\ disk' = IF At(t, "permUnsave") THEN "none"
               ELSE IF cfg = "none" THEN PermittedAs(task[t].op) ELSE cfg
    /\ UNCHANGED <<agent, cfg, client, pid, tools, consent, lost, broken, mcpState>>
    /\ \/ /\ cfg = "off" /\ client # None
          /\ CloseClient /\ task' = [task EXCEPT ![t] = [Idle EXCEPT !.at = "permClose"]]
          /\ UNCHANGED <<status, queue, registered>>
       \/ /\ cfg = "off" /\ client = None
          /\ status' = "other" /\ emitToolsChanged /\ End(t)
          /\ UNCHANGED <<queue, live, late>>
       \/ /\ cfg # "off" /\ client # None
          /\ emitToolsChanged /\ End(t)
          /\ UNCHANGED <<status, queue, live, late>>
       \/ /\ cfg # "off" /\ client = None
          /\ Suspend(t, IF cfg = "on" THEN "lock" ELSE "lockLost")
          /\ queue' = Append(queue, t)
          /\ UNCHANGED <<status, live, late, registered>>

PermissionClosed(t) ==
    /\ At(t, "permClose")
    /\ UNCHANGED <<live, late>>
    /\ DropClient
    /\ status' = "other"
    /\ UNCHANGED <<disk, agent, cfg, pid, tools, queue, consent, mcpState>>
    /\ emitToolsChanged /\ End(t)

\* The file cannot be written, or the close is rejected.
PermissionFails(t) ==
    /\ \/ task[t].at \in {"permSave", "permUnsave"} /\ UNCHANGED <<live, late, lost, broken>>
       \/ At(t, "permClose") /\ CloseRejected
    /\ status' = "error"
    /\ UNCHANGED <<disk, agent, cfg, client, pid, tools, queue, consent, mcpState>>
    /\ emitToolsChanged /\ End(t)

(***************************************************************************)
(* close, reinitializeMcpServers and discoverAllServers, and the profile   *)
(* monitor's callbacks that switch MCP off and on                          *)
(***************************************************************************)
\* close(true): clients are closed and processes killed, all the maps are cleared later.
Close(t, op) ==
    /\ Start(t, op, "closing")
    /\ live' = live \ {client, pid} /\ late' = late \ {client, pid} /\ lost' = lost \cap live'
    /\ UNCHANGED <<disk, agent, maps, queue, consent, broken>>

Refresh(t) ==
    /\ Close(t, "refresh")
    /\ UNCHANGED <<mcpState, registered>>

\* removeAllMcpTools
McpDisabled(t) ==
    /\ mcpState /\ mcpState' = FALSE
    /\ registered' = {}
    /\ Close(t, "mcpOff")

AllClosed(t) ==
    /\ At(t, "closing")
    /\ UNCHANGED <<live, late>>
    /\ DropClient
    /\ pid' = None /\ tools' = {} /\ cfg' = "none" /\ status' = "other" /\ agent' = FALSE
    /\ consent' = IF consent = "denied" THEN "ask" ELSE consent
    /\ IF task[t].op = "refresh" /\ mcpState THEN Suspend(t, "loading") ELSE End(t)
    /\ UNCHANGED <<disk, queue, mcpState, registered>>

\* At the start, and when an administrator allows MCP again.
McpEnabled(t) ==
    /\ ~mcpState /\ mcpState' = TRUE
    /\ Start(t, "mcpOn", "loading")
    /\ UNCHANGED <<disk, agent, maps, queue, live, late, consent, registered, lost, broken>>

\* discoverAllServers: a server that is not in the file keeps the state it has.
Loaded(t) ==
    /\ At(t, "loading")
    /\ cfg' = disk /\ agent' = (disk # "none")
    /\ UNCHANGED <<disk, client, pid, tools, live, late, consent, mcpState, lost, broken>>
    /\ \/ disk = "none" /\ End(t) /\ UNCHANGED <<status, queue, registered>>
       \/ disk = "off" /\ status' = "other" /\ emitToolsChanged /\ End(t) /\ UNCHANGED queue
       \/ disk = "on" /\ status' = "other" /\ RequestInit(t) /\ UNCHANGED registered

InitStep(t) ==
    \/ Acquire(t) \/ AcquireLost(t) \/ Allowed(t) \/ NotAllowed(t) \/ CleanedUp(t)
    \/ Connected(t) \/ ConnectFails(t) \/ ConnectTimesOut(t)
    \/ Listed(t) \/ ListFails(t) \/ GaveUp(t) \/ NotGivenUp(t)

ServerStep(t) ==
    \/ AddServer(t) \/ AddSaved(t) \/ AddNotSaved(t) \/ Unsaved(t)
    \/ RemoveClosed(t) \/ ConsentRemoved(t) \/ Removed(t) \/ RemoveFails(t)
    \/ PermissionSaved(t) \/ PermissionClosed(t) \/ PermissionFails(t)
    \/ AllClosed(t) \/ Loaded(t)

Request(t) ==
    \/ SaveForm(t) \/ RemoveServer(t)
    \/ \E op \in {"enable", "disable"} : UpdateServerPermission(t, op)
    \/ Refresh(t) \/ McpDisabled(t) \/ McpEnabled(t)

Next ==
    \/ \E t \in Tasks : InitStep(t) \/ ServerStep(t) \/ Request(t)
    \/ \E c \in Conns : LateConnection(c)

Spec == Init /\ [][Next]_vars

(***************************************************************************)
(* Properties                                                              *)
(***************************************************************************)
TypeOK ==
    /\ task \in [Tasks -> [op : Ops, at : Awaits, conn : Conns \cup {None},
                           seenPid : Conns \cup {None}]]
    /\ disk \in Configs /\ cfg \in Configs /\ agent \in BOOLEAN
    /\ {client, pid} \subseteq Conns \cup {None}
    /\ tools \subseteq Conns /\ registered \subseteq Conns
    /\ status \in Statuses
    /\ queue \in Seq(Tasks)
    /\ consent \in {"global", "ask", "granted", "denied"}
    /\ lost \cup late \subseteq live /\ live \subseteq Conns
    /\ mcpState \in BOOLEAN /\ broken \in BOOLEAN

\* Whatever operations overlap, the exclusive initialisation and the clean-up before it let at most
\* one connection to the server be open, apart from those that no map knows of.
OneConnection == Cardinality(live \ (late \cup lost)) <= 1

Settled == \A t \in Tasks : At(t, "idle")

\* When no operation is in progress, the client that callTool would use is open and the tools that
\* are listed are its own, unless its close was rejected; and no connection is open but it and the
\* stray ones.
SettledClient ==
    Settled => /\ live \subseteq {client} \cup late \cup lost
               /\ client # None /\ ~broken => client \in live /\ tools = {client}

\* The agent has no tool of the server while an administrator has switched MCP off, nor when the
\* user has disabled the server and no operation is in progress.
NoToolsWhenOff ==
    /\ ~mcpState => registered = {}
    /\ Settled /\ cfg = "off" => registered = {}
=============================================================================
