--------------------------- MODULE RemoteWorkspace ---------------------------
(***************************************************************************)
(* The remote workspace of the workspace context server: the opt-in and    *)
(* log-in that start and stop it (workspaceContextServer.ts), the monitors *)
(* that find, create and connect it (workspaceFolderManager.ts) with the   *)
(* clients of its WebSocket (WebSocketClient).  Each callback runs from    *)
(* one await to the next; the service answers in the order in which it is  *)
(* seen to change.  The editor has a folder open.                          *)
(***************************************************************************)
EXTENDS WebSocketClient

CONSTANTS Polls,      \* bound on the intervals of waitForInitialConnection that overlap
          MaxCalls,   \* bound on the calls in flight of one of them
          Outs,       \* bound on the intervals of startOptOutMonitor
          MaxFaults,  \* bound on what the user, the service and the network disturb
          None        \* no interval

ASSUME WorkspaceAssumption ==
    /\ None \notin Polls \cup Outs /\ Polls \cup Outs \subseteq Nat
    /\ MaxCalls \in Nat /\ MaxFaults \in Nat

VARIABLES optedIn,
          profile,      \* getCodewhispererService does not throw: a profile is selected
          active,       \* ~IdleWorkspaceManager.isSessionIdle()
          initialized,  \* isWorkflowInitialized
          evaluation,   \* of the A/B test: "no", "running", or its outcome, "in" or "out"
          missed,       \* ghost: marked as initialized while the user was opted out
          adminOut,     \* isOptedOut
          disabled,     \* featureDisabled
          admin,        \* what the service allows: "in", "out" or "disabled"
          remote,       \* the workspace of the service
          deleting,     \* a deletion is in flight
          monitor,      \* continuousMonitorInterval
          outMonitor,   \* optOutMonitorInterval
          outTimers,    \* the intervals of that monitor that run
          outCalls,     \* those whose answer is due
          check,        \* where checkRemoteWorkspaceStatusAndReact is
          waitFor,      \* the interval of waitForInitialConnection that it waits for
          polls,        \* the intervals of waitForInitialConnection that run
          pollCalls,    \* how many of their answers are due
          uploading,    \* uploadAllArtifactsToRemoteWorkspace is in progress
          hasId,        \* workspaceState.workspaceId
          resolved,     \* remoteWorkspaceIdPromiseResolved
          waiting,      \* folders that wait for the promise: "no", "yes" or "orphan"
          faults

user == <<optedIn, loggedIn, profile>>
workflow == <<initialized, evaluation, missed>>
service == <<admin, remote, deleting>>
outs == <<outMonitor, outTimers, outCalls>>
checking == <<check, waitFor, polls, pollCalls, uploading>>
gate == <<hasId, resolved, waiting>>
vars == <<user, active, workflow, adminOut, disabled, service, monitor, outs, checking, gate, sockets,
          faults>>

Remotes == {"none", "CREATED", "PENDING", "READY"}

Init ==
    /\ optedIn \in BOOLEAN /\ loggedIn \in BOOLEAN /\ profile \in BOOLEAN /\ active = FALSE
    /\ initialized = FALSE /\ evaluation = "no" /\ missed = FALSE
    /\ adminOut = FALSE /\ disabled = TRUE
    /\ admin = "in" /\ remote \in Remotes \ {"PENDING"} /\ deleting = FALSE
    /\ monitor = FALSE
    /\ outMonitor = None /\ outTimers = {} /\ outCalls = {}
    /\ check = "idle" /\ waitFor = None /\ polls = {}
    /\ pollCalls = [i \in Polls |-> 0] /\ uploading = FALSE
    /\ hasId = FALSE /\ resolved = FALSE /\ waiting = "no"
    /\ current = NoClient /\ sock = [c \in Clients |-> Closed] /\ dropped = {}
    /\ faults = 0

Fault == faults < MaxFaults /\ faults' = faults + 1

\* Requests reach the service.
Reachable == loggedIn /\ profile

(***************************************************************************)
(* The sockets                                                             *)
(***************************************************************************)
Opened(c) ==
    /\ sock[c].st = "connecting" /\ remote = "READY"
    /\ sock' = [sock EXCEPT ![c] = [st |-> "open", tries |-> 0]]
    /\ UNCHANGED <<user, active, workflow, adminOut, disabled, service, monitor, outs, checking, gate,
                   current, dropped, faults>>

\* The service answers the handshake with something else than an upgrade, which is only logged.
Refused(c) ==
    /\ sock[c].st = "connecting"
    /\ IF remote = "READY" THEN Fault ELSE UNCHANGED faults
    /\ sock' = [sock EXCEPT ![c].st = "refused"]
    /\ UNCHANGED <<user, active, workflow, adminOut, disabled, service, monitor, outs, checking, gate,
                   current, dropped>>

\* A socket that is on its way fails, or one that is open starts to close.
Lost(c) ==
    /\ IF remote = "READY" THEN Fault ELSE UNCHANGED faults
    /\ \/ sock[c].st = "connecting" /\ SetSock([sock EXCEPT ![c] = Disconnected(@)], FALSE)
       \/ sock[c].st = "open" /\ SetSock([sock EXCEPT ![c].st = "closing"], FALSE)
    /\ UNCHANGED <<user, active, workflow, adminOut, disabled, service, monitor, outs, checking, gate,
                   current>>

\* onclose: cleanly, and then for good, or not.
CloseEvent(c) ==
    /\ sock[c].st = "closing"
    /\ \E s \in {Closed, Disconnected(sock[c])} : SetSock([sock EXCEPT ![c] = s], FALSE)
    /\ UNCHANGED <<user, active, workflow, adminOut, disabled, service, monitor, outs, checking, gate,
                   current, faults>>

Reconnect(c) ==
    /\ sock[c].st = "backoff"
    /\ SetSock([sock EXCEPT ![c] = connect(@)], FALSE)
    /\ UNCHANGED <<user, active, workflow, adminOut, disabled, service, monitor, outs, checking, gate,
                   current, faults>>

(***************************************************************************)
(* The promise of the workspace's id, and the folders that wait for it     *)
(***************************************************************************)
Resolve == resolved' = TRUE /\ waiting' = IF waiting = "yes" THEN "no" ELSE waiting

\* Mutant: a promise that is not resolved is replaced too.
Replaced_always(w) == IF w = "yes" THEN "orphan" ELSE w

\* Nobody will resolve a promise that another has replaced.
Replaced(w) == IF resolved /\ w = "yes" THEN "orphan" ELSE w

setRemoteWorkspaceId ==
    IF hasId THEN UNCHANGED gate ELSE hasId' = TRUE /\ Resolve

resetRemoteWorkspaceId ==
    hasId' = FALSE /\ resolved' = FALSE /\ waiting' = Replaced(waiting)

\* processNewWorkspaceFolders: a promise that is resolved is not waited for.
FoldersAdded ==
    /\ optedIn /\ loggedIn /\ evaluation = "in" /\ ~adminOut /\ ~disabled
    /\ ~resolved /\ waiting = "no" /\ waiting' = "yes"
    /\ UNCHANGED <<user, active, workflow, adminOut, disabled, service, monitor, outs, checking, hasId,
                   resolved, sockets, faults>>

(***************************************************************************)
(* What stops and starts the monitors                                      *)
(***************************************************************************)
stopOptOutMonitoring == outMonitor' = None /\ outTimers' = outTimers \ {outMonitor}

\* clearAllWorkspaceResources, except for the monitor of opt-outs
Clear ==
    /\ monitor' = FALSE
    /\ Resolve
    /\ DestroyCurrent /\ UNCHANGED current

clearAllWorkspaceResources == Clear /\ stopOptOutMonitoring /\ UNCHANGED hasId

\* What a check or a poll does when the administrator has opted out or the feature is disabled.
NotAllowed(answer) ==
    /\ Clear /\ UNCHANGED hasId
    /\ IF answer = "disabled"
       THEN disabled' = TRUE /\ stopOptOutMonitoring /\ UNCHANGED adminOut
       ELSE /\ adminOut' = TRUE /\ UNCHANGED disabled
            /\ LET others == outTimers \ {outMonitor} IN
               \E i \in Outs \ (others \cup outCalls) :
                  /\ \A j \in Outs \ (others \cup outCalls) : i <= j
                  /\ outMonitor' = i
                  /\ outTimers' = others \cup {i}

initializeWorkspaceStatusMonitor ==
    /\ hasId' = FALSE /\ resolved' = FALSE
    /\ active' = FALSE
    /\ monitor' = TRUE

\* updateConfiguration, from the answer to getConfiguration on: whoever opts out has the remote
\* workspace deleted.
UpdateConfiguration(in) ==
    /\ IF in THEN ~optedIn /\ UNCHANGED faults ELSE Fault
    /\ optedIn' = in
    /\ IF in
       THEN UNCHANGED <<initialized, missed, monitor, outs, gate, sockets, deleting>>
       ELSE /\ initialized' = FALSE /\ missed' = FALSE
            /\ monitor' = FALSE /\ stopOptOutMonitoring /\ UNCHANGED outCalls
            /\ DestroyCurrent /\ UNCHANGED current
            /\ hasId' = FALSE /\ resolved' = FALSE
            /\ waiting' = IF waiting = "yes" THEN "no" ELSE waiting
            /\ deleting' = (deleting \/ (hasId /\ Reachable))
    /\ UNCHANGED <<loggedIn, profile, active, evaluation, adminOut, disabled, admin, remote, checking>>

\* The second half of initializeWorkflow, once the A/B test has this outcome.
StartWorkflow(outcome) ==
    /\ initialized' = TRUE /\ evaluation' = outcome
    /\ missed' = ~(optedIn /\ loggedIn)
    /\ adminOut' = FALSE /\ disabled' = FALSE
    /\ IF optedIn /\ loggedIn /\ outcome = "in"
       THEN initializeWorkspaceStatusMonitor /\ waiting' = Replaced(waiting)
       ELSE UNCHANGED <<active, monitor, gate>>
    /\ UNCHANGED <<outs, sockets>>

\* initializeWorkflow, every five seconds.
WorkflowTick ==
    /\ optedIn /\ evaluation # "running"
    /\ \/ /\ Reachable /\ ~initialized /\ evaluation = "no"
          /\ evaluation' = "running"
          /\ UNCHANGED <<initialized, missed, adminOut, disabled, active, monitor, gate, outs,
                         sockets>>
       \/ /\ Reachable /\ ~initialized /\ evaluation # "no"
          /\ StartWorkflow(evaluation)
       \/ /\ ~loggedIn /\ initialized
          /\ clearAllWorkspaceResources
          /\ initialized' = FALSE /\ missed' = FALSE
          /\ UNCHANGED <<evaluation, adminOut, disabled, active, outCalls>>
    /\ UNCHANGED <<user, service, check, waitFor, polls, pollCalls, uploading, faults>>

\* evaluateABTesting: one failure leaves the user out of the test for the whole session.
Evaluated ==
    /\ evaluation = "running"
    /\ \E outcome \in {"in", "out"} : StartWorkflow(outcome)
    /\ UNCHANGED <<user, service, check, waitFor, polls, pollCalls, uploading, faults>>

(***************************************************************************)
(* checkRemoteWorkspaceStatusAndReact                                      *)
(***************************************************************************)
\* listWorkspaceMetadata: an error that is none of the administrator's costs a fault, and so does
\* a workspace that is ready without an environment or its address.
ListAnswer(answer) ==
    \/ answer = "error" /\ ~Reachable /\ UNCHANGED faults
    \/ answer = "error" /\ Reachable /\ Fault
    \/ answer = "incomplete" /\ Reachable /\ admin = "in" /\ remote = "READY" /\ Fault
    \/ Reachable /\ answer = (IF admin = "in" THEN remote ELSE admin) /\ UNCHANGED faults

Answers == Remotes \cup {"incomplete", "error", "out", "disabled"}

\* Every thirty minutes, unless a check is in progress.
MonitorTick ==
    /\ monitor /\ check = "idle"
    /\ \/ active /\ check' = "listing" /\ UNCHANGED sockets
       \/ ~active /\ ResetWebSocketClient /\ UNCHANGED check
    /\ UNCHANGED <<user, active, workflow, adminOut, disabled, service, monitor, outs, waitFor, polls,
                   pollCalls, uploading, gate, faults>>

\* recordActivityTimestamp: the first activity starts a check at once.
RecordActivity ==
    /\ ~active /\ active' = TRUE
    /\ check' = IF monitor /\ check = "idle" THEN "listing" ELSE check
    /\ UNCHANGED <<user, workflow, adminOut, disabled, service, monitor, outs, waitFor, polls,
                   pollCalls, uploading, gate, sockets, faults>>

\* waitForInitialConnection
Wait ==
    LET free == {j \in Polls \ polls : pollCalls[j] = 0} IN
    \E i \in free :
       /\ \A j \in free : i <= j
       /\ check' = "waiting" /\ waitFor' = i
       /\ polls' = polls \cup {i}

\* The end of a check, which waits for the upload that it has started.
Finish(up) == check' = (IF up THEN "uploading" ELSE "idle") /\ waitFor' = None

ListAnswered ==
    /\ check = "listing"
    /\ \E answer \in Answers :
       /\ ListAnswer(answer)
       /\ \/ /\ answer \in {"out", "disabled"}
             /\ NotAllowed(answer)
             /\ Finish(FALSE)
             /\ UNCHANGED <<polls, uploading>>
          \/ /\ answer = "error"
             /\ Finish(FALSE)
             /\ UNCHANGED <<adminOut, disabled, monitor, outMonitor, outTimers, polls, uploading, gate,
                            sockets>>
          \/ /\ answer \in {"none", "CREATED"}
             /\ IF answer = "none"
                THEN resetRemoteWorkspaceId
                ELSE setRemoteWorkspaceId
             /\ ResetWebSocketClient
             /\ check' = "creating"
             /\ UNCHANGED <<adminOut, disabled, monitor, outMonitor, outTimers, polls, waitFor, uploading>>
          \/ /\ answer = "PENDING"
             /\ setRemoteWorkspaceId
             /\ uploading' \in BOOLEAN
             /\ Wait
             /\ UNCHANGED <<adminOut, disabled, monitor, outMonitor, outTimers, sockets>>
          \/ /\ answer = "READY"
             /\ setRemoteWorkspaceId
             /\ uploading' \in {FALSE, ~isConnected}
             /\ IF isConnected THEN UNCHANGED sockets ELSE establishConnection
             /\ Finish(uploading')
             /\ UNCHANGED <<adminOut, disabled, monitor, outMonitor, outTimers, polls>>
          \/ /\ answer = "incomplete"
             /\ setRemoteWorkspaceId
             /\ Finish(FALSE)
             /\ UNCHANGED <<adminOut, disabled, monitor, outMonitor, outTimers, polls, uploading,
                            sockets>>
    /\ UNCHANGED <<user, active, workflow, service, outCalls, pollCalls>>

\* createNewWorkspace, tried again once after an error that says so.
CreateAnswered ==
    /\ check \in {"creating", "retrying"}
    /\ \/ /\ Reachable /\ admin = "in"
          /\ remote' = IF remote \in {"none", "CREATED"} THEN "PENDING" ELSE remote
          /\ setRemoteWorkspaceId
          /\ uploading' = TRUE
          /\ Wait
          /\ UNCHANGED faults
       \/ /\ IF Reachable /\ admin = "in" THEN Fault ELSE UNCHANGED faults
          /\ check' \in {"idle"} \cup (IF check = "creating" THEN {"retrying"} ELSE {})
          /\ UNCHANGED <<remote, waitFor, polls, uploading, gate>>
    /\ UNCHANGED <<user, active, workflow, adminOut, disabled, admin, deleting, monitor, outs, pollCalls,
                   sockets>>

\* uploadAllArtifactsToRemoteWorkspace ends, or fails.
Uploaded ==
    /\ uploading /\ uploading' = FALSE
    /\ check' = IF check = "uploading" THEN "idle" ELSE check
    /\ UNCHANGED <<user, active, workflow, adminOut, disabled, service, monitor, outs, waitFor, polls,
                   pollCalls, gate, sockets, faults>>

(***************************************************************************)
(* The intervals of waitForInitialConnection and of startOptOutMonitor     *)
(***************************************************************************)
\* resolve: the check goes on if it is the one that waits for this interval.
Waited(i) ==
    IF waitFor = i THEN Finish(uploading) ELSE UNCHANGED <<check, waitFor>>

\* An interval does not wait for the answer to its last call.
PollTick(i) ==
    /\ i \in polls /\ pollCalls[i] < MaxCalls
    /\ pollCalls' = [pollCalls EXCEPT ![i] = @ + 1]
    /\ UNCHANGED <<user, active, workflow, adminOut, disabled, service, monitor, outs, check, waitFor,
                   polls, uploading, gate, sockets, faults>>

\* INITIAL_CONNECTION_TIMEOUT
PollTimesOut(i) ==
    /\ i \in polls
    /\ polls' = polls \ {i}
    /\ Waited(i)
    /\ UNCHANGED <<user, active, workflow, adminOut, disabled, service, monitor, outs, pollCalls,
                   uploading, gate, sockets, faults>>

\* Mutant: the promise of a poll that the administrator's opt-out ends is not resolved.
PollNotAllowed_hangs(i, answer) ==
    NotAllowed(answer) /\ polls' = polls \ {i} /\ UNCHANGED <<check, waitFor>>

\* The interval is not cleared, and goes on polling until its time-out.
PollNotAllowed(i, answer) ==
    NotAllowed(answer) /\ Waited(i) /\ UNCHANGED polls

PollAnswered(i) ==
    /\ pollCalls[i] > 0
    /\ pollCalls' = [pollCalls EXCEPT ![i] = @ - 1]
    /\ \E answer \in Answers :
       /\ ListAnswer(answer)
       /\ \/ /\ answer \in {"out", "disabled"}
             /\ PollNotAllowed(i, answer)
          \/ /\ answer \in {"error", "none", "PENDING"}
             /\ UNCHANGED <<adminOut, disabled, monitor, outMonitor, outTimers, polls, check, waitFor,
                            gate, sockets>>
          \/ /\ answer \in {"CREATED", "incomplete"}
             /\ polls' = polls \ {i} /\ Waited(i)
             /\ UNCHANGED <<adminOut, disabled, monitor, outMonitor, outTimers, gate, sockets>>
          \/ /\ answer = "READY"
             /\ polls' = polls \ {i} /\ Waited(i)
             /\ IF isConnected THEN UNCHANGED sockets ELSE establishConnection
             /\ UNCHANGED <<adminOut, disabled, monitor, outMonitor, outTimers, gate>>
    /\ UNCHANGED <<user, active, workflow, service, outCalls, uploading>>

OptOutTick(i) ==
    /\ i \in outTimers \ outCalls
    /\ outCalls' = outCalls \cup {i}
    /\ UNCHANGED <<user, active, workflow, adminOut, disabled, service, monitor, outMonitor, outTimers,
                   checking, gate, sockets, faults>>

\* Whatever the answer is, unless it is the opt-out, the monitor starts the workspace again.
OptOutAnswered(i) ==
    /\ i \in outCalls
    /\ outCalls' = outCalls \ {i}
    /\ \E answer \in Answers :
       /\ ListAnswer(answer)
       /\ \/ /\ answer = "out"
             /\ UNCHANGED <<outMonitor, outTimers, adminOut, disabled, active, monitor, gate>>
          \/ /\ answer \notin {"out", "incomplete"}
             /\ outMonitor' = None /\ outTimers' = outTimers \ {i}
             /\ disabled' = (disabled \/ answer = "disabled")
             /\ adminOut' = FALSE
             /\ initializeWorkspaceStatusMonitor
             /\ waiting' = IF Replaced(waiting) = "orphan" THEN "orphan" ELSE "yes"
    /\ UNCHANGED <<user, workflow, service, check, waitFor, polls, pollCalls, uploading, sockets>>

(***************************************************************************)
(* The user and the service                                                *)
(***************************************************************************)
LogInOrOut ==
    /\ loggedIn' = ~loggedIn
    /\ IF loggedIn THEN Fault ELSE UNCHANGED faults
    /\ UNCHANGED <<optedIn, profile, active, workflow, adminOut, disabled, service, monitor, outs,
                   checking, gate, sockets>>

\* The service manager gets, or loses, the client that its profile gives it.
SelectProfile ==
    /\ profile' = ~profile
    /\ IF profile THEN Fault ELSE UNCHANGED faults
    /\ UNCHANGED <<optedIn, loggedIn, active, workflow, adminOut, disabled, service, monitor, outs,
                   checking, gate, sockets>>

GoIdle ==
    /\ Fault /\ active /\ active' = FALSE
    /\ UNCHANGED <<user, workflow, adminOut, disabled, service, monitor, outs, checking, gate, sockets>>

Administer ==
    /\ admin' \in {"in", "out", "disabled"} \ {admin}
    /\ IF admin' # "in" THEN Fault ELSE UNCHANGED faults
    /\ UNCHANGED <<user, active, workflow, adminOut, disabled, remote, deleting, monitor, outs, checking,
                   gate, sockets>>

\* The environment of a workspace expires, or the workspace itself does.
Expire ==
    /\ Fault /\ remote # "none"
    /\ \/ remote = "READY" /\ remote' = "CREATED" /\ UNCHANGED deleting
       \/ remote' = "none" /\ deleting' = FALSE
    /\ UNCHANGED <<user, active, workflow, adminOut, disabled, admin, monitor, outs, checking, gate,
                   sockets>>

Provisioned ==
    /\ remote = "PENDING" /\ remote' = "READY"
    /\ UNCHANGED <<user, active, workflow, adminOut, disabled, admin, deleting, monitor, outs, checking,
                   gate, sockets, faults>>

\* deleteWorkspace, or its failure
Deleted ==
    /\ deleting /\ deleting' = FALSE
    /\ \/ remote' = "none" /\ UNCHANGED faults
       \/ Fault /\ UNCHANGED remote
    /\ UNCHANGED <<user, active, workflow, adminOut, disabled, admin, monitor, outs, checking, gate,
                   sockets>>

SocketStep(c) == Opened(c) \/ Refused(c) \/ Lost(c) \/ CloseEvent(c) \/ Reconnect(c)
PollStep(i) == PollTick(i) \/ PollTimesOut(i) \/ PollAnswered(i)
OptOutStep(i) == OptOutTick(i) \/ OptOutAnswered(i)
Environment == \/ LogInOrOut \/ SelectProfile \/ GoIdle \/ Administer \/ Expire
               \/ FoldersAdded \/ RecordActivity
               \/ \E in \in BOOLEAN : UpdateConfiguration(in)

Next ==
    \/ Environment \/ Provisioned \/ Deleted
    \/ WorkflowTick \/ Evaluated
    \/ MonitorTick \/ ListAnswered \/ CreateAnswered \/ Uploaded
    \/ \E i \in Polls : PollStep(i)
    \/ \E i \in Outs : OptOutStep(i)
    \/ \E c \in Clients : SocketStep(c)

\* Timers fire, and requests and sockets come to an end.  The user need not do anything.
Fairness ==
    /\ WF_vars(WorkflowTick \/ Evaluated)
    /\ WF_vars(MonitorTick \/ ListAnswered \/ CreateAnswered \/ Uploaded)
    /\ WF_vars(Provisioned)
    /\ \A i \in Polls : WF_vars(PollTimesOut(i)) /\ WF_vars(PollAnswered(i))
    /\ \A i \in Outs : WF_vars(OptOutStep(i))
    /\ \A c \in Clients : WF_vars(SocketStep(c) /\ UNCHANGED faults)

Spec == Init /\ [][Next]_vars /\ Fairness

(***************************************************************************)
(* Properties                                                              *)
(***************************************************************************)
TypeOK ==
    /\ {optedIn, loggedIn, profile, active, initialized, missed, adminOut, disabled, deleting, monitor,
        uploading, hasId, resolved} \subseteq BOOLEAN
    /\ evaluation \in {"no", "running", "in", "out"}
    /\ admin \in {"in", "out", "disabled"} /\ remote \in Remotes
    /\ outMonitor \in Outs \cup {None} /\ outTimers \cup outCalls \subseteq Outs
    /\ waitFor \in Polls \cup {None} /\ polls \subseteq Polls
    /\ pollCalls \in [Polls -> 0..MaxCalls]
    /\ check \in {"idle", "listing", "creating", "retrying", "waiting", "uploading"}
    /\ waiting \in {"no", "yes", "orphan"}
    /\ current \in Clients \cup {NoClient} /\ dropped \subseteq Clients
    /\ sock \in [Clients -> [st : {"closed", "connecting", "refused", "open", "closing", "backoff"},
                            tries : 0..MaxReconnects]]
    /\ faults \in 0..MaxFaults

Eligible == optedIn /\ Reachable /\ evaluation = "in" /\ admin = "in" /\ ~disabled

\* The handshake of the current client was refused, and it keeps its place.
Stuck == current # NoClient /\ sock[current].st = "refused"

\* The workspace is connected in the end whenever a user who has opted in, is logged in with a
\* profile and is in the treatment of the A/B test goes on being active, and the administrator
\* allows it, whatever happened before; unless the workflow was marked as initialized while the user
\* was opted or logged out, or the current client is left with a handshake that was refused.
ConnectedInTheEnd == [](<>[](Eligible /\ active /\ ~missed /\ ~Stuck) => <>isConnected)

\* The folders of such a user that wait for the id of the workspace do not wait for ever, whether
\* its handshakes are refused or not.
FoldersProceed == [](<>[](Eligible /\ active /\ ~missed) => <>(waiting = "no"))
=============================================================================
