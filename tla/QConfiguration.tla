---------------------------- MODULE QConfiguration ----------------------------
(***************************************************************************)
(* BaseAmazonQServiceManager.handleDidChangeConfiguration: how the service *)
(* manager of QServiceManager learns of the client's settings.  A          *)
(* notification only says that something changed; the server then asks     *)
(* the client for the section aws.q and, after its answer, for             *)
(* aws.codeWhisperer.  Notifications and answers reach the server in the   *)
(* order the client sent them (one JSON-RPC connection).                   *)
(***************************************************************************)
EXTENDS QServiceManager, Sequences

CONSTANTS
    MaxEdits,   \* bound on the number of times the user edits the settings
    ReadsFail   \* whether a workspace/configuration request may fail

ASSUME EditAssumption == MaxEdits \in Nat /\ ReadsFail \in BOOLEAN

VARIABLES
    client,     \* the settings as the client has them
    edits,      \* the number of edits so far
    asked,      \* the section the client was asked for: "none", "q" or "cw"
    channel,    \* notifications and answers under way to the server
    task,       \* the running handleDidChangeConfiguration
    told,       \* what the listeners were last called with
    missed      \* whether the server overlooked something since its last read

configVars == <<client, edits, asked, channel, task, told, missed>>
allVars == <<vars, configVars>>

Settings == [q : QSettings, cw : CwSettings]
Change == [kind |-> "change"]

\* at is "idle" exactly when isConfigChangeInProgress is false, and else "reading q",
\* "reading cw" or "notifying".
NoTask == [at |-> "idle", q |-> Unread]

\* The initialized notification calls the same handler as a change.
ConfigInit ==
    /\ Init
    /\ client \in Settings
    /\ edits = 0
    /\ asked = "none"
    /\ channel = <<Change>>
    /\ task = NoTask
    /\ told = config
    /\ missed = FALSE

-----------------------------------------------------------------------------
(* The client.                                                             *)

Edit(s) ==
    /\ edits < MaxEdits
    /\ s # client
    /\ client' = s
    /\ edits' = edits + 1
    /\ channel' = Append(channel, Change)
    /\ UNCHANGED <<vars, asked, task, told, missed>>

ClientAnswers ==
    /\ asked # "none"
    /\ \E v \in {client[asked]} \cup (IF ReadsFail THEN {Unread} ELSE {}) :
          channel' = Append(channel, [kind |-> "answer", value |-> v])
    /\ asked' = "none"
    /\ UNCHANGED <<vars, client, edits, task, told, missed>>

-----------------------------------------------------------------------------
(* The server.                                                             *)

Incoming(kind) ==
    /\ channel # <<>>
    /\ Head(channel).kind = kind
    /\ channel' = Tail(channel)

\* A change that arrives while another is handled is dropped.
handleDidChangeConfiguration ==
    /\ Incoming("change")
    /\ IF task.at = "idle"
       THEN /\ task' = [NoTask EXCEPT !.at = "reading q"]
            /\ asked' = "q"
            /\ missed' = FALSE
       ELSE /\ missed' = TRUE
            /\ UNCHANGED <<task, asked>>
    /\ UNCHANGED <<vars, client, edits, told>>

ReadQ ==
    /\ task.at = "reading q"
    /\ Incoming("answer")
    /\ task' = [at |-> "reading cw", q |-> Head(channel).value]
    /\ asked' = "cw"
    /\ missed' = (missed \/ Head(channel).value = Unread)
    /\ UNCHANGED <<vars, client, edits, told>>

\* Mutant: the first section is lost while the second is read.
ReadCwForgettingQ ==
    /\ task.at = "reading cw"
    /\ Incoming("answer")
    /\ ApplyConfiguration(Unread, Head(channel).value)
    /\ told' = config'
    /\ task' = [NoTask EXCEPT !.at = "notifying"]
    /\ missed' = (missed \/ Head(channel).value = Unread)
    /\ UNCHANGED <<client, edits, asked>>

\* The listeners are called before the first of them is awaited.
ReadCw ==
    /\ task.at = "reading cw"
    /\ Incoming("answer")
    /\ ApplyConfiguration(task.q, Head(channel).value)
    /\ told' = config'
    /\ task' = [NoTask EXCEPT !.at = "notifying"]
    /\ missed' = (missed \/ Head(channel).value = Unread)
    /\ UNCHANGED <<client, edits, asked>>

\* Mutant: a listener does not settle.
ListenersHang ==
    /\ task.at = "notifying"
    /\ task' = task
    /\ UNCHANGED <<vars, client, edits, asked, channel, told, missed>>

\* All listeners have settled; one that throws is logged like one that returns.
ListenersSettle ==
    /\ task.at = "notifying"
    /\ task' = NoTask
    /\ UNCHANGED <<vars, client, edits, asked, channel, told, missed>>

\* Steps of the manager that read or rebuild the clients meanwhile.
OtherHandlers ==
    /\ \/ \E c \in Credentials : handleOnCredentialsUpdated(c)
       \/ handleOnCredentialsDeleted
       \/ \E p \in Profiles \cup {NoProfile} : handleProfileChange(p)
       \/ getCodewhispererService
    /\ UNCHANGED configVars

Server == handleDidChangeConfiguration \/ ReadQ \/ ReadCw

ConfigNext ==
    \/ \E s \in Settings : Edit(s)
    \/ ClientAnswers
    \/ Server
    \/ ListenersSettle
    \/ OtherHandlers

ConfigSpec == ConfigInit /\ [][ConfigNext]_allVars

(***************************************************************************)
(* The client answers, messages are delivered and handled, and listeners   *)
(* settle.  Nothing is assumed of the user or of the other handlers.       *)
(***************************************************************************)
FairConfigSpec ==
    /\ ConfigSpec
    /\ WF_allVars(ClientAnswers)
    /\ WF_allVars(Server)
    /\ WF_allVars(ListenersSettle)

-----------------------------------------------------------------------------
(* Properties.                                                             *)

Quiet == task.at = "idle" /\ asked = "none" /\ channel = <<>>

(***************************************************************************)
(* When nothing is under way and neither a change was dropped nor a read   *)
(* failed since the last read began, the server and its listeners have     *)
(* the client's settings, however edits and the two reads interleaved.     *)
(***************************************************************************)
CurrentUnlessMissed == Quiet /\ ~missed => config = client /\ told = client

(***************************************************************************)
(* A change that is handled comes to an end, so that the flag              *)
(* isConfigChangeInProgress does not shut out later changes for ever, and  *)
(* every notification is eventually handled or dropped.                    *)
(***************************************************************************)
ChangesFinish ==
    /\ task.at # "idle" ~> task.at = "idle"
    /\ []<>(channel = <<>>)
===============================================================================
