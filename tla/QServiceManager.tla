--------------------------- MODULE QServiceManager ---------------------------
(***************************************************************************)
(* AmazonQTokenServiceManager: the singleton that holds the two clients    *)
(* every Amazon Q feature talks through (the CodeWhisperer service and the *)
(* streaming client) and decides, from the bearer credentials and from the *)
(* developer profile the client chose, which region and profile they are   *)
(* bound to.                                                               *)
(*                                                                         *)
(* All handlers run to completion without an await (handleProfileChange is *)
(* async, but awaits nothing), so each of them is one action.  They share  *)
(* the fields of the object, kept here in one record, mgr, and the helpers *)
(* that several of them call are operators from a record to a record.      *)
(***************************************************************************)
EXTENDS Naturals, FiniteSets

CONSTANTS
    Profiles,        \* the profile ARNs a client may select
    NoProfile,
    RegionOf,        \* the region parsed from a profile's ARN
    Regions,         \* the regions of AWS_Q_ENDPOINTS
    NoRegion,
    DefaultRegion,   \* DEFAULT_AWS_Q_REGION
    ClientRegion,    \* initializationOptions.aws.region, or NoRegion
    RuntimeRegion,   \* the AWS_Q_REGION variable of the runtime, or NoRegion
    ProfileSupport,  \* enableDeveloperProfileSupport
    Identities,      \* the people who may sign in
    QSettings,       \* values of the section aws.q: the customization
    CwSettings,      \* values of aws.codeWhisperer: the sharing of content
    DefaultQ, DefaultCw,
    Unread,          \* a section that could not be read from the client
    NoCreds, NoClient, Deaf

ASSUME ProfileAssumption == NoProfile \notin Profiles
ASSUME RegionAssumption ==
    /\ DefaultRegion \in Regions
    /\ NoRegion \notin Regions
    /\ Deaf \notin Regions
    /\ Deaf # NoRegion
ASSUME SettingAssumption ==
    /\ DefaultQ \in QSettings
    /\ DefaultCw \in CwSettings
    /\ Unread \notin QSettings
    /\ Unread \notin CwSettings
    /\ ProfileSupport \in BOOLEAN

VARIABLES
    creds,     \* the bearer credentials held by the runtime's provider
    mgr,       \* the fields of the manager
    config,    \* configurationCache
    served,    \* what the last request for a client got, NoClient if refused
    notified   \* the identities told that they are blocked, since sign-out

vars == <<creds, mgr, config, served, notified>>

ConnectionTypes == {"none", "builderId", "external_idp", "identityCenter"}
States == {"PENDING_CONNECTION", "PENDING_Q_PROFILE",
           "PENDING_Q_PROFILE_UPDATE", "INITIALIZED"}
Notifiers == {"none", "armed", "fired"}

Services == [region : Regions, profile : Profiles \cup {NoProfile},
             q : QSettings, cw : CwSettings]
StreamingClients == [region : Regions, profile : Profiles \cup {NoProfile},
                     cw : CwSettings]
Credentials == [identity : Identities, type : ConnectionTypes]

ASSUME NullAssumption ==
    /\ NoClient \notin Services
    /\ NoClient \notin StreamingClients
    /\ NoCreds \notin Credentials

(***************************************************************************)
(* heard is what the listener given to onRegionChange was last called with *)
(* (Deaf while there is none), and orphaned says whether a client was ever *)
(* replaced while its in-flight requests had not been aborted.             *)
(***************************************************************************)
Managers == [state : States, connectionType : ConnectionTypes,
             profile : Profiles \cup {NoProfile},
             region : Regions \cup {NoRegion},
             service : Services \cup {NoClient},
             streaming : StreamingClients \cup {NoClient},
             notifier : Notifiers,
             heard : Regions \cup {NoRegion, Deaf},
             orphaned : BOOLEAN]

\* The fields of the manager, the provider's credentials and the cached
\* configuration keep the types their TypeScript declarations give them.
TypeOK ==
    /\ creds \in Credentials \cup {NoCreds}
    /\ mgr \in Managers
    /\ config \in [q : QSettings, cw : CwSettings]
    /\ served \in Services \cup StreamingClients \cup {NoClient}
    /\ notified \subseteq Identities

Init ==
    /\ creds = NoCreds
    /\ mgr = [state |-> "PENDING_CONNECTION", connectionType |-> "none",
              profile |-> NoProfile, region |-> NoRegion,
              service |-> NoClient, streaming |-> NoClient,
              notifier |-> "none", heard |-> Deaf, orphaned |-> FALSE]
    /\ config = [q |-> DefaultQ, cw |-> DefaultCw]
    /\ served = NoClient
    /\ notified = {}

-----------------------------------------------------------------------------
(* Helpers of the handlers.                                                *)

\* A region without a known endpoint falls back to the default region.
getAmazonQRegionAndEndpoint(asked) ==
    LET region == IF asked # NoRegion THEN asked ELSE RuntimeRegion
    IN  IF region \in Regions THEN region ELSE DefaultRegion

resetCodewhispererService(m) ==
    [m EXCEPT !.service = NoClient, !.streaming = NoClient,
              !.notifier = "none",
              !.profile = NoProfile, !.region = NoRegion]

serviceFactory(m, region) ==
    [region |-> region, profile |-> m.profile,
     q |-> config.q, cw |-> config.cw]

\* Mutant: the streaming client is built without the active profile.
StreamingClientWithoutProfile(m, region) ==
    [region |-> region, profile |-> NoProfile, cw |-> config.cw]

streamingClientFactory(m, region) ==
    [region |-> region, profile |-> m.profile, cw |-> config.cw]

getQDevAccessBlockedNotifier(m) ==
    IF m.notifier = "none" THEN "armed" ELSE m.notifier

createCodewhispererServiceInstances(m, type, asked) ==
    LET region == getAmazonQRegionAndEndpoint(asked)
    IN  [m EXCEPT !.connectionType = type,
                  !.region = region,
                  !.service = serviceFactory(m, region),
                  !.streaming = streamingClientFactory(m, region),
                  !.notifier = getQDevAccessBlockedNotifier(m),
                  !.orphaned = m.orphaned \/ m.service # NoClient
                                          \/ m.streaming # NoClient]

Connected(m, type, asked) ==
    [createCodewhispererServiceInstances(m, type, asked)
        EXCEPT !.state = "INITIALIZED"]

SignedOut(m) ==
    [resetCodewhispererService(m)
        EXCEPT !.connectionType = "none", !.state = "PENDING_CONNECTION"]

\* The clients of a new connection; Identity Center may have to wait for a
\* profile.
Reconnected(m, type) ==
    IF type \in {"builderId", "external_idp"}
    THEN Connected(m, type, ClientRegion)
    ELSE IF ProfileSupport
         THEN [m EXCEPT !.connectionType = type,
                        !.state = "PENDING_Q_PROFILE"]
         ELSE Connected(m, type, NoRegion)

\* Mutant: only the first connection builds clients.
FirstConnectionOnly(m, c) ==
    IF c = NoCreds \/ c.type = "none"
    THEN IF m.state # "PENDING_CONNECTION" THEN SignedOut(m) ELSE m
    ELSE IF m.connectionType # "none"
         THEN m
         ELSE Reconnected(resetCodewhispererService(m), c.type)

(***************************************************************************)
(* Every request and every profile update first compares the connection    *)
(* type of the provider with the one the clients were built for.           *)
(***************************************************************************)
handleSsoConnectionChange(m, c) ==
    IF c = NoCreds \/ c.type = "none"
    THEN IF m.state # "PENDING_CONNECTION" THEN SignedOut(m) ELSE m
    ELSE IF c.type = m.connectionType
         THEN m
         ELSE Reconnected(resetCodewhispererService(m), c.type)

-----------------------------------------------------------------------------
(* Credentials.                                                            *)

(***************************************************************************)
(* Credentials are stored by the runtime.  A runtime older than the        *)
(* onCredentialsUpdated event does not call the manager.                   *)
(***************************************************************************)
handleOnCredentialsUpdated(c) ==
    /\ creds' = c
    /\ \/ mgr' = handleSsoConnectionChange(mgr, c)
       \/ UNCHANGED mgr
    /\ served' = NoClient
    /\ UNCHANGED <<config, notified>>

handleOnCredentialsDeleted ==
    /\ creds # NoCreds
    /\ creds' = NoCreds
    /\ mgr' = SignedOut(mgr)
    /\ served' = NoClient
    /\ notified' = {}
    /\ UNCHANGED config

-----------------------------------------------------------------------------
(* Profiles.                                                               *)

\* The connection the update works on, and no API call until it is done.
Updating(m) ==
    IF m.connectionType = "none"
    THEN [m EXCEPT !.connectionType = "identityCenter",
                   !.state = "PENDING_Q_PROFILE_UPDATE"]
    ELSE IF \/ m.state = "INITIALIZED" /\ m.profile # NoProfile
            \/ m.state = "PENDING_Q_PROFILE"
         THEN [m EXCEPT !.state = "PENDING_Q_PROFILE_UPDATE"]
         ELSE m

Repoint(client, p) ==
    IF client = NoClient THEN NoClient ELSE [client EXCEPT !.profile = p]

\* Mutant: the old clients are not reset before a switch.
SwitchWithoutReset(m, p) ==
    IF RegionOf[p] \notin Regions
    THEN m
    ELSE Connected([m EXCEPT !.profile = p], "identityCenter", RegionOf[p])

\* Mutant: a switch of regions does not call the listeners.
SwitchUnheard(m, p) ==
    IF RegionOf[p] \notin Regions
    THEN m
    ELSE Connected([resetCodewhispererService(m) EXCEPT !.profile = p],
                   "identityCenter", RegionOf[p])

(***************************************************************************)
(* The part of handleProfileChange after the state was set to pending.  An *)
(* ARN that does not parse, or of a region without an endpoint, throws and *)
(* leaves the manager as it is at that point.                              *)
(***************************************************************************)
SelectProfile(m, p) ==
    CASE RegionOf[p] \notin Regions -> m
      [] RegionOf[p] \in Regions /\ m.profile = NoProfile ->
            Connected([m EXCEPT !.profile = p], "identityCenter", RegionOf[p])
      [] RegionOf[p] \in Regions /\ m.profile = p ->
            [m EXCEPT !.state = "INITIALIZED"]
      [] RegionOf[p] \in Regions /\ m.profile \notin {NoProfile, p}
                                 /\ RegionOf[m.profile] = RegionOf[p] ->
            [m EXCEPT !.profile = p, !.state = "INITIALIZED",
                      !.service = Repoint(m.service, p),
                      !.streaming = Repoint(m.streaming, p)]
      [] RegionOf[p] \in Regions /\ m.profile \notin {NoProfile, p}
                                 /\ RegionOf[m.profile] # RegionOf[p] ->
            Connected([resetCodewhispererService(m) EXCEPT
                          !.profile = p,
                          !.heard = IF m.heard = Deaf THEN Deaf
                                                      ELSE RegionOf[p]],
                      "identityCenter", RegionOf[p])

ClearProfile(m) ==
    [resetCodewhispererService(m) EXCEPT !.state = "PENDING_Q_PROFILE"]

\* handleOnUpdateConfiguration with a profile ARN, or with null (NoProfile).
handleProfileChange(p) ==
    LET m == handleSsoConnectionChange(mgr, creds)
    IN  /\ ProfileSupport
        /\ mgr' = IF \/ m.connectionType = "none" /\ p = NoProfile
                     \/ m.connectionType \in {"builderId", "external_idp"}
                  THEN m
                  ELSE IF p = NoProfile THEN ClearProfile(Updating(m))
                                        ELSE SelectProfile(Updating(m), p)
        /\ served' = NoClient
        /\ UNCHANGED <<creds, config, notified>>

-----------------------------------------------------------------------------
(* Requests for the clients.                                               *)

Refused(m) ==
    m.state # "INITIALIZED" \/ m.service = NoClient

\* getCodewhispererService up to its return or its throw: the manager after it.
Checked ==
    IF mgr.state = "PENDING_Q_PROFILE_UPDATE" \/ creds = NoCreds
    THEN mgr
    ELSE handleSsoConnectionChange(mgr, creds)

getCodewhispererService ==
    /\ mgr' = Checked
    /\ served' = IF creds = NoCreds \/ Refused(Checked)
                 THEN NoClient ELSE Checked.service
    /\ UNCHANGED <<creds, config, notified>>

getStreamingClient ==
    LET region == getAmazonQRegionAndEndpoint(
                      IF Checked.profile = NoProfile
                      THEN NoRegion ELSE RegionOf[Checked.profile])
        client == IF Checked.streaming = NoClient
                  THEN streamingClientFactory(Checked, region)
                  ELSE Checked.streaming
        granted == creds # NoCreds /\ ~Refused(Checked)
    IN  /\ mgr' = IF granted THEN [Checked EXCEPT !.streaming = client]
                             ELSE Checked
        /\ served' = IF granted THEN client ELSE NoClient
        /\ UNCHANGED <<creds, config, notified>>

\* The service rejects a request of a client because the identity is blocked:
\* the notifier shared by the clients tells the user the first time only.
onAccessBlocked ==
    /\ creds # NoCreds
    /\ mgr.service # NoClient
    /\ mgr' = [mgr EXCEPT !.notifier = "fired"]
    /\ notified' = IF mgr.notifier = "armed"
                   THEN notified \cup {creds.identity} ELSE notified
    /\ served' = NoClient
    /\ UNCHANGED <<creds, config>>

-----------------------------------------------------------------------------
(* Listeners of the region, and the configuration.                         *)

onRegionChange ==
    /\ mgr.heard = Deaf
    /\ mgr' = [mgr EXCEPT !.heard = mgr.region]
    /\ served' = NoClient
    /\ UNCHANGED <<creds, config, notified>>

UnregisterListener ==
    /\ mgr.heard # Deaf
    /\ mgr' = [mgr EXCEPT !.heard = Deaf]
    /\ served' = NoClient
    /\ UNCHANGED <<creds, config, notified>>

Merged(q, cw) ==
    [q |-> IF q = Unread THEN config.q ELSE q,
     cw |-> IF cw = Unread THEN config.cw ELSE cw]

\* Mutant: only one of the two clients gets the new settings.
UpdateServiceOnly(c) ==
    [mgr EXCEPT !.service =
        IF @ = NoClient THEN NoClient ELSE [@ EXCEPT !.q = c.q, !.cw = c.cw]]

updateCachedServiceConfig(c) ==
    [mgr EXCEPT
        !.service = IF @ = NoClient THEN NoClient
                    ELSE [@ EXCEPT !.q = c.q, !.cw = c.cw],
        !.streaming = IF @ = NoClient THEN NoClient
                      ELSE [@ EXCEPT !.cw = c.cw]]

\* The synchronous middle part of handleDidChangeConfiguration: what was read
\* of the two sections is merged into the cache and pushed to the clients.
ApplyConfiguration(q, cw) ==
    /\ config' = Merged(q, cw)
    /\ mgr' = updateCachedServiceConfig(Merged(q, cw))
    /\ served' = NoClient
    /\ UNCHANGED <<creds, notified>>

-----------------------------------------------------------------------------
Next ==
    \/ \E c \in Credentials : handleOnCredentialsUpdated(c)
    \/ handleOnCredentialsDeleted
    \/ \E p \in Profiles \cup {NoProfile} : handleProfileChange(p)
    \/ getCodewhispererService
    \/ getStreamingClient
    \/ onAccessBlocked
    \/ onRegionChange
    \/ UnregisterListener
    \/ \E q \in QSettings \cup {Unread}, cw \in CwSettings \cup {Unread} :
          ApplyConfiguration(q, cw)

Spec == Init /\ [][Next]_vars

-----------------------------------------------------------------------------
(* Properties.                                                             *)

(***************************************************************************)
(* The two cached clients stand and fall together and are bound to the     *)
(* same region and profile: the active profile and its region under        *)
(* Identity Center with profiles, whatever updates, sign-outs, failed      *)
(* updates and region switches came before.                                *)
(***************************************************************************)
ClientsAgree ==
    /\ mgr.service = NoClient <=> mgr.streaming = NoClient
    /\ mgr.service = NoClient <=> mgr.region = NoRegion
    /\ mgr.service # NoClient =>
          /\ mgr.service.region = mgr.region
          /\ mgr.streaming.region = mgr.region
          /\ mgr.service.profile = mgr.profile
          /\ mgr.streaming.profile = mgr.profile
    /\ mgr.profile # NoProfile => mgr.region = RegionOf[mgr.profile]

(***************************************************************************)
(* A request is only ever served by a client that was built for the type   *)
(* of the connection the user has at that moment and for the manager's     *)
(* active profile, which there is exactly under Identity Center with       *)
(* profiles.                                                               *)
(***************************************************************************)
ServedForConnection ==
    served # NoClient =>
        /\ creds # NoCreds
        /\ mgr.state = "INITIALIZED"
        /\ mgr.connectionType = creds.type
        /\ served.region = mgr.region
        /\ served.profile = mgr.profile
        /\ ProfileSupport /\ creds.type = "identityCenter" <=>
              served.profile # NoProfile

(***************************************************************************)
(* A client is never dropped with its requests in flight: whatever         *)
(* replaces the clients first went through resetCodewhispererService,      *)
(* which aborts them.                                                      *)
(***************************************************************************)
NoOrphanedRequests == ~mgr.orphaned

(***************************************************************************)
(* A client built before, during or after a change of the configuration    *)
(* carries the cached settings: the opt-out of content sharing reaches     *)
(* both clients at once.                                                   *)
(***************************************************************************)
SettingsReachClients ==
    mgr.service # NoClient =>
        /\ mgr.service.q = config.q
        /\ mgr.service.cw = config.cw
        /\ mgr.streaming.cw = config.cw

(***************************************************************************)
(* After signing out and in again a blocked identity is notified again:    *)
(* the notifier in use has only fired for someone notified since the last  *)
(* sign-out.                                                               *)
(***************************************************************************)
NotifiesAfterSignOut == mgr.notifier = "fired" => notified # {}

(***************************************************************************)
(* While the user stays connected, a listener of the region is called when *)
(* the selection of another profile moves the clients between regions.     *)
(***************************************************************************)
RegionSwitchIsHeard ==
    [][ /\ creds # NoCreds /\ creds.type = mgr.connectionType
        /\ mgr.profile # NoProfile
        /\ mgr'.profile # NoProfile
        /\ mgr'.region # mgr.region
        /\ mgr.heard # Deaf
        => mgr'.heard = mgr'.region ]_vars

=============================================================================
