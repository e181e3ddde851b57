------------------------ MODULE QServiceManagerProofs ------------------------
(***************************************************************************)
(* Proofs about QServiceManager and QConfiguration, for any sets of        *)
(* profiles, regions and settings and any number of edits.  Sound is what  *)
(* every helper of the handlers preserves of the manager's fields; the     *)
(* lemmas follow the calls of the code: reset and create, then the check   *)
(* of the connection, then the profile update.  ConfigInv adds what the    *)
(* messages between the client and the server can be.                      *)
(***************************************************************************)
EXTENDS QConfiguration, TLAPS

\* The manager's fields fit together, and its clients carry the settings c.
Sound(m, c) ==
    /\ m \in Managers
    /\ ~m.orphaned
    /\ m.service = NoClient =>
          /\ m.streaming = NoClient
          /\ m.region = NoRegion
          /\ m.profile = NoProfile
    /\ m.service # NoClient =>
          /\ m.streaming # NoClient
          /\ m.notifier # "none"
          /\ m.region \in Regions
          /\ m.service.region = m.region
          /\ m.streaming.region = m.region
          /\ m.service.profile = m.profile
          /\ m.streaming.profile = m.profile
          /\ m.service.q = c.q
          /\ m.service.cw = c.cw
          /\ m.streaming.cw = c.cw
          /\ (m.profile # NoProfile) <=>
                (ProfileSupport /\ m.connectionType = "identityCenter")
    /\ m.profile # NoProfile => m.region = RegionOf[m.profile]
    /\ m.connectionType = "none" <=> m.state = "PENDING_CONNECTION"
    /\ m.connectionType = "none" => m.service = NoClient
    /\ m.state = "PENDING_Q_PROFILE" =>
          /\ m.service = NoClient
          /\ m.connectionType = "identityCenter"
          /\ ProfileSupport
    /\ m.state = "PENDING_Q_PROFILE_UPDATE" =>
          /\ m.connectionType = "identityCenter"
          /\ ProfileSupport
    /\ m.state = "INITIALIZED" => m.service # NoClient

Inv ==
    /\ TypeOK
    /\ Sound(mgr, config)
    /\ ServedForConnection
    /\ NotifiesAfterSignOut

-----------------------------------------------------------------------------
\* A region is always resolved to one that has an endpoint.
LEMMA RegionFacts ==
    ASSUME NEW r
    PROVE  /\ getAmazonQRegionAndEndpoint(r) \in Regions
           /\ r \in Regions => getAmazonQRegionAndEndpoint(r) = r
BY RegionAssumption DEF getAmazonQRegionAndEndpoint

\* resetCodewhispererService clears the clients, the profile, the region and
\* the notifier, and nothing else.
LEMMA ResetFacts ==
    ASSUME NEW m \in Managers
    PROVE  LET r == resetCodewhispererService(m)
           IN  /\ r \in Managers
               /\ r.service = NoClient
               /\ r.streaming = NoClient
               /\ r.profile = NoProfile
               /\ r.region = NoRegion
               /\ r.notifier = "none"
               /\ r.state = m.state
               /\ r.connectionType = m.connectionType
               /\ r.heard = m.heard
               /\ r.orphaned = m.orphaned
BY Zenon DEF resetCodewhispererService, Managers, Notifiers

\* Without credentials nothing is left of a connection.
LEMMA SignedOutFacts ==
    ASSUME NEW m \in Managers, NEW c, ~m.orphaned
    PROVE  /\ Sound(SignedOut(m), c)
           /\ SignedOut(m).notifier = "none"
           /\ SignedOut(m).profile = NoProfile
<1> DEFINE r == resetCodewhispererService(m)
<1>1. /\ r \in Managers
      /\ r.service = NoClient
      /\ r.streaming = NoClient
      /\ r.profile = NoProfile
      /\ r.region = NoRegion
      /\ r.notifier = "none"
      /\ ~r.orphaned
  BY ResetFacts
<1> HIDE DEF r
<1> DEFINE s == [r EXCEPT !.connectionType = "none",
                          !.state = "PENDING_CONNECTION"]
<1>2. /\ s \in Managers
      /\ s.service = NoClient
      /\ s.streaming = NoClient
      /\ s.profile = NoProfile
      /\ s.region = NoRegion
      /\ s.notifier = "none"
      /\ ~s.orphaned
      /\ s.connectionType = "none"
      /\ s.state = "PENDING_CONNECTION"
  BY <1>1, Zenon DEF Managers, ConnectionTypes, States
<1>3. SignedOut(m) = s
  BY DEF SignedOut, s, r
<1> HIDE DEF s
<1> QED
  BY <1>2, <1>3 DEF Sound

(***************************************************************************)
(* Building the clients of a connection out of a manager without clients:  *)
(* with a profile under Identity Center, without one otherwise.            *)
(***************************************************************************)
LEMMA ConnectedFacts ==
    ASSUME NEW m \in Managers, NEW type \in ConnectionTypes \ {"none"},
           NEW wished,
           config \in [q : QSettings, cw : CwSettings],
           ~m.orphaned,
           m.service = NoClient,
           m.streaming = NoClient,
           (m.profile # NoProfile) <=>
                (ProfileSupport /\ type = "identityCenter"),
           m.profile # NoProfile =>
                wished \in Regions /\ wished = RegionOf[m.profile]
    PROVE  /\ Sound(Connected(m, type, wished), config)
           /\ Connected(m, type, wished).connectionType = type
           /\ Connected(m, type, wished).profile = m.profile
           /\ Connected(m, type, wished).heard = m.heard
           /\ Connected(m, type, wished).notifier =
                    getQDevAccessBlockedNotifier(m)
<1> DEFINE region == getAmazonQRegionAndEndpoint(wished)
           service == serviceFactory(m, region)
           streaming == streamingClientFactory(m, region)
           notifier == getQDevAccessBlockedNotifier(m)
           s == [m EXCEPT !.connectionType = type,
                          !.region = region,
                          !.service = service,
                          !.streaming = streaming,
                          !.notifier = notifier,
                          !.orphaned = m.orphaned \/ m.service # NoClient
                                                  \/ m.streaming # NoClient]
           t == [s EXCEPT !.state = "INITIALIZED"]
<1>1. region \in Regions /\ (m.profile # NoProfile => region = RegionOf[m.profile])
  BY RegionFacts
<1>2. m.profile \in Profiles \cup {NoProfile}
  BY DEF Managers
<1> HIDE DEF region
<1>3. /\ service \in Services
      /\ service.region = region
      /\ service.profile = m.profile
      /\ service.q = config.q
      /\ service.cw = config.cw
  BY <1>1, <1>2 DEF serviceFactory, Services
<1>4. /\ streaming \in StreamingClients
      /\ streaming.region = region
      /\ streaming.profile = m.profile
      /\ streaming.cw = config.cw
  BY <1>1, <1>2 DEF streamingClientFactory, StreamingClients
<1>5. service # NoClient /\ streaming # NoClient
  BY <1>3, <1>4, NullAssumption
<1>6. notifier \in Notifiers \ {"none"}
  BY DEF getQDevAccessBlockedNotifier, Notifiers, Managers
<1>7. Connected(m, type, wished) = t
  BY DEF Connected, createCodewhispererServiceInstances, region
<1> HIDE DEF service, streaming, notifier
<1>8. /\ s \in Managers
      /\ s.region = region
      /\ s.service = service
      /\ s.streaming = streaming
      /\ s.profile = m.profile
      /\ s.connectionType = type
      /\ s.heard = m.heard
      /\ s.notifier = notifier
      /\ ~s.orphaned
  BY <1>1, <1>3, <1>4, <1>6, Zenon DEF Managers
<1> HIDE DEF s
<1>9. /\ t \in Managers
      /\ t.region = region
      /\ t.service = service
      /\ t.streaming = streaming
      /\ t.profile = m.profile
      /\ t.connectionType = type
      /\ t.heard = m.heard
      /\ t.notifier = notifier
      /\ ~t.orphaned
      /\ t.state = "INITIALIZED"
  BY <1>8 DEF Managers, States
<1> HIDE DEF t
<1>10. Sound(t, config)
  BY <1>1, <1>3, <1>4, <1>5, <1>6, <1>9 DEF Sound
<1> QED
  BY <1>7, <1>9, <1>10 DEF notifier

(***************************************************************************)
(* The check of the connection leaves a sound manager that is connected    *)
(* the way the credentials say.  It changes nothing, or the profile is     *)
(* gone, and it never brings back a notifier that has fired.               *)
(***************************************************************************)
LEMMA ConnectionChangeFacts ==
    ASSUME NEW m, NEW c \in Credentials \cup {NoCreds},
           config \in [q : QSettings, cw : CwSettings],
           Sound(m, config)
    PROVE  LET h == handleSsoConnectionChange(m, c)
           IN  /\ Sound(h, config)
               /\ h.connectionType = IF c = NoCreds THEN "none" ELSE c.type
               /\ h = m \/ h.profile = NoProfile
               /\ h.notifier \in {m.notifier, "none", "armed"}
<1> DEFINE h == handleSsoConnectionChange(m, c)
           r == resetCodewhispererService(m)
<1>0. m \in Managers /\ ~m.orphaned
  BY DEF Sound
<1>1. CASE c = NoCreds \/ c.type = "none"
  <2>1. CASE m.state # "PENDING_CONNECTION"
    <3>1. h = SignedOut(m)
      BY <1>1, <2>1 DEF handleSsoConnectionChange
    <3>2. SignedOut(m).connectionType = "none"
      BY <1>0, ResetFacts DEF SignedOut, Managers
    <3> QED
      BY <1>0, <1>1, <3>1, <3>2, SignedOutFacts
  <2>2. CASE m.state = "PENDING_CONNECTION"
    BY <1>1, <2>2 DEF handleSsoConnectionChange, Sound
  <2> QED
    BY <2>1, <2>2
<1>2. CASE c # NoCreds /\ c.type # "none" /\ c.type = m.connectionType
  BY <1>2 DEF handleSsoConnectionChange
<1>3. CASE c # NoCreds /\ c.type # "none" /\ c.type # m.connectionType
  <2>1. h = Reconnected(r, c.type)
    BY <1>3 DEF handleSsoConnectionChange
  <2>2. c.type \in ConnectionTypes \ {"none"}
    BY <1>3 DEF Credentials
  <2>3. /\ r \in Managers
        /\ r.service = NoClient
        /\ r.streaming = NoClient
        /\ r.profile = NoProfile
        /\ r.region = NoRegion
        /\ r.notifier = "none"
        /\ ~r.orphaned
    BY <1>0, ResetFacts
  <2>4. getQDevAccessBlockedNotifier(r) = "armed"
    BY <2>3 DEF getQDevAccessBlockedNotifier
  <2> HIDE DEF r, h
  <2>5. CASE c.type \in {"builderId", "external_idp"}
    <3>1. h = Connected(r, c.type, ClientRegion)
      BY <2>1, <2>5 DEF Reconnected
    <3>2. c.type # "identityCenter"
      BY <2>5
    <3> QED
      BY <1>3, <2>2, <2>3, <2>4, <3>1, <3>2, ConnectedFacts DEF h
  <2>6. CASE c.type = "identityCenter" /\ ~ProfileSupport
    <3>1. h = Connected(r, c.type, NoRegion)
      BY <2>1, <2>6 DEF Reconnected
    <3> QED
      BY <1>3, <2>2, <2>3, <2>4, <2>6, <3>1, ConnectedFacts DEF h
  <2>7. CASE c.type = "identityCenter" /\ ProfileSupport
    <3>1. h = [r EXCEPT !.connectionType = c.type,
                        !.state = "PENDING_Q_PROFILE"]
      BY <2>1, <2>7 DEF Reconnected
    <3>2. /\ h \in Managers
          /\ h.service = NoClient
          /\ h.streaming = NoClient
          /\ h.profile = NoProfile
          /\ h.region = NoRegion
          /\ h.notifier = "none"
          /\ ~h.orphaned
          /\ h.connectionType = "identityCenter"
          /\ h.state = "PENDING_Q_PROFILE"
      BY <2>3, <2>7, <3>1, Zenon DEF Managers, ConnectionTypes, States
    <3>3. Sound(h, config)
      BY <2>7, <3>2 DEF Sound
    <3> QED
      BY <1>3, <2>7, <3>2, <3>3 DEF h
  <2> QED
    BY <2>2, <2>5, <2>6, <2>7 DEF ConnectionTypes
<1> QED
  BY <1>1, <1>2, <1>3

\* An update first makes the state pending, whatever the state was.
LEMMA UpdatingFacts ==
    ASSUME NEW m, ProfileSupport, Sound(m, config),
           m.connectionType \in {"none", "identityCenter"}
    PROVE  LET u == Updating(m)
           IN  /\ Sound(u, config)
               /\ u.state = "PENDING_Q_PROFILE_UPDATE"
               /\ u.connectionType = "identityCenter"
               /\ u.service = m.service
               /\ u.streaming = m.streaming
               /\ u.profile = m.profile
               /\ u.region = m.region
               /\ u.heard = m.heard
               /\ u.notifier = m.notifier
<1> DEFINE u == Updating(m)
<1>1. CASE m.connectionType = "none"
  <2>1. u = [m EXCEPT !.connectionType = "identityCenter",
                      !.state = "PENDING_Q_PROFILE_UPDATE"]
    BY <1>1 DEF Updating
  <2> HIDE DEF u
  <2>2. /\ u \in Managers
        /\ u.state = "PENDING_Q_PROFILE_UPDATE"
        /\ u.connectionType = "identityCenter"
        /\ u.service = m.service
        /\ u.streaming = m.streaming
        /\ u.profile = m.profile
        /\ u.region = m.region
        /\ u.heard = m.heard
        /\ u.notifier = m.notifier
        /\ u.orphaned = m.orphaned
    BY <2>1, Zenon DEF Managers, Sound, ConnectionTypes, States
  <2>3. Sound(u, config)
    BY <1>1, <2>2 DEF Sound
  <2> QED
    BY <2>2, <2>3 DEF u
<1>2. CASE /\ m.connectionType = "identityCenter"
           /\ m.state \in {"INITIALIZED", "PENDING_Q_PROFILE"}
  <2>1. m.state = "INITIALIZED" => m.profile # NoProfile
    BY <1>2 DEF Sound
  <2>2. u = [m EXCEPT !.state = "PENDING_Q_PROFILE_UPDATE"]
    BY <1>2, <2>1 DEF Updating
  <2> HIDE DEF u
  <2>3. /\ u \in Managers
        /\ u.state = "PENDING_Q_PROFILE_UPDATE"
        /\ u.connectionType = "identityCenter"
        /\ u.service = m.service
        /\ u.streaming = m.streaming
        /\ u.profile = m.profile
        /\ u.region = m.region
        /\ u.heard = m.heard
        /\ u.notifier = m.notifier
        /\ u.orphaned = m.orphaned
    BY <1>2, <2>2 DEF Managers, Sound, States
  <2>4. Sound(u, config)
    BY <1>2, <2>3 DEF Sound
  <2> QED
    BY <2>3, <2>4 DEF u
<1>3. CASE /\ m.connectionType = "identityCenter"
           /\ m.state = "PENDING_Q_PROFILE_UPDATE"
  BY <1>3 DEF Updating
<1> QED
  BY <1>1, <1>2, <1>3 DEF Sound, Managers, States

(***************************************************************************)
(* Selecting a profile keeps the manager sound, tells a listener when the  *)
(* clients move from a region to another, and keeps or renews the notifier.*)
(***************************************************************************)
LEMMA SelectFacts ==
    ASSUME NEW u, NEW p \in Profiles,
           config \in [q : QSettings, cw : CwSettings],
           ProfileSupport, Sound(u, config),
           u.state = "PENDING_Q_PROFILE_UPDATE",
           u.connectionType = "identityCenter"
    PROVE  LET h == SelectProfile(u, p)
           IN  /\ Sound(h, config)
               /\ h.notifier \in {u.notifier, "armed"}
               /\ \/ u.profile = NoProfile
                  \/ u.heard = Deaf
                  \/ h.region = u.region
                  \/ h.heard = h.region
<1> DEFINE h == SelectProfile(u, p)
<1>0. /\ u \in Managers
      /\ ~u.orphaned
      /\ u.profile \in Profiles \cup {NoProfile}
      /\ p # NoProfile
  BY ProfileAssumption DEF Sound, Managers
<1>1. CASE RegionOf[p] \notin Regions
  BY <1>1 DEF SelectProfile
<1>2. CASE RegionOf[p] \in Regions /\ u.profile = NoProfile
  <2> DEFINE s == [u EXCEPT !.profile = p]
  <2>1. h = Connected(s, "identityCenter", RegionOf[p])
    BY <1>0, <1>2 DEF SelectProfile
  <2>2. u.service = NoClient /\ u.streaming = NoClient
    BY <1>2 DEF Sound
  <2>3. /\ s \in Managers
        /\ s.service = NoClient
        /\ s.streaming = NoClient
        /\ s.profile = p
        /\ s.notifier = u.notifier
        /\ ~s.orphaned
    BY <1>0, <2>2 DEF Managers
  <2> HIDE DEF s
  <2>4. getQDevAccessBlockedNotifier(s) \in {u.notifier, "armed"}
    BY <2>3 DEF getQDevAccessBlockedNotifier
  <2>5. "identityCenter" \in ConnectionTypes \ {"none"}
    BY DEF ConnectionTypes
  <2>6. /\ Sound(Connected(s, "identityCenter", RegionOf[p]), config)
        /\ Connected(s, "identityCenter", RegionOf[p]).notifier =
               getQDevAccessBlockedNotifier(s)
    BY <1>0, <1>2, <2>3, <2>5, ConnectedFacts
  <2> QED
    BY <1>2, <2>1, <2>4, <2>6
<1>3. CASE RegionOf[p] \in Regions /\ u.profile = p
  <2>1. h = [u EXCEPT !.state = "INITIALIZED"]
    BY <1>0, <1>3 DEF SelectProfile
  <2>2. u.service # NoClient
    BY <1>0, <1>3 DEF Sound
  <2> HIDE DEF h
  <2>3. /\ h \in Managers
        /\ h.state = "INITIALIZED"
        /\ h.connectionType = u.connectionType
        /\ h.service = u.service
        /\ h.streaming = u.streaming
        /\ h.profile = u.profile
        /\ h.region = u.region
        /\ h.notifier = u.notifier
        /\ h.orphaned = u.orphaned
    BY <1>0, <2>1 DEF Managers, States
  <2>4. Sound(h, config)
    BY <2>2, <2>3 DEF Sound
  <2> QED
    BY <2>3, <2>4 DEF h
<1>4. CASE /\ RegionOf[p] \in Regions
           /\ u.profile \notin {NoProfile, p}
           /\ RegionOf[u.profile] = RegionOf[p]
  <2> DEFINE service == [u.service EXCEPT !.profile = p]
             streaming == [u.streaming EXCEPT !.profile = p]
  <2>1. u.service # NoClient /\ u.streaming # NoClient
    BY <1>4 DEF Sound
  <2>2. u.service \in Services /\ u.streaming \in StreamingClients
    BY <1>0, <2>1 DEF Managers
  <2>3. h = [u EXCEPT !.profile = p, !.state = "INITIALIZED",
                      !.service = service, !.streaming = streaming]
    BY <1>4, <2>1 DEF SelectProfile, Repoint
  <2>4. /\ service \in Services
        /\ service.region = u.service.region
        /\ service.q = u.service.q
        /\ service.cw = u.service.cw
        /\ service.profile = p
    BY <2>2 DEF Services
  <2>5. /\ streaming \in StreamingClients
        /\ streaming.region = u.streaming.region
        /\ streaming.cw = u.streaming.cw
        /\ streaming.profile = p
    BY <2>2 DEF StreamingClients
  <2>6. service # NoClient /\ streaming # NoClient
    BY <2>4, <2>5, NullAssumption
  <2> HIDE DEF h, service, streaming
  <2>7. /\ h \in Managers
        /\ h.state = "INITIALIZED"
        /\ h.connectionType = u.connectionType
        /\ h.service = service
        /\ h.streaming = streaming
        /\ h.profile = p
        /\ h.region = u.region
        /\ h.notifier = u.notifier
        /\ h.orphaned = u.orphaned
    BY <1>0, <2>3, <2>4, <2>5, Zenon DEF Managers, States
  <2>8. Sound(h, config)
    BY <1>0, <1>4, <2>1, <2>4, <2>5, <2>6, <2>7 DEF Sound
  <2> QED
    BY <2>7, <2>8 DEF h
<1>5. CASE /\ RegionOf[p] \in Regions
           /\ u.profile \notin {NoProfile, p}
           /\ RegionOf[u.profile] # RegionOf[p]
  <2> DEFINE r == resetCodewhispererService(u)
             heard == IF u.heard = Deaf THEN Deaf ELSE RegionOf[p]
             s == [r EXCEPT !.profile = p, !.heard = heard]
  <2>1. h = Connected(s, "identityCenter", RegionOf[p])
    BY <1>5 DEF SelectProfile
  <2>2. /\ r \in Managers
        /\ r.service = NoClient
        /\ r.streaming = NoClient
        /\ r.notifier = "none"
        /\ ~r.orphaned
    BY <1>0, ResetFacts
  <2>3. heard \in Regions \cup {NoRegion, Deaf}
    BY <1>5
  <2> HIDE DEF r
  <2>4. /\ s \in Managers
        /\ s.service = NoClient
        /\ s.streaming = NoClient
        /\ s.profile = p
        /\ s.heard = heard
        /\ s.notifier = "none"
        /\ ~s.orphaned
    BY <2>2, <2>3, Zenon DEF Managers
  <2> HIDE DEF s
  <2>5. getQDevAccessBlockedNotifier(s) = "armed"
    BY <2>4 DEF getQDevAccessBlockedNotifier
  <2>6. "identityCenter" \in ConnectionTypes \ {"none"}
    BY DEF ConnectionTypes
  <2>7. /\ Sound(h, config)
        /\ h.notifier = "armed"
        /\ h.heard = heard
        /\ h.profile = p
    BY <1>0, <1>5, <2>1, <2>4, <2>5, <2>6, ConnectedFacts
  <2>8. h.region = RegionOf[p]
    BY <1>0, <2>7 DEF Sound
  <2> QED
    BY <2>7, <2>8
<1> QED
  BY <1>0, <1>1, <1>2, <1>3, <1>4, <1>5

\* Clearing the profile drops the clients and waits for another profile.
LEMMA ClearFacts ==
    ASSUME NEW u, ProfileSupport, Sound(u, config),
           u.connectionType = "identityCenter"
    PROVE  /\ Sound(ClearProfile(u), config)
           /\ ClearProfile(u).notifier = "none"
           /\ ClearProfile(u).profile = NoProfile
<1> DEFINE r == resetCodewhispererService(u)
           s == [r EXCEPT !.state = "PENDING_Q_PROFILE"]
<1>1. /\ r \in Managers
      /\ r.service = NoClient
      /\ r.streaming = NoClient
      /\ r.profile = NoProfile
      /\ r.region = NoRegion
      /\ r.notifier = "none"
      /\ r.connectionType = "identityCenter"
      /\ ~r.orphaned
  BY ResetFacts DEF Sound
<1>2. ClearProfile(u) = s
  BY DEF ClearProfile
<1> HIDE DEF r
<1>3. /\ s \in Managers
      /\ s.service = NoClient
      /\ s.streaming = NoClient
      /\ s.profile = NoProfile
      /\ s.region = NoRegion
      /\ s.notifier = "none"
      /\ s.connectionType = "identityCenter"
      /\ s.state = "PENDING_Q_PROFILE"
      /\ ~s.orphaned
  BY <1>1 DEF Managers, States
<1> HIDE DEF s
<1> QED
  BY <1>2, <1>3 DEF Sound

(***************************************************************************)
(* A profile update as a whole.                                            *)
(***************************************************************************)
LEMMA ProfileChangeFacts ==
    ASSUME Inv, NEW p \in Profiles \cup {NoProfile}, handleProfileChange(p)
    PROVE  /\ Sound(mgr', config)
           /\ mgr'.notifier \in {mgr.notifier, "none", "armed"}
           /\ \/ creds = NoCreds
              \/ creds.type # mgr.connectionType
              \/ mgr.profile = NoProfile
              \/ mgr'.profile = NoProfile
              \/ mgr.heard = Deaf
              \/ mgr'.region = mgr.region
              \/ mgr'.heard = mgr'.region
<1> DEFINE m == handleSsoConnectionChange(mgr, creds)
<1>0. /\ ProfileSupport
      /\ mgr' = IF \/ m.connectionType = "none" /\ p = NoProfile
                   \/ m.connectionType \in {"builderId", "external_idp"}
                THEN m
                ELSE IF p = NoProfile THEN ClearProfile(Updating(m))
                                      ELSE SelectProfile(Updating(m), p)
  BY DEF handleProfileChange
<1>1. /\ creds \in Credentials \cup {NoCreds}
      /\ config \in [q : QSettings, cw : CwSettings]
      /\ Sound(mgr, config)
  BY DEF Inv, TypeOK
<1>2. /\ Sound(m, config)
      /\ m.connectionType = IF creds = NoCreds THEN "none" ELSE creds.type
      /\ m = mgr \/ m.profile = NoProfile
      /\ m.notifier \in {mgr.notifier, "none", "armed"}
  BY <1>1, ConnectionChangeFacts
<1>3. creds # NoCreds /\ creds.type = mgr.connectionType /\ mgr.profile # NoProfile
         => m = mgr
  BY <1>1 DEF handleSsoConnectionChange, Sound
<1> HIDE DEF m
<1>4. CASE \/ m.connectionType = "none" /\ p = NoProfile
           \/ m.connectionType \in {"builderId", "external_idp"}
  BY <1>0, <1>2, <1>3, <1>4
<1>5. CASE /\ m.connectionType \in {"none", "identityCenter"}
           /\ ~(m.connectionType = "none" /\ p = NoProfile)
  <2> DEFINE u == Updating(m)
  <2>1. /\ Sound(u, config)
        /\ u.state = "PENDING_Q_PROFILE_UPDATE"
        /\ u.connectionType = "identityCenter"
        /\ u.profile = m.profile
        /\ u.region = m.region
        /\ u.heard = m.heard
        /\ u.notifier = m.notifier
    BY <1>0, <1>2, <1>5, UpdatingFacts
  <2> HIDE DEF u
  <2>2. CASE p = NoProfile
    <3>1. mgr' = ClearProfile(u)
      BY <1>0, <1>5, <2>2 DEF u
    <3> QED
      BY <1>0, <2>1, <3>1, ClearFacts
  <2>3. CASE p # NoProfile
    <3>1. mgr' = SelectProfile(u, p)
      BY <1>0, <1>5, <2>3 DEF u
    <3>2. /\ Sound(mgr', config)
          /\ mgr'.notifier \in {u.notifier, "armed"}
          /\ \/ u.profile = NoProfile
             \/ u.heard = Deaf
             \/ mgr'.region = u.region
             \/ mgr'.heard = mgr'.region
      BY <1>0, <1>1, <2>1, <2>3, <3>1, SelectFacts
    <3> QED
      BY <1>2, <1>3, <2>1, <3>2
  <2> QED
    BY <2>2, <2>3
<1> QED
  BY <1>2, <1>4, <1>5 DEF Sound, Managers, ConnectionTypes

(***************************************************************************)
(* The manager after getCodewhispererService: what it returns, if it does, *)
(* belongs to the connection the user has.                                 *)
(***************************************************************************)
LEMMA CheckedFacts ==
    ASSUME Inv
    PROVE  /\ Sound(Checked, config)
           /\ Checked.notifier \in {mgr.notifier, "none", "armed"}
           /\ Checked = mgr \/ Checked.profile = NoProfile
           /\ creds # NoCreds /\ ~Refused(Checked) =>
                 /\ Checked.connectionType = creds.type
                 /\ Checked.state = "INITIALIZED"
                 /\ Checked.service # NoClient
<1>1. /\ creds \in Credentials \cup {NoCreds}
      /\ config \in [q : QSettings, cw : CwSettings]
      /\ Sound(mgr, config)
  BY DEF Inv, TypeOK
<1>2. CASE mgr.state = "PENDING_Q_PROFILE_UPDATE" \/ creds = NoCreds
  BY <1>1, <1>2 DEF Checked, Refused
<1>3. CASE ~(mgr.state = "PENDING_Q_PROFILE_UPDATE" \/ creds = NoCreds)
  <2>1. Checked = handleSsoConnectionChange(mgr, creds)
    BY <1>3 DEF Checked
  <2> QED
    BY <1>1, <1>3, <2>1, ConnectionChangeFacts DEF Refused
<1> QED
  BY <1>2, <1>3

\* Storing the settings c in the clients of a sound manager.
LEMMA UpdateConfigFacts ==
    ASSUME Inv, NEW c \in [q : QSettings, cw : CwSettings]
    PROVE  /\ Sound(updateCachedServiceConfig(c), c)
           /\ updateCachedServiceConfig(c).notifier = mgr.notifier
           /\ updateCachedServiceConfig(c).profile = mgr.profile
           /\ updateCachedServiceConfig(c).region = mgr.region
<1> DEFINE h == updateCachedServiceConfig(c)
           service == IF mgr.service = NoClient THEN NoClient
                      ELSE [mgr.service EXCEPT !.q = c.q, !.cw = c.cw]
           streaming == IF mgr.streaming = NoClient THEN NoClient
                        ELSE [mgr.streaming EXCEPT !.cw = c.cw]
<1>0. Sound(mgr, config) /\ mgr \in Managers
  BY DEF Inv, Sound
<1>1. h = [mgr EXCEPT !.service = service, !.streaming = streaming]
  BY <1>0 DEF updateCachedServiceConfig, Managers
<1>2. /\ service \in Services \cup {NoClient}
      /\ mgr.service = NoClient <=> service = NoClient
      /\ mgr.service # NoClient =>
            /\ service.region = mgr.service.region
            /\ service.profile = mgr.service.profile
            /\ service.q = c.q
            /\ service.cw = c.cw
  BY <1>0, NullAssumption, Zenon DEF Managers, Services
<1>3. /\ streaming \in StreamingClients \cup {NoClient}
      /\ mgr.streaming = NoClient <=> streaming = NoClient
      /\ mgr.streaming # NoClient =>
            /\ streaming.region = mgr.streaming.region
            /\ streaming.profile = mgr.streaming.profile
            /\ streaming.cw = c.cw
  BY <1>0, NullAssumption DEF Managers, StreamingClients
<1> HIDE DEF h, service, streaming
<1>4. /\ h \in Managers
      /\ h.service = service
      /\ h.streaming = streaming
      /\ h.state = mgr.state
      /\ h.connectionType = mgr.connectionType
      /\ h.profile = mgr.profile
      /\ h.region = mgr.region
      /\ h.notifier = mgr.notifier
      /\ h.orphaned = mgr.orphaned
  BY <1>0, <1>1, <1>2, <1>3, Zenon DEF Managers
<1>5. Sound(h, c)
  BY <1>0, <1>2, <1>3, <1>4 DEF Sound
<1> QED
  BY <1>4, <1>5 DEF h

-----------------------------------------------------------------------------
(***************************************************************************)
(* A step that hands out no client keeps the invariant if it leaves a      *)
(* sound manager whose notifier has not fired unnoticed.                   *)
(***************************************************************************)
LEMMA UnservedStep ==
    ASSUME Inv,
           creds' \in Credentials \cup {NoCreds},
           config' \in [q : QSettings, cw : CwSettings],
           Sound(mgr', config'),
           served' = NoClient,
           notified' \subseteq Identities,
           mgr'.notifier = "fired" => notified' # {}
    PROVE  Inv'
BY DEF Inv, TypeOK, Sound, ServedForConnection, NotifiesAfterSignOut

\* The initial state satisfies the invariant.
LEMMA InitInv == Init => Inv
<1> SUFFICES ASSUME Init PROVE Inv
  OBVIOUS
<1>1. mgr \in Managers /\ config \in [q : QSettings, cw : CwSettings]
  BY SettingAssumption
  DEF Init, Managers, States, ConnectionTypes, Notifiers
<1>2. Sound(mgr, config)
  BY <1>1 DEF Init, Sound
<1> QED
  BY <1>1, <1>2 DEF Init, Inv, TypeOK, ServedForConnection, NotifiesAfterSignOut

\* Every handler preserves the invariant.
LEMMA NextInv == Inv /\ [Next]_vars => Inv'
<1> SUFFICES ASSUME Inv, [Next]_vars PROVE Inv'
  OBVIOUS
<1>0. /\ creds \in Credentials \cup {NoCreds}
      /\ config \in [q : QSettings, cw : CwSettings]
      /\ notified \subseteq Identities
      /\ mgr \in Managers
      /\ Sound(mgr, config)
      /\ mgr.notifier = "fired" => notified # {}
  BY DEF Inv, TypeOK, NotifiesAfterSignOut
<1>1. ASSUME NEW c \in Credentials, handleOnCredentialsUpdated(c)
      PROVE  Inv'
  <2>1. /\ creds' = c /\ served' = NoClient
        /\ config' = config /\ notified' = notified
        /\ mgr' = handleSsoConnectionChange(mgr, c) \/ mgr' = mgr
    BY <1>1 DEF handleOnCredentialsUpdated
  <2>2. /\ Sound(mgr', config)
        /\ mgr'.notifier \in {mgr.notifier, "none", "armed"}
    BY <1>0, <2>1, ConnectionChangeFacts
  <2> QED
    BY <1>0, <2>1, <2>2, UnservedStep
<1>2. ASSUME handleOnCredentialsDeleted
      PROVE  Inv'
  <2>1. /\ creds' = NoCreds /\ served' = NoClient
        /\ config' = config /\ notified' = {}
        /\ mgr' = SignedOut(mgr)
    BY <1>2 DEF handleOnCredentialsDeleted
  <2>2. Sound(mgr', config) /\ mgr'.notifier = "none"
    BY <1>0, <2>1, SignedOutFacts DEF Sound
  <2> QED
    BY <1>0, <2>1, <2>2, UnservedStep
<1>3. ASSUME NEW p \in Profiles \cup {NoProfile}, handleProfileChange(p)
      PROVE  Inv'
  <2>1. /\ creds' = creds /\ served' = NoClient
        /\ config' = config /\ notified' = notified
    BY <1>3 DEF handleProfileChange
  <2>2. /\ Sound(mgr', config)
        /\ mgr'.notifier \in {mgr.notifier, "none", "armed"}
    BY <1>3, ProfileChangeFacts
  <2> QED
    BY <1>0, <2>1, <2>2, UnservedStep
<1>4. ASSUME getCodewhispererService
      PROVE  Inv'
  <2> DEFINE k == Checked
  <2>1. /\ creds' = creds /\ config' = config /\ notified' = notified
        /\ mgr' = k
        /\ served' = IF creds = NoCreds \/ Refused(k)
                     THEN NoClient ELSE k.service
    BY <1>4 DEF getCodewhispererService
  <2>2. /\ Sound(k, config)
        /\ k.notifier \in {mgr.notifier, "none", "armed"}
        /\ creds # NoCreds /\ ~Refused(k) =>
              /\ k.connectionType = creds.type
              /\ k.state = "INITIALIZED"
              /\ k.service # NoClient
    BY CheckedFacts
  <2> HIDE DEF k
  <2>3. k \in Managers /\ k.service \in Services \cup {NoClient}
    BY <2>2 DEF Sound, Managers
  <2>4. TypeOK'
    BY <1>0, <2>1, <2>3 DEF TypeOK
  <2>5. ServedForConnection'
    BY <2>1, <2>2 DEF ServedForConnection, Sound
  <2> QED
    BY <1>0, <2>1, <2>2, <2>4, <2>5, Zenon DEF Inv, NotifiesAfterSignOut, Sound
<1>5. ASSUME getStreamingClient
      PROVE  Inv'
  <2> DEFINE k == Checked
  <2>1. /\ Sound(k, config)
        /\ k.notifier \in {mgr.notifier, "none", "armed"}
        /\ creds # NoCreds /\ ~Refused(k) =>
              /\ k.connectionType = creds.type
              /\ k.state = "INITIALIZED"
              /\ k.service # NoClient
    BY CheckedFacts
  <2>2. /\ creds # NoCreds /\ ~Refused(k) => k.streaming # NoClient
        /\ k \in Managers
        /\ k.streaming \in StreamingClients \cup {NoClient}
    BY <2>1 DEF Sound, Managers
  <2>3. /\ creds' = creds /\ config' = config /\ notified' = notified
        /\ mgr' = IF creds # NoCreds /\ ~Refused(k)
                  THEN [k EXCEPT !.streaming = k.streaming] ELSE k
        /\ served' = IF creds # NoCreds /\ ~Refused(k)
                     THEN k.streaming ELSE NoClient
    BY <1>5, <2>2 DEF getStreamingClient
  <2> HIDE DEF k
  <2>4. [k EXCEPT !.streaming = k.streaming] = k
    BY <2>2 DEF Managers
  <2>5. mgr' = k
    BY <2>3, <2>4
  <2>6. TypeOK'
    BY <1>0, <2>2, <2>3, <2>5 DEF TypeOK
  <2>7. ServedForConnection'
    BY <2>1, <2>2, <2>3, <2>5 DEF ServedForConnection, Sound
  <2> QED
    BY <1>0, <2>1, <2>3, <2>5, <2>6, <2>7 DEF Inv, NotifiesAfterSignOut, Sound
<1>6. ASSUME onAccessBlocked
      PROVE  Inv'
  <2>1. /\ creds' = creds /\ config' = config /\ served' = NoClient
        /\ creds # NoCreds
        /\ mgr' = [mgr EXCEPT !.notifier = "fired"]
        /\ notified' = IF mgr.notifier = "armed"
                       THEN notified \cup {creds.identity} ELSE notified
        /\ mgr.service # NoClient
    BY <1>6 DEF onAccessBlocked
  <2>2. creds.identity \in Identities
    BY <1>0, <2>1 DEF Credentials
  <2>3. /\ mgr' \in Managers
        /\ mgr'.state = mgr.state
        /\ mgr'.connectionType = mgr.connectionType
        /\ mgr'.service = mgr.service
        /\ mgr'.streaming = mgr.streaming
        /\ mgr'.profile = mgr.profile
        /\ mgr'.region = mgr.region
        /\ mgr'.notifier = "fired"
        /\ mgr'.orphaned = mgr.orphaned
    BY <1>0, <2>1 DEF Managers, Notifiers
  <2>4. Sound(mgr', config) /\ mgr.notifier \in {"armed", "fired"}
    BY <1>0, <2>1, <2>3 DEF Sound, Managers, Notifiers
  <2>5. notified' # {}
    BY <1>0, <2>1, <2>4
  <2> QED
    BY <1>0, <2>1, <2>2, <2>4, <2>5, UnservedStep
<1>7. ASSUME onRegionChange \/ UnregisterListener
      PROVE  Inv'
  <2>1. /\ creds' = creds /\ config' = config /\ served' = NoClient
        /\ notified' = notified
        /\ \/ mgr' = [mgr EXCEPT !.heard = mgr.region]
           \/ mgr' = [mgr EXCEPT !.heard = Deaf]
    BY <1>7 DEF onRegionChange, UnregisterListener
  <2>2. /\ mgr' \in Managers
        /\ mgr'.state = mgr.state
        /\ mgr'.connectionType = mgr.connectionType
        /\ mgr'.service = mgr.service
        /\ mgr'.streaming = mgr.streaming
        /\ mgr'.profile = mgr.profile
        /\ mgr'.region = mgr.region
        /\ mgr'.notifier = mgr.notifier
        /\ mgr'.orphaned = mgr.orphaned
    BY <1>0, <2>1 DEF Managers
  <2>3. Sound(mgr', config)
    BY <1>0, <2>2 DEF Sound
  <2> QED
    BY <1>0, <2>1, <2>2, <2>3, UnservedStep
<1>8. ASSUME NEW q \in QSettings \cup {Unread},
             NEW cw \in CwSettings \cup {Unread},
             ApplyConfiguration(q, cw)
      PROVE  Inv'
  <2>1. /\ creds' = creds /\ served' = NoClient /\ notified' = notified
        /\ config' = Merged(q, cw)
        /\ mgr' = updateCachedServiceConfig(Merged(q, cw))
    BY <1>8 DEF ApplyConfiguration
  <2>2. Merged(q, cw) \in [q : QSettings, cw : CwSettings]
    BY <1>0 DEF Merged
  <2>3. Sound(mgr', config') /\ mgr'.notifier = mgr.notifier
    BY <2>1, <2>2, UpdateConfigFacts
  <2> QED
    BY <1>0, <2>1, <2>2, <2>3, UnservedStep
<1>9. ASSUME UNCHANGED vars
      PROVE  Inv'
  BY <1>9
  DEF vars, Inv, TypeOK, Sound, ServedForConnection, NotifiesAfterSignOut
<1> QED
  BY <1>1, <1>2, <1>3, <1>4, <1>5, <1>6, <1>7, <1>8, <1>9 DEF Next

(***************************************************************************)
(* Inv holds of every state the manager can reach.  It is needed because   *)
(* neither the agreement of the clients nor what is served can be told     *)
(* from the fields they mention alone: why a profile update finds clients  *)
(* of the profile's region depends on the state and the connection type.   *)
(***************************************************************************)
THEOREM Invariance == Spec => []Inv
<1> QED
  BY InitInv, NextInv, PTL DEF Spec

\* The fields keep their declared types.
THEOREM TypeCorrect == Spec => []TypeOK
<1>1. Inv => TypeOK
  BY DEF Inv
<1> QED
  BY <1>1, Invariance, PTL

\* The CodeWhisperer service and the streaming client exist together, in the
\* same region and for the same profile, which is the active one.
THEOREM Agreement == Spec => []ClientsAgree
<1>1. Inv => ClientsAgree
  BY RegionAssumption DEF Inv, Sound, ClientsAgree
<1> QED
  BY <1>1, Invariance, PTL

\* A request is served by a client of the user's present connection only.
THEOREM Serving == Spec => []ServedForConnection
<1>1. Inv => ServedForConnection
  BY DEF Inv
<1> QED
  BY <1>1, Invariance, PTL

\* No client is replaced before its requests were aborted.
THEOREM NoOrphans == Spec => []NoOrphanedRequests
<1>1. Inv => NoOrphanedRequests
  BY DEF Inv, Sound, NoOrphanedRequests
<1> QED
  BY <1>1, Invariance, PTL

\* Both clients carry the settings of the configuration cache.
THEOREM SettingsCarried == Spec => []SettingsReachClients
<1>1. Inv => SettingsReachClients
  BY DEF Inv, Sound, SettingsReachClients
<1> QED
  BY <1>1, Invariance, PTL

\* A blocked identity is notified again after a sign-out.
THEOREM Notification == Spec => []NotifiesAfterSignOut
<1>1. Inv => NotifiesAfterSignOut
  BY DEF Inv
<1> QED
  BY <1>1, Invariance, PTL

\* A step that moves a connected user's clients between regions by selecting
\* another profile calls the listener with the region of the new clients.
LEMMA SwitchStep ==
    ASSUME Inv, Next,
           creds # NoCreds, creds.type = mgr.connectionType,
           mgr.profile # NoProfile, mgr'.profile # NoProfile,
           mgr'.region # mgr.region, mgr.heard # Deaf
    PROVE  mgr'.heard = mgr'.region
<1>0. /\ creds \in Credentials \cup {NoCreds}
      /\ config \in [q : QSettings, cw : CwSettings]
      /\ mgr \in Managers
      /\ Sound(mgr, config)
  BY DEF Inv, TypeOK
<1>1. ASSUME NEW c \in Credentials, handleOnCredentialsUpdated(c)
      PROVE  FALSE
  <2>1. mgr' = handleSsoConnectionChange(mgr, c) \/ mgr' = mgr
    BY <1>1 DEF handleOnCredentialsUpdated
  <2> QED
    BY <1>0, <2>1, ConnectionChangeFacts
<1>2. ASSUME handleOnCredentialsDeleted
      PROVE  FALSE
  BY <1>0, <1>2, SignedOutFacts DEF handleOnCredentialsDeleted, Sound
<1>3. ASSUME NEW p \in Profiles \cup {NoProfile}, handleProfileChange(p)
      PROVE  mgr'.heard = mgr'.region
  BY <1>3, ProfileChangeFacts
<1>4. ASSUME getCodewhispererService \/ getStreamingClient
      PROVE  FALSE
  <2>1. /\ mgr'.profile = Checked.profile
        /\ mgr'.region = Checked.region
    BY <1>4, CheckedFacts
    DEF getCodewhispererService, getStreamingClient, Sound, Managers
  <2> QED
    BY <2>1, CheckedFacts
<1>5. ASSUME onAccessBlocked \/ onRegionChange \/ UnregisterListener
      PROVE  FALSE
  BY <1>0, <1>5 DEF onAccessBlocked, onRegionChange, UnregisterListener, Managers
<1>6. ASSUME NEW q \in QSettings \cup {Unread},
             NEW cw \in CwSettings \cup {Unread},
             ApplyConfiguration(q, cw)
      PROVE  FALSE
  <2>1. Merged(q, cw) \in [q : QSettings, cw : CwSettings]
    BY <1>0 DEF Merged
  <2> QED
    BY <1>6, <2>1, UpdateConfigFacts DEF ApplyConfiguration
<1> QED
  BY <1>1, <1>2, <1>3, <1>4, <1>5, <1>6 DEF Next

\* Region switches of a connected user are heard by the listeners.
THEOREM SwitchesHeard == Spec => RegionSwitchIsHeard
<1>1. Inv /\ [Next]_vars =>
        [ /\ creds # NoCreds /\ creds.type = mgr.connectionType
          /\ mgr.profile # NoProfile
          /\ mgr'.profile # NoProfile
          /\ mgr'.region # mgr.region
          /\ mgr.heard # Deaf
          => mgr'.heard = mgr'.region ]_vars
  BY SwitchStep
<1> QED
  BY <1>1, Invariance, PTL DEF Spec, RegionSwitchIsHeard

-----------------------------------------------------------------------------
(***************************************************************************)
(* The configuration.  Exchange is the protocol of questions and answers;  *)
(* Fresh says that what was read is what the client has, unless something  *)
(* was missed or a notification is still under way.                        *)
(***************************************************************************)
Messages == {Change} \cup [kind : {"answer"}, value : QSettings \cup CwSettings \cup {Unread}]

Answers == {i \in 1..Len(channel) : channel[i].kind = "answer"}

Exchange ==
    /\ channel \in Seq(Messages)
    /\ client \in Settings
    /\ missed \in BOOLEAN
    /\ task \in [at : {"idle", "reading q", "reading cw", "notifying"}, q : QSettings \cup {Unread}]
    /\ asked \in {"none", "q", "cw"}
    /\ asked = "q" => task.at = "reading q"
    /\ asked = "cw" => task.at = "reading cw"
    /\ asked # "none" => Answers = {}
    /\ \A i, j \in Answers : i = j
    /\ Answers # {} => task.at \in {"reading q", "reading cw"}
    /\ \A i \in Answers : channel[i].value \in
          {Unread} \cup (IF task.at = "reading q" THEN QSettings ELSE CwSettings)

Fresh == ~missed /\ (\A i \in 1..Len(channel) : channel[i] # Change) =>
    /\ task.at = "reading q" => \A i \in Answers : channel[i].value \in {client.q, Unread}
    /\ task.at = "reading cw" => /\ task.q = client.q
                                 /\ \A i \in Answers : channel[i].value \in {client.cw, Unread}
    /\ task.at \in {"idle", "notifying"} => config = client

ConfigInv == Inv /\ Exchange /\ Fresh /\ told = config

\* Receiving takes the first message away.
LEMMA IncomingFacts ==
    ASSUME Exchange, NEW k, Incoming(k)
    PROVE  /\ channel' \in Seq(Messages) /\ Len(channel') + 1 = Len(channel)
           /\ \A i \in 1..Len(channel') : channel'[i] = channel[i + 1] /\ i + 1 \in 1..Len(channel)
           /\ 1 \in 1..Len(channel) /\ channel[1] \in Messages /\ channel[1] = Head(channel)
           /\ channel[1].kind = k
<1>1. channel \in Seq(Messages) /\ channel # <<>> /\ channel' = Tail(channel) /\ Head(channel).kind = k
    BY Zenon DEF Incoming, Exchange
<1> HIDE DEF Messages
<1>2. channel' \in Seq(Messages) /\ Len(channel') = Len(channel) - 1 /\ Len(channel) \in Nat \ {0}
    BY <1>1
<1>3. \A i \in 1..Len(channel') : channel'[i] = channel[i + 1]
    BY <1>1, <1>2
<1>4. Head(channel) = channel[1] /\ channel[1] \in Messages
    BY <1>1, <1>2
<1> QED BY <1>1, <1>2, <1>3, <1>4

LEMMA AppendFacts ==
    ASSUME Exchange, NEW m \in Messages, channel' = Append(channel, m)
    PROVE  /\ channel' \in Seq(Messages) /\ Len(channel') = Len(channel) + 1
           /\ Len(channel') \in 1..Len(channel') /\ channel'[Len(channel')] = m
           /\ \A i \in 1..Len(channel) : channel'[i] = channel[i] /\ i \in 1..Len(channel')
           /\ \A i \in 1..Len(channel') : i = Len(channel') \/ i \in 1..Len(channel)
<1>1. channel \in Seq(Messages)
    BY Zenon DEF Exchange
<1> HIDE DEF Messages
<1>2. channel' \in Seq(Messages) /\ Len(channel') = Len(channel) + 1 /\ Len(channel) \in Nat
    BY <1>1
<1>3. channel'[Len(channel) + 1] = m /\ \A i \in 1..Len(channel) : channel'[i] = channel[i]
    BY <1>1, <1>2
<1> QED BY <1>2, <1>3

LEMMA ChangeIsMessage ==
    /\ Change \in Messages /\ Change.kind = "change"
    /\ \A m \in Messages : m = Change \/ (m.kind = "answer" /\ m # Change)
BY DEF Messages, Change

LEMMA EditInv ==
    ASSUME ConfigInv, NEW s \in Settings, Edit(s)
    PROVE  ConfigInv'
<1>1. /\ channel' = Append(channel, Change) /\ client' = s
      /\ UNCHANGED <<vars, asked, task, told, missed>>
    BY DEF Edit
<1>2. Inv'
    <2>1. UNCHANGED vars
        BY <1>1
    <2> QED BY <2>1, NextInv DEF ConfigInv
<1>3. told' = config'
    BY <1>1 DEF vars, ConfigInv
<1>4. Answers' = Answers /\ \A i \in Answers : channel'[i] = channel[i]
    BY <1>1, AppendFacts, ChangeIsMessage DEF Answers, ConfigInv
<1>5. Exchange'
    BY <1>1, <1>4, AppendFacts, ChangeIsMessage, Zenon DEF Exchange, ConfigInv
<1>6. Fresh'
    BY <1>1, AppendFacts, ChangeIsMessage, Zenon DEF Fresh, ConfigInv
<1> QED BY <1>2, <1>3, <1>5, <1>6 DEF ConfigInv

LEMMA ClientAnswersInv ==
    ASSUME ConfigInv, ClientAnswers
    PROVE  ConfigInv'
<1>1. PICK v \in {client[asked], Unread} : channel' = Append(channel, [kind |-> "answer", value |-> v])
    BY DEF ClientAnswers
<1>2. asked \in {"q", "cw"} /\ asked' = "none" /\ UNCHANGED <<vars, client, task, told, missed>>
    BY Zenon DEF ClientAnswers, ConfigInv, Exchange
<1> DEFINE m == [kind |-> "answer", value |-> v]
<1>3. v \in {Unread} \cup (IF asked = "q" THEN {client.q} ELSE {client.cw})
    BY <1>1, <1>2
<1>4. client.q \in QSettings /\ client.cw \in CwSettings
    BY Zenon DEF ConfigInv, Exchange, Settings
<1>5. m \in Messages /\ m.kind = "answer" /\ m.value = v
    BY <1>3, <1>4 DEF Messages
<1> HIDE DEF m
<1>6. Answers = {}
    BY <1>2, Zenon DEF ConfigInv, Exchange
<1>7. channel' = Append(channel, m)
    BY <1>1 DEF m
<1>8. Answers' = {Len(channel')} /\ channel'[Len(channel')] = m
    BY <1>5, <1>6, <1>7, AppendFacts DEF Answers, ConfigInv
<1>9. Inv' /\ told' = config'
    <2>1. UNCHANGED vars
        BY <1>2
    <2> QED BY <1>2, <2>1, NextInv DEF ConfigInv, vars
<1>10. task.at = IF asked = "q" THEN "reading q" ELSE "reading cw"
    BY <1>2, Zenon DEF ConfigInv, Exchange
<1>11. Exchange'
    <2>1. channel' \in Seq(Messages)
        BY <1>5, <1>7, AppendFacts DEF ConfigInv
    <2> QED BY <1>2, <1>3, <1>4, <1>5, <1>8, <1>10, <2>1, Zenon DEF ConfigInv, Exchange
<1>12. Fresh'
    <2> SUFFICES ASSUME ~missed, \A i \in 1..Len(channel') : channel'[i] # Change
                 PROVE  /\ task.at = "reading q" => v \in {client.q, Unread}
                        /\ task.at = "reading cw" => task.q = client.q /\ v \in {client.cw, Unread}
        BY <1>2, <1>5, <1>8, <1>10, Zenon DEF Fresh
    <2>1. \A i \in 1..Len(channel) : channel[i] # Change
        BY <1>5, <1>7, AppendFacts DEF ConfigInv
    <2> QED BY <2>1, <1>3, <1>10, Zenon DEF ConfigInv, Fresh
<1> QED BY <1>9, <1>11, <1>12 DEF ConfigInv

LEMMA ChangeInv ==
    ASSUME ConfigInv, handleDidChangeConfiguration
    PROVE  ConfigInv'
<1>1. Incoming("change") /\ UNCHANGED <<vars, client, told>>
    BY Zenon DEF handleDidChangeConfiguration
<1>2. Inv' /\ told' = config'
    <2>1. UNCHANGED vars
        BY <1>1
    <2> QED BY <1>1, <2>1, NextInv DEF ConfigInv, vars
<1>3. /\ channel' \in Seq(Messages) /\ Len(channel') + 1 = Len(channel)
      /\ \A i \in 1..Len(channel') : channel'[i] = channel[i + 1] /\ i + 1 \in 1..Len(channel)
    BY <1>1, IncomingFacts DEF ConfigInv
<1>4. \A i \in Answers' : i + 1 \in Answers /\ channel'[i] = channel[i + 1]
    BY <1>3 DEF Answers
<1>5. CASE task.at = "idle"
    <2>1. task' = [NoTask EXCEPT !.at = "reading q"] /\ asked' = "q" /\ missed' = FALSE
        BY <1>5, Zenon DEF handleDidChangeConfiguration
    <2>2. Answers' = {}
        BY <1>4, <1>5, Zenon DEF ConfigInv, Exchange
    <2>3. task'.at = "reading q"
          /\ task' \in [at : {"idle", "reading q", "reading cw", "notifying"}, q : QSettings \cup {Unread}]
        BY <2>1, Zenon DEF NoTask
    <2>4. Exchange'
        BY <1>1, <1>3, <2>1, <2>2, <2>3, Zenon DEF ConfigInv, Exchange
    <2>5. Fresh'
        BY <2>2, <2>3, Zenon DEF Fresh
    <2> QED BY <1>2, <2>4, <2>5 DEF ConfigInv
<1>6. CASE task.at # "idle"
    <2>1. missed' = TRUE /\ UNCHANGED <<task, asked>>
        BY <1>6 DEF handleDidChangeConfiguration
    <2>2. \A i, j \in Answers' : i = j
        <3> SUFFICES ASSUME NEW i \in Answers', NEW j \in Answers' PROVE i = j
            OBVIOUS
        <3>1. i \in Nat /\ j \in Nat
            BY <1>3 DEF Answers
        <3>2. i + 1 = j + 1
            BY <1>4, Zenon DEF ConfigInv, Exchange
        <3> QED BY <3>1, <3>2
    <2>3. Exchange'
        BY <1>1, <1>3, <1>4, <2>1, <2>2, Zenon DEF ConfigInv, Exchange
    <2>4. Fresh'
        BY <2>1, Zenon DEF Fresh
    <2> QED BY <1>2, <2>3, <2>4 DEF ConfigInv
<1> QED BY <1>5, <1>6

\* An answer that is received was the only one under way, and is what the client had if nothing
\* was missed.
LEMMA AnswerFacts ==
    ASSUME ConfigInv, Incoming("answer")
    PROVE  /\ channel' \in Seq(Messages) /\ Answers' = {}
           /\ 1 \in Answers /\ channel[1] = Head(channel)
           /\ (\A i \in 1..Len(channel') : channel'[i] # Change) =>
                  \A i \in 1..Len(channel) : channel[i] # Change
<1>1. /\ channel' \in Seq(Messages) /\ Len(channel') + 1 = Len(channel)
      /\ \A i \in 1..Len(channel') : channel'[i] = channel[i + 1] /\ i + 1 \in 1..Len(channel)
      /\ 1 \in 1..Len(channel) /\ channel[1] = Head(channel) /\ channel[1].kind = "answer"
    BY IncomingFacts DEF ConfigInv
<1>2. 1 \in Answers
    BY <1>1 DEF Answers
<1>3. ASSUME NEW i \in Answers' PROVE FALSE
    <2>1. i + 1 \in Answers /\ i \in 1..Len(channel')
        BY <1>1, <1>3 DEF Answers
    <2>2. i + 1 = 1
        BY <1>2, <2>1, Zenon DEF ConfigInv, Exchange
    <2> QED BY <2>1, <2>2
<1>4. ASSUME \A i \in 1..Len(channel') : channel'[i] # Change, NEW j \in 1..Len(channel)
      PROVE  channel[j] # Change
    <2>1. CASE j = 1
        BY <2>1, <1>1, ChangeIsMessage
    <2>2. CASE j # 1
        <3>1. Len(channel') \in Nat
            BY <1>1
        <3>2. j - 1 \in 1..Len(channel') /\ (j - 1) + 1 = j
            BY <1>1, <2>2, <3>1
        <3> QED BY <1>1, <1>4, <3>2, Zenon
    <2> QED BY <2>1, <2>2
<1> QED BY <1>1, <1>2, <1>3, <1>4

LEMMA ReadQInv ==
    ASSUME ConfigInv, ReadQ
    PROVE  ConfigInv'
<1> DEFINE v == channel[1].value
<1>1. Incoming("answer")
    BY Zenon DEF ReadQ
<1>2. /\ task.at = "reading q" /\ asked' = "cw" /\ UNCHANGED <<vars, client, told>>
      /\ task' = [at |-> "reading cw", q |-> v] /\ missed' = (missed \/ v = Unread)
    BY <1>1, AnswerFacts, Zenon DEF ReadQ
<1>3. Inv' /\ told' = config'
    <2>1. UNCHANGED vars
        BY <1>2, Zenon
    <2> QED BY <1>2, <2>1, NextInv, Zenon DEF ConfigInv, vars
<1>4. v \in QSettings \cup {Unread}
    BY <1>1, <1>2, AnswerFacts, Zenon DEF ConfigInv, Exchange
<1>5. ~missed' /\ (\A i \in 1..Len(channel') : channel'[i] # Change) => v = client.q
    BY <1>1, <1>2, AnswerFacts, Zenon DEF ConfigInv, Exchange, Fresh
<1> HIDE DEF v
<1>6. task'.at = "reading cw" /\ task'.q = v
    BY <1>2, Zenon
<1>7. Exchange'
    BY <1>1, <1>2, <1>4, <1>6, AnswerFacts, Zenon DEF ConfigInv, Exchange
<1>8. Fresh'
    BY <1>1, <1>2, <1>5, <1>6, AnswerFacts, Zenon DEF Fresh
<1> QED BY <1>3, <1>7, <1>8 DEF ConfigInv

LEMMA ReadCwInv ==
    ASSUME ConfigInv, ReadCw
    PROVE  ConfigInv'
<1> DEFINE v == channel[1].value
<1>1. Incoming("answer")
    BY Zenon DEF ReadCw
<1>2. /\ task.at = "reading cw" /\ UNCHANGED <<client, asked>> /\ told' = config'
      /\ ApplyConfiguration(task.q, v)
      /\ task' = [NoTask EXCEPT !.at = "notifying"] /\ missed' = (missed \/ v = Unread)
    BY <1>1, AnswerFacts, Zenon DEF ReadCw
<1>3. v \in CwSettings \cup {Unread} /\ task.q \in QSettings \cup {Unread}
    BY <1>1, <1>2, AnswerFacts, Zenon DEF ConfigInv, Exchange
<1>4. Inv'
    BY <1>2, <1>3, NextInv, Zenon DEF ConfigInv, Next
<1>5. ~missed' /\ (\A i \in 1..Len(channel') : channel'[i] # Change) =>
          task.q = client.q /\ v = client.cw
    BY <1>1, <1>2, AnswerFacts, Zenon DEF ConfigInv, Exchange, Fresh
<1> HIDE DEF v
<1>6. config' = Merged(task.q, v)
    BY <1>2, Zenon DEF ApplyConfiguration
<1>7. task.q = client.q /\ v = client.cw => config' = client
    <2>1. client \in Settings /\ client.q # Unread /\ client.cw # Unread
        BY SettingAssumption, Zenon DEF ConfigInv, Exchange, Settings
    <2> QED BY <1>6, <2>1 DEF Merged, Settings
<1>8. task'.at = "notifying"
      /\ task' \in [at : {"idle", "reading q", "reading cw", "notifying"}, q : QSettings \cup {Unread}]
    BY <1>2, Zenon DEF NoTask
<1>9. asked = "none"
    BY <1>1, <1>2, AnswerFacts, Zenon DEF ConfigInv, Exchange
<1>10. Exchange'
    BY <1>1, <1>2, <1>8, <1>9, AnswerFacts, Zenon DEF ConfigInv, Exchange
<1>11. Fresh'
    BY <1>2, <1>5, <1>7, <1>8, Zenon DEF Fresh
<1> QED BY <1>2, <1>4, <1>10, <1>11, Zenon DEF ConfigInv

LEMMA SettleInv ==
    ASSUME ConfigInv, ListenersSettle
    PROVE  ConfigInv'
<1>1. /\ task.at = "notifying" /\ task' = NoTask
      /\ UNCHANGED <<vars, client, asked, channel, told, missed>>
    BY DEF ListenersSettle
<1>2. Inv' /\ told' = config' /\ config' = config
    <2>1. UNCHANGED vars
        BY <1>1
    <2> QED BY <1>1, <2>1, NextInv DEF ConfigInv, vars
<1>3. task'.at = "idle"
      /\ task' \in [at : {"idle", "reading q", "reading cw", "notifying"}, q : QSettings \cup {Unread}]
    BY <1>1 DEF NoTask
<1>4. Answers' = Answers /\ Answers = {} /\ asked = "none"
    BY <1>1, Zenon DEF ConfigInv, Exchange, Answers
<1>5. Exchange'
    BY <1>1, <1>3, <1>4, Zenon DEF ConfigInv, Exchange
<1>6. Fresh'
    BY <1>1, <1>2, <1>3, Zenon DEF ConfigInv, Fresh
<1> QED BY <1>2, <1>5, <1>6 DEF ConfigInv

LEMMA OthersInv ==
    ASSUME ConfigInv, OtherHandlers \/ UNCHANGED allVars
    PROVE  ConfigInv'
<1>1. UNCHANGED configVars
    BY DEF OtherHandlers, allVars
<1>2. [Next]_vars
    BY DEF OtherHandlers, Next, allVars
<1>3. Inv'
    BY <1>2, NextInv DEF ConfigInv
<1>4. config' = config
    BY DEF OtherHandlers, handleOnCredentialsUpdated, handleOnCredentialsDeleted, handleProfileChange,
           getCodewhispererService, allVars, vars
<1>5. /\ UNCHANGED <<client, asked, channel, task, told, missed>>
      /\ Answers' = Answers
    BY <1>1 DEF configVars, Answers
<1>6. Exchange' /\ Fresh' /\ told' = config'
    BY <1>4, <1>5, Zenon DEF ConfigInv, Exchange, Fresh
<1> QED BY <1>3, <1>6 DEF ConfigInv

\* The configuration steps are steps of the manager or leave it alone, so its invariant holds here.
THEOREM ConfigInvariance == ConfigSpec => []ConfigInv
<1>1. ConfigInit => ConfigInv
    <2> SUFFICES ASSUME ConfigInit PROVE ConfigInv
        OBVIOUS
    <2>1. Inv /\ told = config
        BY InitInv DEF ConfigInit
    <2>2. channel \in Seq(Messages) /\ Len(channel) = 1 /\ channel[1] = Change
        BY ChangeIsMessage DEF ConfigInit
    <2>3. Answers = {}
        BY <2>2, ChangeIsMessage DEF Answers
    <2>4. Exchange
        BY <2>2, <2>3, Zenon DEF ConfigInit, Exchange, NoTask
    <2>5. 1 \in 1..Len(channel) /\ channel[1] = Change
        BY <2>2
    <2>6. Fresh
        BY <2>5, Zenon DEF Fresh
    <2> QED BY <2>1, <2>4, <2>6 DEF ConfigInv
<1>2. ConfigInv /\ [ConfigNext]_allVars => ConfigInv'
    BY EditInv, ClientAnswersInv, ChangeInv, ReadQInv, ReadCwInv, SettleInv, OthersInv
    DEF ConfigNext, Server
<1> QED
    BY <1>1, <1>2, PTL DEF ConfigSpec

\* When nothing is under way and nothing was missed, handleDidChangeConfiguration has left the
\* server and its listeners with the client's settings.
THEOREM ConfigCurrent == ConfigSpec => []CurrentUnlessMissed
<1>1. ConfigInv => CurrentUnlessMissed
    <2> SUFFICES ASSUME ConfigInv, Quiet, ~missed PROVE config = client /\ told = client
        BY DEF CurrentUnlessMissed
    <2>1. \A i \in 1..Len(channel) : channel[i] # Change
        BY DEF Quiet
    <2> QED BY <2>1 DEF ConfigInv, Fresh, Quiet
<1> QED
    BY <1>1, ConfigInvariance, PTL
=============================================================================
