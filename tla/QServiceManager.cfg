SPECIFICATION Spec
CONSTANTS
    Profiles <- MCProfiles
    NoProfile = "noProfile"
    RegionOf <- MCRegionOf
    Regions <- MCRegions
    NoRegion = "noRegion"
    DefaultRegion = "us-east-1"
    ClientRegion = "mars-1"
    RuntimeRegion = "noRegion"
    ProfileSupport = TRUE
    Identities = {"ann", "bob"}
    QSettings = {"plain", "custom"}
    CwSettings = {"private", "shared"}
    DefaultQ = "plain"
    DefaultCw = "private"
    Unread = "unread"
    NoCreds = NoCreds
    NoClient = NoClient
    Deaf = "deaf"
INVARIANTS ClientsAgree ServedForConnection NoOrphanedRequests SettingsReachClients
PROPERTIES RegionSwitchIsHeard
