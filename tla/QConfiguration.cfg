SPECIFICATION FairConfigSpec
CONSTANTS
    Profiles <- MCProfiles
    NoProfile = "noProfile"
    RegionOf <- MCRegionOf
    Regions <- MCRegions
    NoRegion = "noRegion"
    DefaultRegion = "us-east-1"
    ClientRegion = "noRegion"
    RuntimeRegion = "noRegion"
    ProfileSupport = TRUE
    Identities = {"ann"}
    QSettings = {"plain", "custom"}
    CwSettings = {"private", "shared"}
    DefaultQ = "plain"
    DefaultCw = "private"
    Unread = "unread"
    NoCreds = NoCreds
    NoClient = NoClient
    Deaf = "deaf"
    MaxEdits = 2
    ReadsFail = TRUE
INVARIANT CurrentUnlessMissed
PROPERTY ChangesFinish
