\* The preference calls, alone and racing, with one failing request; two profile
\* updates against other writers; TIDs under a clock set back; a text under edit;
\* every subject under every list of preferences; every person at every place.
SPECIFICATION SdkSpec
CHECK_DEADLOCK FALSE
CONSTANTS
    None = None
    FeedUris <- MCFeedUris
    ListUris <- MCListUris
    AppLabelers <- MCAppLabelers
    BadDid = "bad"
    Clients = {"c1", "c2"}
    Scenarios <- MCScenarios
    MaxFaults = 1
    Callers = {"a", "b"}
    MaxOthers = 2
    MaxLosses = 1
    PerMs = 3
    ClockIds = 2
    MaxClock = 4
    MaxCount = 4
    Sources <- MCSources
    Inserts <- MCInserts
    MaxEdits = 2
    MaxDetects = 2
    Subjects <- MCSubjects
    StoredLists <- MCStoredLists
    Viewers <- MCViewers
    LabelDefs <- MCLabelDefs
    Regions <- MCRegions
    People <- MCPeople
    Places <- MCPlaces
INVARIANTS
    FacetsFollowText
    DecisionsHonourSettings
    MutedWordsMute
    AssuredAgeDecides
PROPERTIES
    OpsActAsDocumented
    NoLostUpdate
    CallsSettle
    ProfileSwapHonoured
    TidsAscend
