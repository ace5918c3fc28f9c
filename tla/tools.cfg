CONSTANTS
    Sessions = {s1, s2}
    plain = plain
    alias = alias
    secret = secret
    lock = lock
    fresh = fresh
    out = out
    Elsewhere = Elsewhere
    None = None
    Files <- MCFiles
    Names <- MCNames
    Resolve <- MCResolve
    Walked <- MCFiles
    Projects <- MCProjects
    Texts = {"t1", "t2"}
    InitialDisk <- MCDisk
    Drafts = {d1, d2}
    Slug <- MCSlug
    MaxCalls = 3
    MaxEvents = 1
    DefaultLines = 2
    ReadCap = 3
    Word = 16
    EntriesPerDir = 2
    TreeLines = 3
    Args = {a1, a2}
    Nobody = Nobody
    ServerIds = TRUE
    Cost <- MCCost
    Budget = 6
    ProtectedTurns = 2
    RecentTurns = 1
    MaxMessages = 7
    Absent = Absent
    m1 = m1
    m2 = m2
    m3 = m3
    Detectors = {p1, p2}
    Models = {m1, m2, m3}
    Able <- MCAble
    Told <- MCTold
    Fallback = "assumed"
    Offers <- MCOffers
    Ttl = 1
    ProbeConcurrency = 2
    Unknown = Unknown
    Torn = Torn
    MaxTime = 1
    MaxRuns = 2
    ollama = ollama
    lan = lan
    here = here
    there = there
    var = var
    key1 = key1
    key2 = key2
    given = given
    BuiltIn <- MCBuiltIn
    Nowhere = Nowhere
    Strange = Strange
    NotSet = NotSet
    CONTEXT = 1
    MaxResults = 3
    LineLimit = 3
    LineContext = 1
    EntriesPerLevel = 2
    SmallLetters = {"a", "l", "n", "p"}
    SmallForm <- MCSmallForm
    MaxToolCalls = 4
    MaxRevisions = 1
    RevisedPlans <- MCRevisions
    FilePaths = {f1, f2}
    HiddenPaths = {f2}
    HardenedPaths = {}
    InitialFiles <- MCContents
    MaxWrites = 3
    MaxClock = 1
SPECIFICATION MCSpec
INVARIANTS
    TextsSound
    StreamsWhole
    WireTrue
    PruneTrue
    DiscoveredSound
PROPERTIES
    CallsSound
    FunnelTrue
    GuardsTrue
    Detected
    CommandReturns
CHECK_DEADLOCK FALSE
