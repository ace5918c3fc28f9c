CONSTANTS
    ollama = ollama
    lan = lan
    e1 = e1
    e2 = e2
    e2key = e2key
    m1 = m1
    m2 = m2
    Ids = {ollama, lan}
    Defaults = {ollama}
    Home <- MCHome
    Conns = {e1, e2, e2key}
    Usable = {e1, e2, e2key}
    Formed <- MCFormed
    Models = {m1, m2}
    Offers <- MCOffers
    Scope = {m1, m2}
    Advertised = {}
    Able <- MCAble
    Failures = {"offline"}
    InitialFiles <- MCFiles
    Missing = Missing
    Corrupt = Corrupt
    None = None
    Nil = Nil
    MaxWork = 2
    MaxSerial = 2
    MaxLines = 2
    MaxTogether = 4
    MaxSelects = 2
    MaxChunks = 2
    MaxBatch = 2
    MaxLag = 0
    Letters = {"/", "a", "nl"}
    COMMANDS <- MCCommands
    HISTORY_CAP = 2
    MaxTyped = 2
    Widths = {2}
    Heights = {1, 2}
    Live = Live
    Sizes = {4}
    HeaderCols = 2
    WindowWidths = {3, 6}
    WindowHeights = {3}
    DOCK_MIN_WIDTH = 6
    MaxMessages = 2
    Listed <- MCListed
    Serves <- MCServes
    Typeable = {"x"}
    MaxNeedle = 2
    MaxOutcomes = 2
    Viewports = {1, 3}
    PlanStores <- MCPlans
    RightStores <- MCRights
    Patterns = {"b", "c"}
    Nobody = Nobody
    IgnoreFiles <- MCIgnore
    ManifestSets <- MCManifests
    Comments = {"#"}
    Locks = {"l"}
    SuisLine = ".suis"
    IMPORT_WINDOW = 2
    MaxStarts = 2
    MaxFaults = 1
    NoValue = NoValue
    Chars = {"A", "sp"}
    Presets <- MCPresets
    Taken <- MCTaken
    Transports <- MCTransports
    MaxKeys = 2
    MaxTests = 1
    MaxForms = 2
    PlanLengths = {1, 4, 6}
    PopupHeights = {2, 4}
    Pages = {1, 3}
    Servers = {"p", "q"}
    PromptSizes = {2, 3}
    ChunkLength = 3
    MaxChunksSaid = 2
    MaxRequests = 2
    TERM_CAP = 1
    INBOX_CAP = 2
    EVENTS_CAP = 1
    MaxKeysRead = 5
    MaxEvents = 2
    Bridges = {1, 2}
    Nothing = Nothing
    Testing = Testing
SPECIFICATION MCSpec
INVARIANTS
    TranscriptTrue
    TasksAgree
    TopPopupAnswers
    DialogsTrue
PROPERTIES
    ProvidersTrue
    ViewTrue
    ChoicesTrue
    SetupTrue
CHECK_DEADLOCK FALSE
