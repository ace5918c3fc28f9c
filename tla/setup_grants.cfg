CONSTANTS
    IgnoreFiles <- MCIgnore
    ManifestSets <- MCManifests
    Comments = {"#"}
    Locks = {"l"}
    SuisLine = ".suis"
    IMPORT_WINDOW = 2
    MaxStarts = 2
    MaxFaults = 1
    NoValue = NoValue
SPECIFICATION SetupSpec
PROPERTY AlwaysPersists
CHECK_DEADLOCK FALSE
