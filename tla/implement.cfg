SPECIFICATION FairSpec
CONSTANTS
    NSteps = 2
    Work <- MCWork
    Verify <- MCVerify
    MaxActs = 3
    MaxBacklog = 2
INVARIANTS
    TypeOK
    SettledInOrder
    LedgerTrue
    SidesAgree
PROPERTIES
    SettledStays
    DriverAdvances
    PlanHolds
    BusyEnds
CHECK_DEADLOCK FALSE
