SPECIFICATION Spec
CONSTANTS
    NSteps = 2
    Work <- MCWork
    Verify <- MCVerify
    MaxActs = 2
    MaxBacklog = 2
PROPERTIES
    VerifyConfirmed
CHECK_DEADLOCK FALSE
