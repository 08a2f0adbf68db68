SPECIFICATION FairSpec
CONSTANTS
    MaxMonitors = 2
    SyncConcurrency = 2
    StartHeight = 2
    StartSeq = 0
    WithVerifier = {TRUE, FALSE}
    VerifierHeight = 1
    ValidatorsAt <- Change4
    EventHeights = {2, 3}
    FirstHead = 3
    MaxHeight = 4
    MaxFaults = 2
INVARIANTS TypeOK OnlyTakenPassedOver ResponsesAhead VerifierAhead IconInv
PROPERTIES EventuallyDelivered
CHECK_DEADLOCK FALSE
