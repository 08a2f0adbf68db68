SPECIFICATION FairSpec
CONSTANTS
    none = none
    NoBlock = none
    Chains <- TwoChains
    Stakes <- TwoStakes
    OtherApprovals <- Altered
    VerifierHeight = 1
    WithVerifier = {TRUE, FALSE}
    StartHeight = 2
    RxHeights = {3, 5}
    FirstHead = 5
    MaxSubs = 3
    MaxFaults = 2
INVARIANTS TypeOK NoFalseAlarm SentApproved  
PROPERTIES EventuallyRelayed
CHECK_DEADLOCK FALSE
