SPECIFICATION FairSpec
CONSTANTS
    Chains <- FourChains
    AtomicTxnLimit = 3
    VerifierRound = 1
    MaxSubs = 2
    ReceiptRetries = 1
    MaxFaults = 1
INVARIANTS TypeOK NoEventSkipped DeliveredInOrder DeliveredComplete AlgoInv
PROPERTIES EventuallyExecuted
CHECK_DEADLOCK FALSE
