SPECIFICATION FairSpec
CONSTANTS
    StartHeight = 2
    VerifierHeight = 1
    BlockFinalityConfirmations = 3
    SyncConcurrency = 2
    ForkAt = 2
    NoBlock = NoBlock
    NoVerifier = NoVerifier
    MaxHeight = 8
    MaxLatest = 9
INVARIANTS TypeOK NotificationsInOrder DeliveredLinked DeliveredOnMain ReceiverInv
PROPERTY EventuallyDelivered
