SPECIFICATION FairSpec
CONSTANTS
    Relays = {r1}
    NoRelay = NoRelay
    SrcOffset = 1
    TxDataSizeLimit = 1
    ReceiptRetries = 2
    Poison = {}
    MaxSeq = 2
    MaxEvents = 1
    MaxHeight = 3
    MaxCrashes = 1
PROPERTIES EventuallyDispatched ImplementsChannel
