SPECIFICATION Spec
CONSTANTS
    Relays = {r1}
    NoRelay = NoRelay
    SrcOffset = 1
    TxDataSizeLimit = 1
    ReceiptRetries = 2
    Poison = {}
    MaxSeq = 3
    MaxEvents = 3
    MaxHeight = 4
    MaxCrashes = 0
INVARIANT StatusNotStale
CHECK_DEADLOCK FALSE
