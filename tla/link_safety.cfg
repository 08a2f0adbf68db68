SPECIFICATION Spec
CONSTANTS
    Relays = {r1, r2}
    NoRelay = NoRelay
    SrcOffset = 2
    TxDataSizeLimit = 2
    ReceiptRetries = 1
    Poison = {3}
    MaxSeq = 3
    MaxEvents = 3
    MaxHeight = 4
    MaxCrashes = 1
SYMMETRY RelaySymmetry
VIEW SafetyView
INVARIANTS TypeOK ExactlyOnceInOrder NothingSkipped NothingLost NoInvalidSeqNumber RelayInv
PROPERTY LinkMonotonic
