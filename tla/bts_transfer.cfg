SPECIFICATION FairSpec
CONSTANTS
    ICX = ICX
    BNB = BNB
    TOK = TOK
    CoinsName <- NativeToken
    IconCoins = {ICX, TOK}
    NativeCoins = {ICX, BNB}
    Users = {u1}
    Aggregator = Aggregator
    FeeNumerator = 0
    FeeDenominator = 1
    FixedFee = 1
    MaxBatchSize = 2
    RepeatCoins = FALSE
    UsableWrapped = {TRUE, FALSE}
    Values = {2, 3}
    MaxLength = 2
    Funds = 3
    MaxRequests = 2
    MaxGathers = 1
INVARIANTS TypeOK LockedMatchesPending WrappedBacked BurnCovered OneAnswer BTSInv
PROPERTIES Settled
CHECK_DEADLOCK FALSE
