SPECIFICATION FairSpec
CONSTANTS
    ICX = ICX
    BNB = BNB
    TOK = TOK
    CoinsName <- OnlyBNB
    IconCoins = {ICX, TOK}
    NativeCoins = {ICX, BNB}
    Users = {u1}
    Aggregator = Aggregator
    FeeNumerator = 0
    FeeDenominator = 1
    FixedFee = 1
    MaxBatchSize = 2
    RepeatCoins = FALSE
    UsableWrapped = {FALSE}
    Values = {2}
    MaxLength = 1
    Funds = 2
    MaxRequests = 1
    MaxGathers = 0
PROPERTY RefundableReclaimed
CHECK_DEADLOCK FALSE
