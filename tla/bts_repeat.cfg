SPECIFICATION Spec
CONSTANTS
    ICX = ICX
    BNB = BNB
    TOK = TOK
    CoinsName <- OnlyICX
    IconCoins = {ICX, TOK}
    NativeCoins = {ICX, BNB}
    Users = {u1}
    Aggregator = Aggregator
    FeeNumerator = 0
    FeeDenominator = 1
    FixedFee = 1
    MaxBatchSize = 2
    RepeatCoins = TRUE
    UsableWrapped = {FALSE}
    Values = {2, 3}
    MaxLength = 2
    Funds = 9
    MaxRequests = 3
    MaxGathers = 0
PROPERTY AmountsReceived
CHECK_DEADLOCK FALSE
