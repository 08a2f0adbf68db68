SPECIFICATION Spec
CONSTANTS
    ICX = ICX
    BNB = BNB
    TOK = TOK
    CoinsName <- OnlyBNB
    IconCoins = {ICX, TOK}
    NativeCoins = {ICX, BNB}
    Users = {u1}
    Aggregator = Aggregator
    FeeNumerator = 0
    FeeDenominator = 1
    FixedFee = 1
    MaxBatchSize = 2
    RepeatCoins = FALSE
    UsableWrapped = {TRUE}
    Values = {2, 3}
    MaxLength = 1
    Funds = 3
    MaxRequests = 1
    MaxGathers = 0
INVARIANT BalancesHeld
CHECK_DEADLOCK FALSE
