SPECIFICATION FairSpec
CONSTANTS
    ICX = ICX
    BNB = BNB
    TOK = TOK
    CoinsName <- Natives
    IconCoins = {ICX, TOK}
    NativeCoins = {ICX, BNB}
    Users = {u1}
    Aggregator = Aggregator
    FeeNumerator = 0
    FeeDenominator = 1
    FixedFee = 1
    MaxBatchSize = 1
    RepeatCoins = FALSE
    UsableWrapped = {FALSE}
    Values = {2}
    MaxLength = 1
    Funds = 4
    MaxRequests = 2
    MaxGathers = 1
PROPERTY GatheringSettled
CHECK_DEADLOCK FALSE
