SPECIFICATION LifecycleSpec
CONSTANTS
    btcYes = btcYes
    btcNo = btcNo
    NoHash = NoHash
    NoStamp = NoStamp
    Tokens = {btcYes, btcNo}
    TokenLists <- MCTokenLists
    Hashes = {}
    Stamps = {}
    CLOBBatchSize = 1
    BufferMaxRows = 2
    MaxSnapshots = 2
    MaxSignals = 1
PROPERTIES StartupSignalHeeded
