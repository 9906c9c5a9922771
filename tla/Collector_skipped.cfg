SPECIFICATION Spec
CONSTANTS
    btcYes = btcYes
    btcNo = btcNo
    ethYes = ethYes
    NoHash = NoHash
    NoStamp = NoStamp
    Tokens = {btcYes}
    TokenLists <- MCOneToken
    Hashes = {h1}
    Stamps = {s1}
    CLOBBatchSize = 50
    BufferMaxRows = 2
    MaxSnapshots = 2
INVARIANTS SkippedStateIsInserted
