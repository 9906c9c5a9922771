SPECIFICATION Spec
CONSTANTS
    btcYes = btcYes
    btcNo = btcNo
    ethYes = ethYes
    NoHash = NoHash
    NoStamp = NoStamp
    Tokens = {btcYes, btcNo, ethYes}
    TokenLists <- MCThreeTokens
    Hashes = {h1, h2}
    Stamps = {s1}
    CLOBBatchSize = 2
    BufferMaxRows = 2
    MaxSnapshots = 3
SYMMETRY MCSymmetry
INVARIANTS TypeOK BufferBounded PipelineOrdered NoRepeatedHash SkipJustified EverySnapshotAccounted
PROPERTIES InsertedInOrder RecorderSpec
