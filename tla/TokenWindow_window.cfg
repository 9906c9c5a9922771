SPECIFICATION WindowSpec
CONSTANTS
    Dur = 9
    InitialSlugCount = 3
    FutureSlugCount = 2
    Undated = {18}
    Rejected = {}
    MaxTime = 44
    MaxSlug = 60
    Ahead = 2
    RefreshEvery = 2
    MaxFailures = 1
INVARIANTS WindowTypeOK CurrentWindowKnown TokensFollowWindow
