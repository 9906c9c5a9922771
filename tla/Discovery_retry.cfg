SPECIFICATION Spec
CONSTANTS
    Dur = 2
    InitialSlugCount = 2
    FutureSlugCount = 2
    Undated = {}
    Rejected = {}
    MaxTime = 3
    MaxSlug = 6
INVARIANTS FailedIsRetried
