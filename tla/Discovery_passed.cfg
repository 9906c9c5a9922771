SPECIFICATION Spec
CONSTANTS
    Dur = 2
    InitialSlugCount = 3
    FutureSlugCount = 2
    Undated = {4}
    Rejected = {8}
    MaxTime = 9
    MaxSlug = 10
INVARIANTS TypeOK PassedOnlyIfUnanswered AsksOnlyForNew
PROPERTIES AsksAhead
