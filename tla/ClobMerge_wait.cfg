SPECIFICATION MergeSpec
CONSTANTS
    Callers = {discovery, refresh, other}
    NoCaller = NoCaller
    MinDelay = 2
    Worker = discovery
    MarketLists <- MCMarketLists
    BatchSizes = {1, 3}
INVARIANTS TypeOK MergeTypeOK MergePrefersYes
PROPERTIES GrantsSpaced WaitReturns CancelReleases CancelStopsWorker
