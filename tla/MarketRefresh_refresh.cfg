SPECIFICATION Spec
CONSTANTS
    m1 = m1
    m2 = m2
    Markets = {m1, m2}
    Life <- MCLateLife
    TokenAnswers = {"none", "blank", "ids"}
    Delisted = {}
    Refused <- MCClosedRefused
    RefreshLimit = 1
    MaxFaults = 2
INVARIANTS MarketTypeOK
PROPERTIES OnlyDiscoveryTurnsBack TokensKept StatusConverges
