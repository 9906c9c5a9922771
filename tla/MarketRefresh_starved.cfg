SPECIFICATION Spec
CONSTANTS
    m1 = m1
    m2 = m2
    Markets = {m1, m2}
    Life <- MCLife
    TokenAnswers = {"ids"}
    Delisted = {m1}
    Refused <- MCNoneRefused
    RefreshLimit = 1
    MaxFaults = 0
PROPERTIES KeptUpToDate
