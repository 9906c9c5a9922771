SPECIFICATION Spec
CONSTANTS
    m1 = m1
    m2 = m2
    Markets = {m1, m2, m3}
    Life <- MCEarlyLife
    TokenAnswers = {"none"}
    Delisted = {m1}
    Refused <- MCRefused
    RefreshLimit = 2
    MaxFaults = 1
PROPERTIES StatusConverges
