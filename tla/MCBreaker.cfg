CONSTANTS
    i1 = i1  i2 = i2  rv = rv  hc = hc  wr = wr
    Issuers = {i1}
    Revokers = {rv}
    Checkers = {hc}
    Writers = {wr}
    Threshold = 2
    CheckInterval = 2
    CallMax = 1
    Grace = 2
    Base = 2
    Cap = 3
    None = None
    MaxFaults = 2
    MaxBreaks = 1
SPECIFICATION FairSpec
INVARIANTS TypeOK Coherent ClaimOutlastsCall
PROPERTIES BreakerCloses Benched
