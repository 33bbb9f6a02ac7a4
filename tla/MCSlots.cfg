CONSTANTS
    w = w  o = o  r = r  c = c  d = d
    Writers = {w}
    Operators = {o}
    Rotators = {r}
    Passes = {c}
    Readers = {d}
    NoProc = NoProc
    None = None
    SlotCounts = {1}
    Period = 1
    DefaultTTL = 1
    UserLimit = 3
    MaxDeletes = 1
    MaxTokens = 4
    MaxTime = 3
    MaxWrites = 2
    MaxFaults = 1
SPECIFICATION Spec
INVARIANTS TypeOK
PROPERTIES RotationSpared LeaseOutlived
CHECK_DEADLOCK FALSE
