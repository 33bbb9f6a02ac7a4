CONSTANTS
    g1 = g1  g2 = g2  m1 = m1  m2 = m2
    PluginNames = {"spaces"}
    Goroutines = {g1, g2}
    Minters = {m1}
    None = None
    Limit = 1
    TTL = 3
    MaxTTL = 3
    Lives = {1, 3}
    OAuthLife = 3
    Hold = 4
    MaxOp = 1
    MaxKeys = 2
    MaxTime = 3
    MaxFaults = 0
    MaxActs = 2
SYMMETRY Symmetry
SPECIFICATION Spec
INVARIANTS CapacityBound Contained
CHECK_DEADLOCK FALSE
