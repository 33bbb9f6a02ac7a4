CONSTANTS
    g1 = g1  g2 = g2  m1 = m1  m2 = m2
    PluginNames = {"akamai", "azure", "do", "upcloud", "vultr", "aws", "gcp", "ovh"}
    Goroutines = {g1, g2}
    Minters = {m1, m2}
    None = None
    Limit = 1
    TTL = 2
    MaxTTL = 2
    Lives = {1, 2}
    OAuthLife = 2
    Hold = 2
    MaxOp = 1
    MaxKeys = 1
    MaxTime = 3
    MaxFaults = 1
    MaxActs = 1
SYMMETRY Symmetry
SPECIFICATION Spec
INVARIANTS TypeOK LeaseHonest
PROPERTIES KeepsPromise
CHECK_DEADLOCK FALSE
