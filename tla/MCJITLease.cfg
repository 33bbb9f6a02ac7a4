CONSTANTS
    k1 = k1  k2 = k2  m1 = m1  m2 = m2  i1 = i1  rv = rv  rc = rc  pu = pu  wk = wk
    Keys = {k1}
    Minters = {m1, m2}
    Original = {m1}
    Issuers = {i1}
    Revokers = {rv}
    Reconcilers = {rc}
    Purgers = {pu}
    None = None
    Hold = 2
    Retention = 2
    MaxOp = 1
    Limit = 1
    MaxDeletes = 1
    MaxTime = 3
    MaxFaults = 2
    MaxActs = 1
SPECIFICATION FairSpec
INVARIANTS TypeOK Reclaimable PurgeComplete
PROPERTIES LeasedKeysLive TrackedUntilGone LeasesEnd OrphansDie
CHECK_DEADLOCK FALSE

