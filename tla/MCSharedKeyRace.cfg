CONSTANTS
    k1 = k1  k2 = k2  rd1 = rd1  op = op  sw = sw  pu = pu
    Keys = {k1, k2}
    NoKey = NoKey
    Readers = {rd1}
    Operators = {op}
    Sweepers = {sw}
    Purgers = {}
    NoProc = NoProc
    Privileges = {"read", "write"}
    RoleConfigs <- RaceRoles
    NoRole = NoRole
    Hold = 2
    MaxOp = 1
    MaxTime = 2
    MaxWrites = 1
    MaxCrashes = 0
    UntrackFails = FALSE
SPECIFICATION Spec
SYMMETRY KeySymmetry
INVARIANTS ServedKeysOwned KeysReclaimable LeaseCovered
PROPERTIES NoWastedMint RecordedUntilGone
CHECK_DEADLOCK FALSE
