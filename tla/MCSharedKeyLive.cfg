CONSTANTS
    k1 = k1  k2 = k2  rd1 = rd1  op = op  sw = sw  pu = pu
    Keys = {k1, k2}
    NoKey = NoKey
    Readers = {rd1}
    Operators = {}
    Sweepers = {sw}
    Purgers = {}
    NoProc = NoProc
    Privileges = {"read", "write"}
    RoleConfigs <- OneRole
    NoRole = NoRole
    Hold = 2
    MaxOp = 0
    MaxTime = 2
    MaxWrites = 0
    MaxCrashes = 0
    UntrackFails = FALSE
SPECIFICATION FairSpec
PROPERTIES RetiredKeysDie
CHECK_DEADLOCK FALSE
