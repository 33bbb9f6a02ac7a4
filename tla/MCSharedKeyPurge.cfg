CONSTANTS
    k1 = k1  k2 = k2  rd1 = rd1  op = op  sw = sw  pu = pu
    Keys = {k1, k2}
    NoKey = NoKey
    Readers = {rd1}
    Operators = {}
    Sweepers = {sw}
    Purgers = {pu}
    NoProc = NoProc
    Privileges = {"read", "write"}
    RoleConfigs <- OneRole
    NoRole = NoRole
    Hold = 2
    MaxOp = 1
    MaxTime = 2
    MaxWrites = 0
    MaxCrashes = 1
    UntrackFails = TRUE
SPECIFICATION Spec
SYMMETRY KeySymmetry
INVARIANTS DeadKeyFindable
CHECK_DEADLOCK FALSE
