CONSTANTS
    o1 = o1  o2 = o2  s1 = s1  s2 = s2  w1 = w1  rt = rt  sw = sw
    Clouds = {"akamai", "aws", "azure", "do", "exoscale", "gcp", "oci", "ovh", "upcloud", "vultr"}
    Originals = {o1, o2}
    Rotatable = {o1}
    Recorded = {o1}
    Terms = {1, 12}
    Never = Never
    Unset = Unset
    Lifetime = 9
    Gap = 3
    KeyLimit = 2
    Successors = {s1, s2}
    Writers = {w1}
    Rotators = {rt}
    Sweepers = {sw}
    NoProc = NoProc
    NoMinter = NoMinter
    Absent = Absent
    Active = Active
    RetireGrace = 0
    MaxTime = 1
    MaxWrites = 1
    MaxCrashes = 1
SPECIFICATION FairSpec
INVARIANTS TypeOK ActiveAlive SetServes
PROPERTIES SuccessorsKept RetiredDies
CHECK_DEADLOCK FALSE
