CONSTANTS
    p1 = p1  p2 = p2  k1 = k1  k2 = k2  s1 = s1  s2 = s2
    Clouds = {"upcloud"}
    Rotating = {"akamai", "aws", "azure", "exoscale", "gcp", "upcloud"}
    Procs = {p1, p2}
    Minters = {1, 2}
    Creds = {k1, k2}
    Scopes = {s1, s2}
    Configs <- MCCached
    DefaultConfig <- Cached
    NoRole = NoRole
    NoCred = NoCred
    NoVerdict = NoVerdict
    Unset = Unset
    Shapeless = Shapeless
    MaxTime = 1
    MaxProbes = 2
    MaxWrites = 4
SPECIFICATION Spec
PROPERTY CarriesOnly
CHECK_DEADLOCK FALSE
