CONSTANTS
    p1 = p1  p2 = p2  k1 = k1  k2 = k2  s1 = s1  s2 = s2
    Clouds = {"akamai", "aws", "azure", "do", "exoscale", "gcp", "oci", "ovh", "upcloud", "vultr"}
    Rotating = {"akamai", "aws", "azure", "exoscale", "gcp", "upcloud"}
    Procs = {p1}
    Minters = {1, 2}
    Creds = {k1, k2}
    Scopes = {s1, s2}
    Configs <- MCConfigs
    DefaultConfig <- Cached
    NoRole = NoRole
    NoCred = NoCred
    NoVerdict = NoVerdict
    Unset = Unset
    Shapeless = Shapeless
    MaxTime = 2
    MaxProbes = 2
    MaxWrites = 3
SPECIFICATION Spec
INVARIANTS TypeOK Capable
PROPERTIES CacheHonest
SYMMETRY Symmetric
CHECK_DEADLOCK FALSE
