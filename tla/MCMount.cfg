CONSTANTS
    p1 = p1  p2 = p2
    Clouds = {"akamai", "aws", "azure", "do", "exoscale", "gcp", "oci", "ovh", "upcloud", "vultr"}
    Procs = {p1}
    Configs = {0, 1, 2}
    Endpoints = {"e1"}
    DefaultEndpoint = "e0"
    DefaultCadence = 2
    FallbackInterval = 1
    BootstrapDelay = 1
    MaxGens = 2
    MaxStarts = 3
    MaxTime = 3
    MaxIds = 1
SPECIFICATION Spec
INVARIANTS TypeOK WorkersContained WorkersCurrent FirstPassInTime ConfigReloads
CHECK_DEADLOCK FALSE
