SPECIFICATION FairSpec
CONSTANTS
    Word = 64
    MAX_QUOTA = 1
    MIN_QUOTA = 1
    MAX_DIFF = 1
    Gain = 2
    FineGain = 16
    Scale = 2
    Ports = {p1, p2}
    SystemPorts = {}
    Cpus = {c1}
    Users = {}
    Tasks = {1}
    Weights = {}
    Goals = {2}
    Lens = {2}
    StartQuotas <- Unlimited
    ProcSlots = 3
    MaxVifs = 2
    MaxUsed = 2
    MaxLoads = 1
    Documented = TRUE
    AddMayFail = FALSE
INVARIANTS RxSafe UsedExact DocumentedUse
PROPERTIES ChargeIsTaken PortOpsEnd
