SPECIFICATION Spec
CONSTANTS
    Word = 16
    MAX_QUOTA = 6
    MIN_QUOTA = 1
    MAX_DIFF = 1
    Gain = 2
    FineGain = 16
    Scale = 2
    Ports = {p1, p2}
    SystemPorts = {}
    Cpus = {}
    Users = {u1}
    Tasks = {}
    Weights = {2}
    Goals = {0}
    Lens = {}
    StartQuotas <- Unlimited
    ProcSlots = 3
    MaxVifs = 3
    MaxUsed = 0
    MaxLoads = 2
    Documented = FALSE
    AddMayFail = TRUE
INVARIANTS TypeOK UsersSafe NumVifExact TotalWeightExact
    NoLeak VifOwnsPort WalkComplete TimerFaultCause StalePointerCause
CONSTRAINT FewOverlaps
SYMMETRY PortSymmetry
