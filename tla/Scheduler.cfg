SPECIFICATION Spec
CONSTANTS
    Pods = {a, b}
    Nodes = {n1, n2}
    NoNode = NoNode
    NoPod = NoPod
    Slo <- SloOf
    Capacity <- CapacityOf
    Ready = {n1}
    MaxUpsets = 2
CHECK_DEADLOCK FALSE
INVARIANTS
    TypeOK
    NoOvercommit
    Accounted
    Confirmed
    OneQueue
    Parked
PROPERTIES
    SnapshotFresh
    KeepsLedger
SYMMETRY PodSymmetry
