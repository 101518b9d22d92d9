SPECIFICATION FairSpec
CONSTANTS
    Pods = {a}
    Nodes = {n1}
    NoNode = NoNode
    NoPod = NoPod
    Slo <- SloOf
    Capacity <- CapacityOf
    Ready = {n1}
    MaxUpsets = 3
CHECK_DEADLOCK FALSE
PROPERTIES
    EventuallyConsistent
