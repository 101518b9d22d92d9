SPECIFICATION FewSpec
CONSTANTS
    Pods = {a, b}
    Nodes = {n1, n2}
    NoNode = NoNode
    NoPod = NoPod
    Slo <- SloOf
    Capacity <- CapacityOf
    Ready = {n1}
    MaxUpsets = 4
CHECK_DEADLOCK FALSE
PROPERTIES
    NotStarved
    Forgotten
