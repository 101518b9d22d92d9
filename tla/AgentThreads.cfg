SPECIFICATION Spec
CONSTANTS
    a = a
    b = b
    h = h
    s = s
    MaxSlips = 0
    Mortal = {a, b}
    Pods = {a, b}
    KubeSystem = {}
    HostNetwork = {}
    Slo <- SloOf
    StrayDigits = {}
    Events = {}
    MaxVifs = 3
    MaxCount = 3
INVARIANT SyncPodThreadSafe
