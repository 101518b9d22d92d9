SPECIFICATION Spec
CONSTANTS
    a = a
    b = b
    h = h
    s = s
    MaxSlips = 2
    Mortal = {a}
    Pods = {a, b, h, s}
    KubeSystem = {s}
    HostNetwork = {h}
    Slo <- SloOf
    StrayDigits = {7}
    Events = {"ensure_fails", "sandbox_fails", "status_fails", "sandbox_dies", "restart",
              "update_fails", "container_dies", "qos_timer"}
    MaxVifs = 3
    MaxCount = 3
INVARIANTS TypeOK GoalOwn GoalSet PidOwn NoEmptyPid
CONSTRAINT Few
