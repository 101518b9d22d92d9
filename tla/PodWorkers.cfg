SPECIFICATION FairSpec
CONSTANTS
    Uids = {u1}
    Killers = {k1, k2}
    MaxVer = 2
    MaxGens = 3
INVARIANTS TypeOK OneSync SendsSafe WorkingExact
PROPERTIES KillNotLost LatestSynced
