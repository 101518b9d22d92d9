SPECIFICATION Spec
CONSTANTS
    Word = 1024
    MAX_QUOTA = 100
    MIN_QUOTA = 4
    MAX_DIFF = 20
    Gain = 12
    FineGain = 1000
    Scale = 2
    Goals <- MCGoals
    Loads <- MCLoads
    OwnerQuotas <- MCOwnerQuotas
PROPERTY BelowGoalKeepsCpu
