SPECIFICATION Spec
CONSTANTS
    Word = 2147483646
    MAX_QUOTA = 100000
    MIN_QUOTA = 1000
    MAX_DIFF = 10000
    Gain = 5000
    FineGain = 500000000
    Scale = 1000
    Rates = {100, 300, 500, 700, 1000, 1300, 2000, 2900, 4000}
    PlantGoals = {3000, 6000, 12000, 30000, 62500}
    StartQuotas = {1000, 5000, 50000, 100000}
PROPERTIES Converges Saturates
