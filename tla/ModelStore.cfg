SPECIFICATION Spec
CONSTANTS
    Trainers = {t1, t2}
    AllModels <- TwoModels
    FitKeys = {"prophet_forecast"}
    CLIModels = {"lightgbm"}
    Checkouts <- TwoCheckouts
    MaxData = 2
    MaxTrainings = 2
    MaxFits = 1
    MaxDeaths = 1
INVARIANTS
    RegistryKept
PROPERTIES
    SkippedMeansTrained
    StartEnds
CHECK_DEADLOCK FALSE
