SPECIFICATION ServiceSpec
CONSTANTS
    MLThreshold = 75
    MaxAnalyses = 8
    MaxML = 3
    MaxExpensive = 2
    Calls <- MCCalls
    FollowUps <- MCFollowUps
    MaxTurns = 2
    StaticKPIs = {"ibnr_ratio"}
    MaxCalls = 4
    MaxOutages = 1
    MaxDeaths = 1
    MaxRefusals = 1
INVARIANTS
    OnlyPluginPlansImpossible
    RequestedNotTrimmed
    ModelsOnlyWhenReady
    BlockedHasACause
    MemoryIsLatest
    ErrorHasACause
