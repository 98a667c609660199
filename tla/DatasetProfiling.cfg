SPECIFICATION Spec
CONSTANTS
    NULL = NULL
    MaxRows = 3
    Columns <- MCColumns
    Normal <- MCNormal
    Suffixed <- MCSuffixed
    Hints <- MCHints
    Traits <- MCTraits
    Width <- MCWidth
    Amount <- MCAmount
    Roles <- MCRoles
    Templates <- MCTemplates
    Likeness <- MCLikeness
    RowTiers <- MCRowTiers
    Files <- MCFiles
    Answers <- MCAnswers
    MaxSamples = 10
    IdentifierCardinality = 98
    Accepted = 98
    Warning = 50
    MinCoverage = 90
    MinGroup = 1
    MaxLabels = 2
    MaxPaths = 50
    MaxRuns = 2
INVARIANTS
    ChainIsLongest
    CubesShowTheTable
    GateTurnsAwayPoorData
    DatasetScoreIgnoresQuestion
CHECK_DEADLOCK FALSE
