SPECIFICATION FairSpec
CONSTANTS
    Beats = {h1, h2}
    Reports = {x1}
    Workers = 2
    MaxDepth = 0
    Window = 1
    Kept = 1
    DecisionTTL = 2
    BlockTTL = 2
    Crashes = TRUE
    MaxCount = 2
INVARIANTS
    TypeOK
    LockedIsAudited
    BaselineMatches
    BreakerSheds
PROPERTIES
    AckedIsAnalysed
    Rescored
