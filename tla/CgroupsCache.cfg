SPECIFICATION FairSpec
CONSTANTS
    Tables <- MCTables
    Overrides = {0, 3, 12}
    Limits <- MCLimits
    LossyNames <- MCLossyNames
    LossyPaths <- MCLossyPaths
    MaxGenerations = 2
    MaxFaults = 1
    MaxCloses = 1
INVARIANTS OneSnapshot LookupExact AnswersDecode
PROPERTIES CatchesUp
