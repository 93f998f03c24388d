CONSTANTS
    Keys <- MCKeys
    TimeOf <- MCTimeOf
    SplitChoices <- MCSplitChoices
    MaxSeq = 4
    MaxCompactions = 2

SPECIFICATION Spec

INVARIANT TypeOK
INVARIANT LatestRowSurvives
INVARIANT L1DedupedAndDisjoint
INVARIANT ProcessedTombstonesApplied
