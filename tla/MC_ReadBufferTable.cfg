CONSTANTS
    RowGroups <- MCRowGroups
    MaxRowGroups = 3
    NoDistinct = NoDistinct
    Columns <- MCColumns
    Preds <- MCPreds
    DeletePreds <- MCDeletePreds
    NoRead = NoRead
    ReadError = ReadError
    TagColumns = {}
    AllColumns = AllColumns
    GroupSelections <- MCGroupSelections
    AggregateSets <- MCAggregateSets
    ValueColumns <- MCValueColumns
    NoBatch = NoBatch

SPECIFICATION Spec

INVARIANT TypeOK
INVARIANT MetaSummarisesRowGroups
INVARIANT ReadsMatchReference
