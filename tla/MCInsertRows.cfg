CONSTANTS
    us = us
    eu = eu
    Blank = Blank
    None = None
    Servers <- TwoServers
    Args <- TestArgs
    Empty = Empty
    Values <- TwoServers
    Statements <- SixStatements
    MaxRetries = 1
    MaxCrashes = 1
    MaxLosses = 1
    MaxInserts = 2
CHECK_DEADLOCK FALSE
SPECIFICATION FairInsertSpec
INVARIANTS
    InsertTypeOK
    RowsReachMatchingServers
    RowsAreHandledInOrder
    AnswersMatchRows
    SettledInsertsSucceed
PROPERTIES
    InsertsAreAnswered
