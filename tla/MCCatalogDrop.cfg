CONSTANTS
    None = None
    Garbage = Garbage
    c1 = c1
    c2 = c2
    region = region
    eu = eu
    us = us
    v1 = v1
    country = country
    UserTables <- TwoTables
    Partitions <- TwoPartitions
    ColumnLists <- OneColumnList
    PartColumns <- OnePartColumn
    ValueLists <- OneValueList
    Keys <- OneKey
    Values <- OneValue
    PutMayFail = FALSE
    MayCrash = FALSE
SPECIFICATION Spec
INVARIANTS
    CacheHoldsDiskTables
