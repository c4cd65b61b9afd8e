CONSTANTS
    None = None
    Garbage = Garbage
    c1 = c1
    c2 = c2
    region = region
    eu = eu
    us = us
    v1 = v1
    country = country
    UserTables <- OneTable
    Partitions <- TwoPartitions
    ColumnLists <- OneColumnList
    PartColumns <- OnePartColumn
    ValueLists <- OneValueList
    Keys <- OneKey
    Values <- OneValue
    PutMayFail = TRUE
    MayCrash = TRUE
SPECIFICATION Spec
INVARIANTS
    TypeOK
    WriteThrough
    HalfRowsAreTorn
    PartitionRowFresh
