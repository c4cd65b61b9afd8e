CONSTANTS
    Params <- ServerParams
    Batches <- SmallBatches
    ErrorTexts <- SmallTexts
    Rooms <- SomeRooms
    MaxMessageLen <- BufferSize
    StartUpText <- ShortStartUp
    Queries <- SomeQueries
    Junk <- BehindTheBuffer
    None = None
    MaxAsks = 2
CHECK_DEADLOCK FALSE
SPECIFICATION FairSpec
INVARIANTS
    TypeOK
    MessagesAreFramed
    RowsFitTheirDescription
    ReadyEndsTheReply
    WholeQueriesAreRun
    OnlyPrefixesAreRun
PROPERTIES
    RepliesEnd
