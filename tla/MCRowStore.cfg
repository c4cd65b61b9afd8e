CONSTANTS
    Tables <- SomeTables
    RowsOf <- SomeRows
    Names <- SomeNames
    None = None
    Garbage = Garbage
SPECIFICATION Spec
INVARIANTS
    TypeOK
    RowsKeepApart
    ScansShowTheRows
