-------------------------- MODULE CatalogRefinement --------------------------
(***************************************************************************)
(* Catalog, which writes a row with one Put per column and a statement's   *)
(* rows one after the other, implements SystemRows as long as no Put is     *)
(* lost.                                                                   *)
(***************************************************************************)
EXTENDS Catalog

TableRows == UserTables \X ColumnLists

PartitionRows ==
    UserTables \X Partitions \X [Keys -> Values \cup {None}]
        \X PartColumns \X ValueLists

ASSUME NoRowAssumption == None \notin TableRows \cup PartitionRows

\* A row is on disk if its first column is.
StoredRow(s, pk) ==
    IF db[<<s, pk, 0>>] = None THEN None
    ELSE [i \in 1 .. LastColumn(s) + 1 |-> db[<<s, pk, i - 1>>]]

\* A row still to be written counts as written: nothing reads it before.
VisibleRow(s, pk) ==
    IF ~BeingWritten(s, pk) THEN StoredRow(s, pk)
    ELSE IF s = "system.tables" THEN TableRow(pk)
    ELSE PartitionRow(subject, pk)

VisibleRows == [row \in Rows |-> VisibleRow(row[1], row[2])]

Running == IF pc \in {"create", "partition"} THEN pc ELSE "none"

Promise == INSTANCE SystemRows WITH rows <- VisibleRows, running <- Running

\* Statements look atomic: however the Puts of a statement are interleaved with
\* the loops that make them, its rows appear together, each SELECT shows exactly
\* the rows of the statements before it, refused statements leave no trace, and
\* every statement is answered (the promise of WriteRow, WritePartition, query).
StatementsAreAtomic == Promise!Spec

\* The same without the last: what no step may do.
NothingIsHalfDone == Promise!Safety
=============================================================================
