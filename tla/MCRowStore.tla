----------------------------- MODULE MCRowStore -----------------------------
(***************************************************************************)
(* An instance of RowStore for TLC: the two system tables, and names that  *)
(* begin like one another, sort on either side of a slash, contain one, or *)
(* end like a key.                                                         *)
(***************************************************************************)
EXTENDS RowStore

SystemTables == [name |-> <<116>>, columns |-> 2, pk |-> 0]
SystemPartitions == [name |-> <<112>>, columns |-> 5, pk |-> 1]

SomeTables == {SystemTables, SystemPartitions}

\* "a", "a-", "a/a" and "a/column_1".
SomeNames ==
    {<<Letter>>, <<Letter, Dash>>, <<Letter, Slash, Letter>>,
     <<Letter, Slash, ColumnWord, Zero + 1>>}

\* Two rows for every name; no two columns of a row are alike.
SomeRows(s) ==
    {[i \in 0 .. s.columns - 1 |-> IF i = s.pk THEN pk ELSE <<i, version>>] :
        pk \in SomeNames, version \in {1, 2}}
=============================================================================
