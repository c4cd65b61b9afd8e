----------------------------- MODULE SystemRows -----------------------------
(***************************************************************************)
(* What the catalog promises about system.tables and system.partitions:    *)
(* rows, not columns; a statement that changes tables changes its rows in  *)
(* one step, a SELECT reads all of them at once, and a statement that is   *)
(* refused changes nothing.  CatalogRefinement maps Catalog to it.         *)
(*                                                                         *)
(* It keeps the oddities of the code that hold without any fault:          *)
(*   - DROP TABLE leaves rows behind;                                      *)
(*   - a CREATE TABLE whose PARTITION BY cannot be used is an error that   *)
(*     creates the table, and one that names several columns is answered   *)
(*     OK and does not partition it;                                       *)
(*   - a partition row is keyed by the name of the partition alone, so two *)
(*     tables overwrite each other's rows;                                 *)
(*   - a new partition goes to any partitioned table (Repartition does not *)
(*     know which one was named), and may replace one of the same name;    *)
(*   - a statement that is answered OK may have kept an old constraint.    *)
(***************************************************************************)
EXTENDS Naturals, Sequences, KeyOrder

CONSTANTS UserTables, Partitions, PartColumns, None

VARIABLES
    tables,    \* the tables in memory
    rows,      \* the rows on disk, by table and primary key
    running,   \* "none", or what the running statement does
    reply      \* the answer to the last statement

vars == <<tables, rows, running, reply>>

PrimaryKeys(s) == IF s = "system.tables" THEN UserTables ELSE Partitions

Init ==
    /\ tables = [t \in UserTables |-> None]
    /\ rows = [key \in {"system.tables"} \X UserTables
                         \cup {"system.partitions"} \X Partitions |-> None]
    /\ running = "none"
    /\ reply = [status |-> "none", from |-> None, rows |-> << >>]

\* Only table t changes, and it is there afterwards.
Changes(t) ==
    /\ tables'[t] # None
    /\ tables' = [tables EXCEPT ![t] = tables'[t]]

Begins(statement) ==
    /\ running = "none"
    /\ running' = statement
    /\ reply'.status = "none"

TableRow(t) == <<t, tables[t].columns>>

Create(t) ==
    /\ Begins("create")
    /\ tables[t] = None
    /\ Changes(t)
    /\ tables'[t].partition = None
    /\ rows' = [rows EXCEPT ![<<"system.tables", t>>] = TableRow(t)']

PartitionRow(t, p) ==
    LET list == tables[t].partition
        part == list.partitions[p]
    IN  <<t, p, part.constraints, list.column, part.values>>

\* One partition of t is added, replaced or constrained, and the rows of all
\* its partitions are brought up to date.
Repartition(t, p) ==
    /\ Begins("partition")
    /\ tables[t] # None
    /\ tables[t].partition # None
    /\ Changes(t)
    /\ tables'[t].columns = tables[t].columns
    /\ tables'[t].partition.column = tables[t].partition.column
    /\ LET list == tables[t].partition.partitions
           new == tables'[t].partition.partitions
       IN  /\ new[p] # None
           /\ new = [list EXCEPT ![p] = new[p]]
           /\ rows' = [key \in DOMAIN rows |->
                         IF key[1] = "system.partitions" /\ new[key[2]] # None
                         THEN PartitionRow(t, key[2])' ELSE rows[key]]

\* Table t is partitioned by a column and has no partition yet.
Partitioned(t, column) ==
    [columns |-> tables[t].columns,
     partition |-> [column |-> column,
                    partitions |-> [p \in Partitions |-> None]]]

\* The table just created may be partitioned before the answer.
Answer ==
    /\ running # "none"
    /\ running' = "none"
    /\ reply' \in [status : IF running = "create" THEN {"ok", "error"} ELSE {"ok"},
                   from : {None}, rows : {<< >>}]
    /\ \/ UNCHANGED tables
       \/ /\ running = "create"
          /\ \E t \in UserTables, column \in PartColumns :
                /\ tables[t] # None
                /\ tables[t].partition = None
                /\ tables' = [tables EXCEPT ![t] = Partitioned(t, column)]
    /\ UNCHANGED rows

Drop(t) ==
    /\ running = "none"
    /\ tables' = [tables EXCEPT ![t] = None]
    /\ reply'.status = "ok"
    /\ UNCHANGED <<rows, running>>

Refuse ==
    /\ running = "none"
    /\ reply'.status = "error"
    /\ UNCHANGED <<tables, rows, running>>

\* The rows of s in the order of their keys; columns are numbered from 0.
Contents(s) ==
    LET keys == InKeyOrder({k \in PrimaryKeys(s) : rows[<<s, k>>] # None})
        row(i) == rows[<<s, keys[i]>>]
    IN  [i \in DOMAIN keys |-> [c \in 0 .. Len(row(i)) - 1 |-> row(i)[c + 1]]]

Select(s) ==
    /\ running = "none"
    /\ reply'.from = s
    /\ reply'.rows = Contents(s)
    /\ UNCHANGED <<tables, rows, running>>

Next ==
    \/ \E t \in UserTables : Create(t) \/ Drop(t)
    \/ \E t \in UserTables, p \in Partitions : Repartition(t, p)
    \/ Answer
    \/ Refuse
    \/ \E s \in {"system.tables", "system.partitions"} : Select(s)

Safety == Init /\ [][Next]_vars

Spec == Safety /\ WF_vars(Answer)
=============================================================================
