------------------------------- MODULE Catalog -------------------------------
(***************************************************************************)
(* The metadata of one small-db server: the in-memory catalog              *)
(* (src/catalog), the rows it writes through to RocksDB (src/rocks) and    *)
(* the scans that read them back (src/query), as the statement handlers    *)
(* (src/server/stmt_handler.cc) drive them.                                *)
(*                                                                         *)
(* One thread executes statements one after the other, so a statement is   *)
(* cut only where the process can die: a row is written with one Put per   *)
(* column and each Put is a step of its own.                               *)
(*                                                                         *)
(* Names are natural numbers because std::map and RocksDB keep them        *)
(* sorted.  The two system tables are always in `tables', are never        *)
(* partitioned and cannot be created again, so `tables' holds the user     *)
(* tables only.                                                            *)
(***************************************************************************)
EXTENDS Naturals, Sequences, FiniteSets, KeyOrder

CONSTANTS
    UserTables,    \* names a CREATE TABLE may use
    Partitions,    \* names a CREATE TABLE ... PARTITION OF may use
    ColumnLists,   \* column definitions of a table
    PartColumns,   \* columns a table may be partitioned by
    ValueLists,    \* FOR VALUES IN lists
    Keys, Values,  \* left and right sides of a CHECK constraint
    None,          \* no table, no partition, no cell
    Garbage,       \* what is read past the end of a column array
    PutMayFail,    \* RocksDB may refuse a Put (disk full, I/O error)
    MayCrash       \* the process may die and be restarted

ASSUME NamesAssumption ==
    UserTables \subseteq Nat /\ Partitions \subseteq Nat

ASSUME ClauseAssumption ==
    PartColumns \cap {"none", "several", "unsupported"} = {}

ASSUME FaultAssumption == PutMayFail \in BOOLEAN /\ MayCrash \in BOOLEAN

VARIABLES
    pc,       \* "down", "ready", or the statement that is writing rows
    tables,   \* Catalog::tables, the in-memory catalog
    db,       \* the default column family of RocksDB
    clause,   \* what PARTITION BY the running CREATE TABLE carries
    named,    \* the table the running statement names
    subject,  \* the table whose rows are being written
    left,     \* primary keys of the rows still to write
    col,      \* the column to write next
    torn,     \* history: rows of which a Put was lost since it was begun
    reply     \* the answer to the last statement

cursor == <<clause, named, subject, left, col>>
vars == <<pc, tables, db, clause, named, subject, left, col, torn, reply>>

-----------------------------------------------------------------------------
(* Data.                                                                   *)

SinglePartition ==
    [values : ValueLists, constraints : [Keys -> Values \cup {None}]]

ListPartition ==
    [column : PartColumns,
     partitions : [Partitions -> SinglePartition \cup {None}]]

Table == [columns : ColumnLists, partition : ListPartition \cup {None}]

ASSUME NoneAssumption ==
    /\ None \notin UserTables \cup Partitions \cup ColumnLists \cup PartColumns
    /\ None \notin {"system.tables", "system.partitions"}
    /\ None \notin ValueLists \cup Values \cup [Keys -> Values \cup {None}]
    /\ None \notin SinglePartition
    /\ None \notin ListPartition
    /\ None \notin Table

\* A statement handler's partition clause: absent, with more than one column
\* (logged and ignored), with a strategy other than LIST, or BY LIST (column).
Clauses == {"none", "several", "unsupported"} \cup PartColumns

SystemTables == {"system.tables", "system.partitions"}

PrimaryKeys(s) == IF s = "system.tables" THEN UserTables ELSE Partitions

AllButLastColumn(s) == IF s = "system.tables" THEN 0 ELSE 3  \* mutant

LastColumn(s) == IF s = "system.tables" THEN 1 ELSE 4

Rows == {"system.tables"} \X UserTables
          \cup {"system.partitions"} \X Partitions

\* The keys "/<table>/<primary key>/column_<i>".
DbKeys == {"system.tables"} \X UserTables \X (0 .. 1)
            \cup {"system.partitions"} \X Partitions \X (0 .. 4)

IsTable(t) == tables[t] # None

IsPartitioned(t) == IsTable(t) /\ tables[t].partition # None

Holds(t, p) ==
    IsPartitioned(t) /\ tables[t].partition.partitions[p] # None

PartitionsOf(t) == {p \in Partitions : Holds(t, p)}

NoPartitions == [p \in Partitions |-> None]

NoConstraints == [k \in Keys |-> None]

Assign(constraints, k, v) == [constraints EXCEPT ![k] = v]  \* mutant

\* std::unordered_map::insert keeps the value of a key that is present.
Insert(constraints, k, v) ==
    IF constraints[k] = None THEN [constraints EXCEPT ![k] = v]
                             ELSE constraints

\* `table' with another list of partitions.
WithPartition(table, list) == [columns |-> table.columns, partition |-> list]

\* `tables' with partition p of table t set to `part'.
WithSinglePartition(t, p, part) ==
    LET list == tables[t].partition
    IN  [tables EXCEPT ![t] = WithPartition(@,
            [column |-> list.column,
             partitions |-> [list.partitions EXCEPT ![p] = part]])]

\* `table' partitioned by a column, without a partition yet.
PartitionedBy(table, column) ==
    WithPartition(table, [column |-> column, partitions |-> NoPartitions])

\* `part' with one more constraint.
Constrained(part, k, v) ==
    [values |-> part.values, constraints |-> Insert(part.constraints, k, v)]

\* The rows CreateTable and WritePartition build.
TableRow(t) == <<t, tables[t].columns>>

PartitionRow(t, p) ==
    LET list == tables[t].partition
        part == list.partitions[p]
    IN  <<t, p, part.constraints, list.column, part.values>>

\* Columns are numbered from 0.
TableCell(t, c) == TableRow(t)[c + 1]
PartitionCell(t, p, c) == PartitionRow(t, p)[c + 1]

-----------------------------------------------------------------------------
(* Scans: query() fills one array builder per column with whatever cells   *)
(* it meets, and the length of the first one is the number of records.     *)

\* The rows of table s of which column c is stored.
GetAll(s, c) == {pk \in PrimaryKeys(s) : db[<<s, pk, c>>] # None}

Builder(s, c) ==
    LET keys == InKeyOrder(GetAll(s, c))
    IN  [i \in DOMAIN keys |-> db[<<s, keys[i], c>>]]

\* Mutant: the last record is left out.
ScanShort(s) ==
    [i \in DOMAIN Builder(s, 0) \ {Len(Builder(s, 0))} |->
        [c \in 0 .. LastColumn(s) |-> Builder(s, c)[i]]]

Scan(s) ==
    [i \in DOMAIN Builder(s, 0) |->
        [c \in 0 .. LastColumn(s) |->
            IF i \in DOMAIN Builder(s, c) THEN Builder(s, c)[i] ELSE Garbage]]

-----------------------------------------------------------------------------
(* Statements.                                                             *)

NoReply == [status |-> "none", from |-> None, rows |-> << >>]
Done == [status |-> "ok", from |-> None, rows |-> << >>]
Error == [status |-> "error", from |-> None, rows |-> << >>]

EmptyTables == [t \in UserTables |-> None]

Idle ==
    /\ clause' = "none"
    /\ named' = None
    /\ subject' = None
    /\ left' = {}
    /\ col' = 0

Init ==
    /\ pc = "ready"
    /\ tables = EmptyTables
    /\ db = [k \in DbKeys |-> None]
    /\ clause = "none"
    /\ named = None
    /\ subject = None
    /\ left = {}
    /\ col = 0
    /\ torn = {}
    /\ reply = NoReply

\* Mutant: the loop over the columns starts at 1.
StartWritingAtOne(stmt, t, pks) ==
    /\ pc' = stmt
    /\ subject' = t
    /\ left' = pks
    /\ col' = IF pks = {} THEN 0 ELSE 1
    /\ reply' = NoReply
    /\ UNCHANGED <<db, torn>>

\* Begin to write the rows `pks' of table `t'.
StartWriting(stmt, t, pks) ==
    /\ pc' = stmt
    /\ subject' = t
    /\ left' = pks
    /\ col' = 0
    /\ reply' = NoReply
    /\ UNCHANGED <<db, torn>>

Answer(r) ==
    /\ reply' = r
    /\ pc' = "ready"

\* Mutant: the table is written, but not put into memory.
CreateTableOnDisk(t, columns, c) ==
    /\ pc = "ready"
    /\ ~IsTable(t)
    /\ clause' = c
    /\ named' = t
    /\ StartWriting("create", t, {t})
    /\ UNCHANGED tables

CreateTable(t, columns, c) ==
    /\ pc = "ready"
    /\ ~IsTable(t)
    /\ tables' = [tables EXCEPT ![t] = [columns |-> columns,
                                        partition |-> None]]
    /\ clause' = c
    /\ named' = t
    /\ StartWriting("create", t, {t})

\* AlreadyExists, or a column of a type from_string does not know.
CreateTableFails(t, knownTypes) ==
    /\ pc = "ready"
    /\ knownTypes => IsTable(t)
    /\ Answer(Error)
    /\ UNCHANGED <<tables, db, cursor, torn>>

\* PARTITION BY.  A new list partition has no partition yet, so WritePartition
\* has no row to write.
SetPartition ==
    \/ /\ clause \in {"none", "several"}
       /\ Answer(Done)
       /\ UNCHANGED tables
    \/ /\ clause = "unsupported"
       /\ Answer(Error)
       /\ UNCHANGED tables
    \/ /\ clause \in PartColumns
       /\ tables' = [tables EXCEPT ![subject] = PartitionedBy(@, clause)]
       /\ Answer(Done)

\* The rest of CREATE TABLE once the row of the table is written.
FinishCreate ==
    /\ pc = "create"
    /\ left = {}
    /\ SetPartition
    /\ Idle
    /\ UNCHANGED <<db, torn>>

\* Deletes from the column family "TablesCF", where nothing is ever put.
DropTable(t) ==
    /\ pc = "ready"
    /\ tables' = [tables EXCEPT ![t] = None]
    /\ Answer(Done)
    /\ UNCHANGED <<db, cursor, torn>>

\* Mutant: only the row of the new partition is written.
AddListPartitionAlone(t, p, vals) ==
    /\ pc = "ready"
    /\ \E u \in UserTables :
          /\ IsPartitioned(u)
          /\ tables' = WithSinglePartition(u, p,
                           [values |-> vals, constraints |-> NoConstraints])
          /\ StartWriting("partition", u, {p})
    /\ named' = t
    /\ UNCHANGED clause

\* The loop variable shadows the argument: the partition goes to whichever
\* list-partitioned table the unordered_map yields first.
AddListPartition(t, p, vals) ==
    /\ pc = "ready"
    /\ \E u \in UserTables :
          /\ IsPartitioned(u)
          /\ tables' = WithSinglePartition(u, p,
                           [values |-> vals, constraints |-> NoConstraints])
          /\ StartWriting("partition", u, PartitionsOf(u) \cup {p})
    /\ named' = t
    /\ UNCHANGED clause

AddListPartitionFails ==
    /\ pc = "ready"
    /\ \A u \in UserTables : ~IsPartitioned(u)
    /\ Answer(Error)
    /\ UNCHANGED <<tables, db, cursor, torn>>

\* Mutant: the constraint is not written to disk.
AddPartitionConstraintInMemory(p, k, v) ==
    /\ pc = "ready"
    /\ \E u \in UserTables :
          /\ Holds(u, p)
          /\ tables' = WithSinglePartition(u, p,
                Constrained(tables[u].partition.partitions[p], k, v))
    /\ Answer(Done)
    /\ UNCHANGED <<db, cursor, torn>>

AddPartitionConstraint(p, k, v) ==
    /\ pc = "ready"
    /\ \E u \in UserTables :
          /\ Holds(u, p)
          /\ tables' = WithSinglePartition(u, p,
                Constrained(tables[u].partition.partitions[p], k, v))
          /\ StartWriting("partition", u, PartitionsOf(u))
    /\ UNCHANGED <<clause, named>>

AddPartitionConstraintFails(p) ==
    /\ pc = "ready"
    /\ \A u \in UserTables : ~Holds(u, p)
    /\ Answer(Error)
    /\ UNCHANGED <<tables, db, cursor, torn>>

FinishPartition ==
    /\ pc = "partition"
    /\ left = {}
    /\ Answer(Done)
    /\ Idle
    /\ UNCHANGED <<tables, db, torn>>

\* SELECT * FROM a system table; WHERE is ignored.  Whether a projection of no
\* record succeeds is up to the projector.
Select(s) ==
    /\ pc = "ready"
    /\ \E status \in {"ok", "error"} :
          /\ status = "error" => Scan(s) = << >>
          /\ Answer([status |-> status, from |-> s, rows |-> Scan(s)])
    /\ UNCHANGED <<tables, db, cursor, torn>>

\* A user table is looked up under its schema name too, and never found; a
\* target other than * is refused.
SelectFails ==
    /\ pc = "ready"
    /\ Answer(Error)
    /\ UNCHANGED <<tables, db, cursor, torn>>

-----------------------------------------------------------------------------
(* Row writes.                                                             *)

Scope == IF pc = "create" THEN "system.tables" ELSE "system.partitions"

Cell(pk) == IF pc = "create" THEN TableCell(pk, col)
                             ELSE PartitionCell(subject, pk, col)

\* One Put of WriteRow.  Its result is ignored: the cursor moves on.
PutColumn(pk, stored) ==
    /\ pc \in {"create", "partition"}
    /\ pk \in left
    /\ \A other \in left : pk <= other
    /\ db' = IF stored THEN [db EXCEPT ![<<Scope, pk, col>>] = Cell(pk)]
                       ELSE db
    /\ torn' = IF ~stored THEN torn \cup {<<Scope, pk>>}
               ELSE IF col = 0 THEN torn \ {<<Scope, pk>>} ELSE torn
    /\ IF col < LastColumn(Scope)
         THEN col' = col + 1 /\ UNCHANGED left
         ELSE col' = 0 /\ left' = left \ {pk}
    /\ UNCHANGED <<pc, tables, clause, named, subject, reply>>

WriteColumn == \E pk \in left : PutColumn(pk, TRUE)

LoseColumn == PutMayFail /\ \E pk \in left : PutColumn(pk, FALSE)

-----------------------------------------------------------------------------
(* Process death and restart.  RocksDB keeps every completed Put; memory   *)
(* is rebuilt from nothing, the constructor does not read the database.    *)

Crash ==
    /\ MayCrash
    /\ pc # "down"
    /\ pc' = "down"
    /\ tables' = EmptyTables
    /\ torn' = IF col = 0 THEN torn
               ELSE torn \cup {<<Scope, pk>> : pk \in {q \in left :
                                         \A other \in left : q <= other}}
    /\ reply' = NoReply
    /\ Idle
    /\ UNCHANGED db

Restart ==
    /\ pc = "down"
    /\ pc' = "ready"
    /\ UNCHANGED <<tables, db, cursor, torn, reply>>

-----------------------------------------------------------------------------
Statement ==
    \/ \E t \in UserTables, columns \in ColumnLists, c \in Clauses :
          CreateTable(t, columns, c)
    \/ \E t \in UserTables, knownTypes \in BOOLEAN :
          CreateTableFails(t, knownTypes)
    \/ \E t \in UserTables : DropTable(t)
    \/ \E t \in UserTables, p \in Partitions, vals \in ValueLists :
          AddListPartition(t, p, vals)
    \/ AddListPartitionFails
    \/ \E p \in Partitions, k \in Keys, v \in Values :
          AddPartitionConstraint(p, k, v)
    \/ \E p \in Partitions : AddPartitionConstraintFails(p)
    \/ \E s \in SystemTables : Select(s)
    \/ SelectFails

ServerStep == WriteColumn \/ LoseColumn \/ FinishCreate \/ FinishPartition

Next == Statement \/ ServerStep \/ Crash \/ Restart

Spec == Init /\ [][Next]_vars

\* The thread that executes a statement is not stopped in the middle of it.
FairSpec == Spec /\ WF_vars(ServerStep)

-----------------------------------------------------------------------------
(* Properties.                                                             *)

DbTypeOK ==
    /\ db = [k \in DbKeys |-> db[k]]
    /\ \A t \in UserTables :
          /\ db[<<"system.tables", t, 0>>] \in UserTables \cup {None}
          /\ db[<<"system.tables", t, 1>>] \in ColumnLists \cup {None}
    /\ \A p \in Partitions :
          /\ db[<<"system.partitions", p, 0>>] \in UserTables \cup {None}
          /\ db[<<"system.partitions", p, 1>>] \in Partitions \cup {None}
          /\ db[<<"system.partitions", p, 2>>]
                \in [Keys -> Values \cup {None}] \cup {None}
          /\ db[<<"system.partitions", p, 3>>] \in PartColumns \cup {None}
          /\ db[<<"system.partitions", p, 4>>] \in ValueLists \cup {None}

\* Every variable stays within its type: a write in progress has a live
\* subject and a cursor inside the row it is writing, an idle server has none.
TypeOK ==
    /\ pc \in {"down", "ready", "create", "partition"}
    /\ tables \in [UserTables -> Table \cup {None}]
    /\ DbTypeOK
    /\ clause \in Clauses
    /\ named \in UserTables \cup {None}
    /\ torn \subseteq Rows
    /\ reply.status \in {"none", "ok", "error"}
    /\ pc \in {"down", "ready"} => left = {} /\ subject = None
    /\ pc = "down" => tables = EmptyTables
    /\ pc = "create" =>
          /\ subject \in UserTables /\ IsTable(subject)
          /\ left \subseteq {subject}
    /\ pc = "partition" =>
          /\ subject \in UserTables
          /\ left \subseteq PartitionsOf(subject)
    /\ left = {} => col = 0
    /\ col \in 0 .. LastColumn(Scope)
-----------------------------------------------------------------------------
\* CREATE TABLE returns only when the table's row is on disk, and the row
\* stays there unchanged as long as the table is in memory, whatever other
\* rows are written, lost or cut off by a crash (CreateTable and WriteRow).
WriteThrough ==
    \A t \in UserTables :
        /\ IsTable(t)
        /\ <<"system.tables", t>> \notin torn
        /\ ~(pc = "create" /\ t \in left)
        => \A c \in 0 .. 1 : db[<<"system.tables", t, c>>] = TableCell(t, c)

\* WritePartition rewrites every row that a statement made out of date: the
\* row of a partition that says it belongs to table t agrees, in each of its
\* five columns, with what t has in memory.
PartitionRowFresh ==
    \A t \in UserTables, p \in Partitions :
        /\ Holds(t, p)
        /\ db[<<"system.partitions", p, 0>>] = t
        /\ <<"system.partitions", p>> \notin torn
        /\ ~(pc = "partition" /\ p \in left)
        => \A c \in 0 .. 4 :
              db[<<"system.partitions", p, c>>] = PartitionCell(t, p, c)

BeingWritten(s, pk) ==
    s = Scope /\ pc \in {"create", "partition"} /\ pk \in left

\* A row that is on disk in part only is being written, or lost a Put to a
\* crash or a failure: no sequence of statements leaves half a row.
HalfRowsAreTorn ==
    \A s \in SystemTables : \A pk \in PrimaryKeys(s) :
        <<s, pk>> \in torn \/ BeingWritten(s, pk)
          \/ \A c \in 1 .. LastColumn(s) :
                (db[<<s, pk, c>>] = None) <=> (db[<<s, pk, 0>>] = None)

TornRowsOf(s) == {row \in torn : row[1] = s}

\* What was acknowledged is what is read: SELECT * FROM system.tables shows
\* every table in memory with the columns it was last created with.
SelectShowsTables ==
    reply.from = "system.tables" /\ TornRowsOf("system.tables") = {}
        => \A t \in UserTables :
              IsTable(t) => \E i \in DOMAIN reply.rows :
                  reply.rows[i] = [c \in 0 .. 1 |-> TableCell(t, c)]

ConstraintOf(t, p, k) == tables[t].partition.partitions[p].constraints[k]

\* ALTER TABLE ... CHECK never replaces a constraint: the value a key has only
\* goes away with its partition (AddPartitionConstraint inserts).
ConstraintsAreKept ==
    [][\A t \in UserTables, p \in Partitions, k \in Keys :
          Holds(t, p) /\ Holds(t, p)'
              => \/ ConstraintOf(t, p, k) = None
                 \/ ConstraintOf(t, p, k)' \in {ConstraintOf(t, p, k), None}]_vars

-----------------------------------------------------------------------------
(* What tests and comments of the repository expect, and the code does not *)
(* do: the runs that check these are expected to find a violation.         *)

\* CREATE TABLE p PARTITION OF t adds the partition to t if t can have it.
PartitionGoesToNamedTable ==
    pc = "partition" /\ named # None /\ IsPartitioned(named)
        => subject = named

\* `tables' is an in-memory cache of system.tables: a table with a row on
\* disk is in memory.
CacheHoldsDiskTables ==
    \A t \in UserTables :
        pc = "ready" /\ db[<<"system.tables", t, 1>>] # None => IsTable(t)

\* Every row of an answer is one row of the table, a crash before it or not.
AnswersOnlyRows ==
    reply.from # None =>
        \A i \in DOMAIN reply.rows : \E pk \in PrimaryKeys(reply.from) :
            \A c \in 0 .. LastColumn(reply.from) :
                reply.rows[i][c] = db[<<reply.from, pk, c>>]
=============================================================================
