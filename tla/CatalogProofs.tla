---------------------------- MODULE CatalogProofs ----------------------------
(***************************************************************************)
(* Catalog: the invariants of the write-through, and what is proved of the *)
(* rows themselves, those of partitions in particular, for every set of    *)
(* names, columns and values, with failing Puts and crashes.               *)
(***************************************************************************)
EXTENDS Catalog, TLAPS

USE NamesAssumption, NoneAssumption, ClauseAssumption, FaultAssumption

-----------------------------------------------------------------------------
(* What the updates of `tables' do.                                        *)

\* Giving table t another partition list keeps `tables' well typed, and the
\* other tables and all column lists as they are.
LEMMA PartitionUpdate ==
    ASSUME tables \in [UserTables -> Table \cup {None}],
           NEW t \in UserTables, IsTable(t),
           NEW list \in ListPartition,
           tables' = [tables EXCEPT ![t] = WithPartition(@, list)]
    PROVE  /\ tables' \in [UserTables -> Table \cup {None}]
           /\ \A u \in UserTables : u # t => tables'[u] = tables[u]
           /\ tables'[t] = [columns |-> tables[t].columns, partition |-> list]
           /\ IsPartitioned(t)'
           /\ \A u \in UserTables : IsTable(u)' <=> IsTable(u)
           /\ \A u \in UserTables :
                 IsTable(u) => tables'[u].columns = tables[u].columns
<1>1. tables[t] \in Table
  BY DEF IsTable
<1>2. tables'[t] = [columns |-> tables[t].columns, partition |-> list]
  BY DEF WithPartition
<1>3. tables'[t] \in Table
  BY <1>1, <1>2 DEF Table
<1>4. list # None /\ tables'[t] # None
  BY <1>3
<1>5. /\ tables' \in [UserTables -> Table \cup {None}]
      /\ \A u \in UserTables : u # t => tables'[u] = tables[u]
  BY <1>2, <1>3
<1>6. QED
  BY <1>2, <1>4, <1>5 DEF IsTable, IsPartitioned

\* Setting one partition of a partitioned table is such an update.
LEMMA SinglePartitionUpdate ==
    ASSUME tables \in [UserTables -> Table \cup {None}],
           NEW t \in UserTables, IsPartitioned(t),
           NEW p \in Partitions, NEW part \in SinglePartition,
           tables' = WithSinglePartition(t, p, part)
    PROVE  /\ tables' \in [UserTables -> Table \cup {None}]
           /\ \A u \in UserTables : u # t => tables'[u] = tables[u]
           /\ \A u \in UserTables : IsTable(u)' <=> IsTable(u)
           /\ \A u \in UserTables :
                 IsTable(u) => tables'[u].columns = tables[u].columns
           /\ PartitionsOf(t)' = PartitionsOf(t) \cup {p}
<1> DEFINE old == tables[t].partition
           list == [column |-> old.column,
                    partitions |-> [old.partitions EXCEPT ![p] = part]]
<1>1. IsTable(t) /\ old \in ListPartition
  BY DEF IsPartitioned, IsTable, Table
<1>2. list \in ListPartition
  BY <1>1 DEF ListPartition
<1>3. tables' = [tables EXCEPT ![t] = WithPartition(@, list)]
  BY DEF WithSinglePartition
<1> HIDE DEF list
<1>4. /\ tables' \in [UserTables -> Table \cup {None}]
      /\ \A u \in UserTables : u # t => tables'[u] = tables[u]
      /\ tables'[t] = [columns |-> tables[t].columns, partition |-> list]
      /\ IsPartitioned(t)'
      /\ \A u \in UserTables : IsTable(u)' <=> IsTable(u)
      /\ \A u \in UserTables :
            IsTable(u) => tables'[u].columns = tables[u].columns
  BY <1>1, <1>2, <1>3, PartitionUpdate
<1>5. \A q \in Partitions : Holds(t, q)' <=> q = p \/ Holds(t, q)
  <2> TAKE q \in Partitions
  <2>1. tables'[t].partition.partitions = [old.partitions EXCEPT ![p] = part]
    BY <1>4 DEF list
  <2>2. part # None
    OBVIOUS
  <2>3. old.partitions \in [Partitions -> SinglePartition \cup {None}]
    BY <1>1 DEF ListPartition
  <2>4. QED
    BY <1>4, <2>1, <2>2, <2>3 DEF Holds
<1>6. QED
  BY <1>4, <1>5 DEF PartitionsOf

-----------------------------------------------------------------------------
(* Type correctness.                                                       *)

LEMMA TypeInit == Init => TypeOK
<1> SUFFICES ASSUME Init PROVE TypeOK
  OBVIOUS
<1>1. tables \in [UserTables -> Table \cup {None}]
  BY DEF Init, EmptyTables
<1>2. DbTypeOK
  BY DEF Init, DbTypeOK, DbKeys
<1>3. QED
  BY <1>1, <1>2 DEF Init, TypeOK, Clauses, NoReply, Scope, LastColumn

\* The cell that PutColumn writes belongs to a row of a table that is in
\* memory, at a key of the database, and has the type of its column.
LEMMA CellType ==
    ASSUME TypeOK, pc \in {"create", "partition"}, NEW pk \in left
    PROVE  /\ pc = "create" =>
                 /\ pk = subject /\ pk \in UserTables /\ IsTable(pk)
                 /\ col \in 0 .. 1
                 /\ col = 0 => Cell(pk) \in UserTables
                 /\ col = 1 => Cell(pk) \in ColumnLists
           /\ pc = "partition" =>
                 /\ pk \in Partitions
                 /\ col \in 0 .. 4
                 /\ col = 0 => Cell(pk) \in UserTables
                 /\ col = 1 => Cell(pk) \in Partitions
                 /\ col = 2 => Cell(pk) \in [Keys -> Values \cup {None}]
                 /\ col = 3 => Cell(pk) \in PartColumns
                 /\ col = 4 => Cell(pk) \in ValueLists
<1>1. CASE pc = "create"
  <2>1. pk = subject /\ pk \in UserTables /\ IsTable(pk)
    BY <1>1 DEF TypeOK
  <2>2. tables[pk] \in Table
    BY <2>1 DEF TypeOK, IsTable
  <2>3. col \in 0 .. 1
    BY <1>1 DEF TypeOK, Scope, LastColumn
  <2>4. QED
    BY <1>1, <2>1, <2>2, <2>3 DEF Cell, TableCell, TableRow, Table
<1>2. CASE pc = "partition"
  <2>1. pk \in Partitions /\ Holds(subject, pk) /\ subject \in UserTables
    BY <1>2 DEF TypeOK, PartitionsOf
  <2>2. tables[subject].partition \in ListPartition
    BY <2>1 DEF TypeOK, Holds, IsPartitioned, IsTable, Table
  <2>3. tables[subject].partition.partitions[pk] \in SinglePartition
    BY <2>1, <2>2 DEF Holds, ListPartition
  <2>4. col \in 0 .. 4
    BY <1>2 DEF TypeOK, Scope, LastColumn
  <2>5. QED
    BY <1>2, <2>1, <2>2, <2>3, <2>4
    DEF Cell, PartitionCell, PartitionRow, ListPartition, SinglePartition
<1>3. QED
  BY <1>1, <1>2

\* A Put changes the one cell the cursor is at.
LEMMA PutEffect ==
    ASSUME TypeOK, NEW pk \in left, PutColumn(pk, TRUE)
    PROVE  /\ db' = [k \in DbKeys |-> db'[k]]
           /\ \A t \in UserTables, c \in 0 .. 1 :
                 db'[<<"system.tables", t, c>>] =
                     IF pc = "create" /\ t = pk /\ c = col
                     THEN Cell(pk) ELSE db[<<"system.tables", t, c>>]
           /\ \A p \in Partitions, c \in 0 .. 4 :
                 db'[<<"system.partitions", p, c>>] =
                     IF pc = "partition" /\ p = pk /\ c = col
                     THEN Cell(pk) ELSE db[<<"system.partitions", p, c>>]
<1> DEFINE key == <<Scope, pk, col>>
           cell == Cell(pk)
<1>1. /\ pc \in {"create", "partition"}
      /\ db' = [db EXCEPT ![key] = cell]
      /\ db = [k \in DbKeys |-> db[k]]
  BY DEF PutColumn, TypeOK, DbTypeOK
<1>2. Scope = IF pc = "create" THEN "system.tables" ELSE "system.partitions"
  BY DEF Scope
<1> HIDE DEF key, cell
<1>3. \A k \in DbKeys : db'[k] = IF k = key THEN cell ELSE db[k]
  BY <1>1
<1>4. \A t \in UserTables, c \in 0 .. 1 :
          /\ <<"system.tables", t, c>> \in DbKeys
          /\ <<"system.tables", t, c>> = key
                <=> pc = "create" /\ t = pk /\ c = col
  BY <1>1, <1>2 DEF DbKeys, key
<1>5. \A p \in Partitions, c \in 0 .. 4 :
          /\ <<"system.partitions", p, c>> \in DbKeys
          /\ <<"system.partitions", p, c>> = key
                <=> pc = "partition" /\ p = pk /\ c = col
  BY <1>1, <1>2 DEF DbKeys, key
<1>6. db' = [k \in DbKeys |-> db'[k]]
  BY <1>1
<1>7. QED
  BY <1>3, <1>4, <1>5, <1>6 DEF cell

LEMMA PutDbType ==
    ASSUME TypeOK, NEW pk \in left, NEW stored \in BOOLEAN,
           PutColumn(pk, stored)
    PROVE  DbTypeOK'
<1>1. CASE ~stored
  <2>1. db' = db
    BY <1>1 DEF PutColumn
  <2>2. QED
    BY <2>1 DEF TypeOK, DbTypeOK
<1>2. CASE stored
  <2>1. pc \in {"create", "partition"} /\ PutColumn(pk, TRUE)
    BY <1>2 DEF PutColumn
  <2>2. db' = [k \in DbKeys |-> db'[k]]
    BY <2>1, PutEffect
  <2>3. ASSUME NEW t \in UserTables
        PROVE  /\ db'[<<"system.tables", t, 0>>] \in UserTables \cup {None}
               /\ db'[<<"system.tables", t, 1>>] \in ColumnLists \cup {None}
    <3>1. \A c \in 0 .. 1 :
             db'[<<"system.tables", t, c>>] =
                 IF pc = "create" /\ t = pk /\ c = col
                 THEN Cell(pk) ELSE db[<<"system.tables", t, c>>]
      BY <2>1, PutEffect
    <3>2. /\ db[<<"system.tables", t, 0>>] \in UserTables \cup {None}
          /\ db[<<"system.tables", t, 1>>] \in ColumnLists \cup {None}
      BY DEF TypeOK, DbTypeOK
    <3>3. QED
      BY <2>1, <3>1, <3>2, CellType
  <2>4. ASSUME NEW p \in Partitions
        PROVE  /\ db'[<<"system.partitions", p, 0>>]
                     \in UserTables \cup {None}
               /\ db'[<<"system.partitions", p, 1>>]
                     \in Partitions \cup {None}
               /\ db'[<<"system.partitions", p, 2>>]
                     \in [Keys -> Values \cup {None}] \cup {None}
               /\ db'[<<"system.partitions", p, 3>>]
                     \in PartColumns \cup {None}
               /\ db'[<<"system.partitions", p, 4>>]
                     \in ValueLists \cup {None}
    <3>1. \A c \in 0 .. 4 :
             db'[<<"system.partitions", p, c>>] =
                 IF pc = "partition" /\ p = pk /\ c = col
                 THEN Cell(pk) ELSE db[<<"system.partitions", p, c>>]
      BY <2>1, PutEffect
    <3>2. /\ db[<<"system.partitions", p, 0>>] \in UserTables \cup {None}
          /\ db[<<"system.partitions", p, 1>>] \in Partitions \cup {None}
          /\ db[<<"system.partitions", p, 2>>]
                \in [Keys -> Values \cup {None}] \cup {None}
          /\ db[<<"system.partitions", p, 3>>] \in PartColumns \cup {None}
          /\ db[<<"system.partitions", p, 4>>] \in ValueLists \cup {None}
      BY DEF TypeOK, DbTypeOK
    <3>3. QED
      BY <2>1, <3>1, <3>2, CellType
  <2>5. QED
    BY <2>2, <2>3, <2>4 DEF DbTypeOK
<1>3. QED
  BY <1>1, <1>2

\* Answering and resetting the cursor leave a well-typed idle server.
LEMMA IdleType ==
    ASSUME TypeOK, Idle, NEW r, reply' = r,
           r.status \in {"none", "ok", "error"},
           tables' \in [UserTables -> Table \cup {None}],
           DbTypeOK', torn' \subseteq Rows,
           \/ pc' = "ready"
           \/ pc' = "down" /\ tables' = EmptyTables
    PROVE  TypeOK'
BY DEF TypeOK, Idle, Clauses, EmptyTables, Scope, LastColumn

\* Partitions that `vals' and a constraint make are partitions.
LEMMA SinglePartitionTypes ==
    /\ \A vals \in ValueLists :
          [values |-> vals, constraints |-> NoConstraints] \in SinglePartition
    /\ \A part \in SinglePartition, k \in Keys, v \in Values :
          Constrained(part, k, v) \in SinglePartition
<1>1. NoConstraints \in [Keys -> Values \cup {None}]
  BY DEF NoConstraints
<1>2. ASSUME NEW part \in SinglePartition, NEW k \in Keys, NEW v \in Values
      PROVE  Insert(part.constraints, k, v) \in [Keys -> Values \cup {None}]
  BY DEF SinglePartition, Insert
<1>3. QED
  BY <1>1, <1>2 DEF SinglePartition, Constrained

\* A statement that starts to write partition rows leaves a well-typed cursor.
LEMMA StartPartitionType ==
    ASSUME TypeOK, pc = "ready",
           NEW u \in UserTables, IsPartitioned(u),
           NEW p \in Partitions, NEW part \in SinglePartition,
           tables' = WithSinglePartition(u, p, part),
           StartWriting("partition", u, PartitionsOf(u) \cup {p}),
           named' \in UserTables \cup {None}, clause' = clause
    PROVE  TypeOK'
<1>1. /\ tables' \in [UserTables -> Table \cup {None}]
      /\ PartitionsOf(u)' = PartitionsOf(u) \cup {p}
  BY SinglePartitionUpdate DEF TypeOK
<1>2. DbTypeOK'
  BY DEF StartWriting, TypeOK, DbTypeOK
<1>3. /\ pc' = "partition" /\ subject' = u /\ col' = 0
      /\ left' = PartitionsOf(u)'
      /\ reply' = NoReply /\ torn' = torn
  BY <1>1 DEF StartWriting
<1>4. QED
  BY <1>1, <1>2, <1>3 DEF TypeOK, NoReply, Scope, LastColumn, PartitionsOf

LEMMA TypeStep == TypeOK /\ [Next]_vars => TypeOK'
<1> SUFFICES ASSUME TypeOK, [Next]_vars PROVE TypeOK'
  OBVIOUS
<1> USE DEF cursor
<1>a. ASSUME NEW r, r.status \in {"none", "ok", "error"}, pc = "ready",
             Answer(r), UNCHANGED <<db, cursor, torn>>,
             tables' \in [UserTables -> Table \cup {None}]
      PROVE  TypeOK'
  <2>1. DbTypeOK'
    BY <1>a DEF TypeOK, DbTypeOK
  <2>2. left' = {} /\ subject' = None /\ col' = 0
    BY <1>a DEF TypeOK
  <2>3. QED
    BY <1>a, <2>1, <2>2 DEF TypeOK, Answer, Scope, LastColumn
<1>b. Done.status = "ok" /\ Error.status = "error"
  BY DEF Done, Error
<1>1. ASSUME NEW t \in UserTables, NEW columns \in ColumnLists,
             NEW c \in Clauses, CreateTable(t, columns, c)
      PROVE  TypeOK'
  <2>1. [columns |-> columns, partition |-> None] \in Table
    BY DEF Table
  <2>2. tables' \in [UserTables -> Table \cup {None}] /\ IsTable(t)'
    BY <1>1, <2>1 DEF CreateTable, TypeOK, IsTable
  <2>3. DbTypeOK'
    BY <1>1 DEF CreateTable, StartWriting, TypeOK, DbTypeOK
  <2>4. QED
    BY <1>1, <2>2, <2>3
    DEF CreateTable, StartWriting, TypeOK, NoReply, Scope, LastColumn
<1>2. ASSUME NEW t \in UserTables, NEW known \in BOOLEAN,
             CreateTableFails(t, known)
      PROVE  TypeOK'
  BY <1>2, <1>a, <1>b DEF CreateTableFails, TypeOK
<1>3. ASSUME NEW t \in UserTables, DropTable(t)
      PROVE  TypeOK'
  <2>1. tables' \in [UserTables -> Table \cup {None}]
    BY <1>3 DEF DropTable, TypeOK
  <2>2. QED
    BY <1>3, <2>1, <1>a, <1>b DEF DropTable
<1>4. ASSUME NEW t \in UserTables, NEW p \in Partitions,
             NEW vals \in ValueLists, AddListPartition(t, p, vals)
      PROVE  TypeOK'
  <2>1. PICK u \in UserTables :
           /\ IsPartitioned(u)
           /\ tables' = WithSinglePartition(u, p,
                            [values |-> vals, constraints |-> NoConstraints])
           /\ StartWriting("partition", u, PartitionsOf(u) \cup {p})
    BY <1>4 DEF AddListPartition
  <2>2. QED
    BY <1>4, <2>1, SinglePartitionTypes, StartPartitionType
    DEF AddListPartition
<1>5. CASE AddListPartitionFails
  BY <1>5, <1>a, <1>b DEF AddListPartitionFails, TypeOK
<1>6. ASSUME NEW p \in Partitions, NEW k \in Keys, NEW v \in Values,
             AddPartitionConstraint(p, k, v)
      PROVE  TypeOK'
  <2>1. PICK u \in UserTables :
           /\ Holds(u, p)
           /\ tables' = WithSinglePartition(u, p,
                 Constrained(tables[u].partition.partitions[p], k, v))
           /\ StartWriting("partition", u, PartitionsOf(u))
    BY <1>6 DEF AddPartitionConstraint
  <2>2. IsPartitioned(u) /\ PartitionsOf(u) = PartitionsOf(u) \cup {p}
    BY <2>1 DEF Holds, PartitionsOf
  <2>3. tables[u].partition.partitions[p] \in SinglePartition
    <3>1. tables[u].partition \in ListPartition
      BY <2>1 DEF TypeOK, Holds, IsPartitioned, IsTable, Table
    <3>2. QED
      BY <2>1, <3>1 DEF Holds, ListPartition
  <2>4. QED
    BY <1>6, <2>1, <2>2, <2>3, SinglePartitionTypes, StartPartitionType
    DEF AddPartitionConstraint, TypeOK
<1>7. ASSUME NEW p \in Partitions, AddPartitionConstraintFails(p)
      PROVE  TypeOK'
  BY <1>7, <1>a, <1>b DEF AddPartitionConstraintFails, TypeOK
<1>8. ASSUME NEW s \in SystemTables, Select(s)
      PROVE  TypeOK'
  <2>1. PICK status \in {"ok", "error"} :
           Answer([status |-> status, from |-> s, rows |-> Scan(s)])
    BY <1>8 DEF Select
  <2>2. QED
    BY <1>8, <2>1, <1>a DEF Select, TypeOK
<1>9. CASE SelectFails
  BY <1>9, <1>a, <1>b DEF SelectFails, TypeOK
<1>10. ASSUME NEW pk \in left, NEW stored \in BOOLEAN, PutColumn(pk, stored)
       PROVE  TypeOK'
  <2>1. DbTypeOK'
    BY <1>10, PutDbType
  <2>2. <<Scope, pk>> \in Rows
    BY <1>10, CellType DEF PutColumn, Scope, Rows
  <2>3. torn' \subseteq Rows
    BY <1>10, <2>2 DEF PutColumn, TypeOK
  <2>4. LastColumn(Scope) \in Nat /\ Scope' = Scope
    BY <1>10 DEF LastColumn, Scope, PutColumn
  <2>5. col' \in 0 .. LastColumn(Scope)' /\ (left' = {} => col' = 0)
    BY <1>10, <2>4 DEF PutColumn, TypeOK, LastColumn
  <2>6. QED
    BY <1>10, <2>1, <2>3, <2>5 DEF PutColumn, TypeOK, IsTable, PartitionsOf,
       Holds, IsPartitioned
<1>11. CASE FinishCreate
  <2>1. DbTypeOK' /\ torn' \subseteq Rows
    BY <1>11 DEF FinishCreate, TypeOK, DbTypeOK
  <2>2. CASE clause \in PartColumns /\ tables' = [tables EXCEPT
                 ![subject] = PartitionedBy(@, clause)] /\ Answer(Done)
    <3>1. [column |-> clause, partitions |-> NoPartitions] \in ListPartition
      BY <2>2 DEF ListPartition, NoPartitions
    <3>2. subject \in UserTables /\ IsTable(subject)
      BY <1>11 DEF FinishCreate, TypeOK
    <3>3. tables' \in [UserTables -> Table \cup {None}]
      BY <2>2, <3>1, <3>2, PartitionUpdate DEF PartitionedBy, TypeOK
    <3>4. QED
      BY <1>11, <1>b, <2>1, <2>2, <3>3, IdleType DEF FinishCreate, Answer
  <2>3. CASE tables' = tables /\ (Answer(Done) \/ Answer(Error))
    BY <1>11, <1>b, <2>1, <2>3, IdleType DEF FinishCreate, Answer, TypeOK
  <2>4. QED
    BY <1>11, <2>2, <2>3 DEF FinishCreate, SetPartition
<1>12. CASE FinishPartition
  <2>1. DbTypeOK' /\ torn' \subseteq Rows
    BY <1>12 DEF FinishPartition, TypeOK, DbTypeOK
  <2>2. QED
    BY <1>12, <1>b, <2>1, IdleType DEF FinishPartition, Answer, TypeOK
<1>13. CASE Crash
  <2>1. DbTypeOK'
    BY <1>13 DEF Crash, TypeOK, DbTypeOK
  <2>2. torn' \subseteq Rows
    <3>1. CASE col = 0
      BY <1>13, <3>1 DEF Crash, TypeOK
    <3>2. CASE col # 0
      <4>1. pc \in {"create", "partition"}
        BY <1>13, <3>2 DEF Crash, TypeOK
      <4>2. \A pk \in left : <<Scope, pk>> \in Rows
        BY <4>1, CellType DEF Scope, Rows
      <4>3. QED
        BY <1>13, <3>2, <4>2 DEF Crash, TypeOK
    <3>3. QED
      BY <3>1, <3>2
  <2>3. tables' = EmptyTables /\ EmptyTables \in [UserTables -> Table \cup {None}]
    BY <1>13 DEF Crash, EmptyTables
  <2>4. NoReply.status = "none"
    BY DEF NoReply
  <2>5. QED
    BY <1>13, <2>1, <2>2, <2>3, <2>4, IdleType DEF Crash
<1>14. CASE Restart
  <2>1. DbTypeOK'
    BY <1>14 DEF Restart, TypeOK, DbTypeOK
  <2>2. QED
    BY <1>14, <2>1 DEF Restart, TypeOK, Scope, LastColumn
<1>15. CASE UNCHANGED vars
  BY <1>15 DEF vars, TypeOK, DbTypeOK, IsTable, PartitionsOf, Holds,
     IsPartitioned, Scope, LastColumn
<1>16. QED
  BY <1>1, <1>2, <1>3, <1>4, <1>5, <1>6, <1>7, <1>8, <1>9, <1>10, <1>11,
     <1>12, <1>13, <1>14, <1>15
  DEF Next, Statement, ServerStep, WriteColumn, LoseColumn

\* Every reachable state is well typed: the cursor is inside a row of a table
\* that is in memory (CreateTable, WritePartition, WriteRow).
THEOREM TypeCorrect == Spec => []TypeOK
<1>1. Init => TypeOK
  BY TypeInit
<1>2. TypeOK /\ [Next]_vars => TypeOK'
  BY TypeStep
<1>3. QED
  BY <1>1, <1>2, PTL DEF Spec

-----------------------------------------------------------------------------
(* The write-through.                                                      *)

\* The columns before the cursor of the row that CREATE TABLE is writing are
\* on disk, unless one of them was lost.
TablePrefix ==
    pc = "create" =>
        \A t \in left :
            <<"system.tables", t>> \notin torn =>
                \A c \in 0 .. 1 :
                    c < col => db[<<"system.tables", t, c>>] = TableCell(t, c)

WriteThroughInv == TypeOK /\ WriteThrough /\ TablePrefix

\* Steps that change neither the disk nor what is torn, and neither the
\* columns of a table nor the set of tables other than by dropping some, keep
\* the write-through as long as they do not begin to write a table.
LEMMA QuietStep ==
    ASSUME TypeOK, WriteThrough, db' = db, torn \subseteq torn',
           pc' # "create", pc = "create" => left = {},
           \A t \in UserTables :
              IsTable(t)' => IsTable(t) /\ tables'[t].columns = tables[t].columns
    PROVE  WriteThrough' /\ TablePrefix'
<1>1. TablePrefix'
  BY DEF TablePrefix
<1>2. ASSUME NEW t \in UserTables, IsTable(t)',
             <<"system.tables", t>> \notin torn'
      PROVE  \A c \in 0 .. 1 :
                db'[<<"system.tables", t, c>>] = TableCell(t, c)'
  <2>1. \A c \in 0 .. 1 : db[<<"system.tables", t, c>>] = TableCell(t, c)
    BY <1>2 DEF WriteThrough
  <2>2. \A c \in 0 .. 1 : TableCell(t, c)' = TableCell(t, c)
    BY <1>2 DEF TableCell, TableRow
  <2>3. QED
    BY <2>1, <2>2
<1>3. QED
  BY <1>1, <1>2 DEF WriteThrough

LEMMA WriteThroughPut ==
    ASSUME WriteThroughInv, NEW pk \in left, NEW stored \in BOOLEAN,
           PutColumn(pk, stored)
    PROVE  WriteThrough' /\ TablePrefix'
<1>1. /\ TypeOK /\ pc \in {"create", "partition"} /\ pc' = pc
      /\ tables' = tables
      /\ \A t \in UserTables, c \in 0 .. 1 :
            TableCell(t, c)' = TableCell(t, c) /\ (IsTable(t)' <=> IsTable(t))
  BY DEF WriteThroughInv, PutColumn, TableCell, TableRow, IsTable
<1>2. CASE pc = "partition"
  <2>1. Scope = "system.partitions"
    BY <1>2 DEF Scope
  <2>2. \A t \in UserTables :
           <<"system.tables", t>> \in torn' <=> <<"system.tables", t>> \in torn
    BY <2>1 DEF PutColumn
  <2>3. \A t \in UserTables, c \in 0 .. 1 :
           db'[<<"system.tables", t, c>>] = db[<<"system.tables", t, c>>]
    <3>1. CASE stored
      BY <1>1, <1>2, <3>1, PutEffect
    <3>2. CASE ~stored
      BY <3>2 DEF PutColumn
    <3>3. QED
      BY <3>1, <3>2
  <2>4. QED
    BY <1>1, <1>2, <2>2, <2>3 DEF WriteThroughInv, WriteThrough, TablePrefix
<1>3. CASE pc = "create"
  <2>1. /\ pk \in UserTables /\ col \in 0 .. 1 /\ left = {pk}
        /\ Cell(pk) = TableCell(pk, col)
    BY <1>1, <1>3, CellType DEF TypeOK, Cell
  <2>2. /\ col = 0 => col' = 1 /\ left' = left
        /\ col = 1 => col' = 0 /\ left' = {}
    BY <1>3, <2>1 DEF PutColumn, LastColumn, Scope
  <2>3. \A t \in UserTables : t # pk =>
           (<<"system.tables", t>> \in torn' <=> <<"system.tables", t>> \in torn)
    BY <1>3 DEF PutColumn, Scope
  <2>4. CASE ~stored
    <3>1. db' = db /\ <<"system.tables", pk>> \in torn'
      BY <1>3, <2>4 DEF PutColumn, Scope
    <3>2. QED
      BY <1>1, <1>3, <2>1, <2>2, <2>3, <3>1
      DEF WriteThroughInv, WriteThrough, TablePrefix
  <2>5. CASE stored
    <3>1. \A t \in UserTables, c \in 0 .. 1 :
             db'[<<"system.tables", t, c>>] =
                 IF t = pk /\ c = col
                 THEN TableCell(pk, col) ELSE db[<<"system.tables", t, c>>]
      BY <1>1, <1>3, <2>1, <2>5, PutEffect
    <3>2. CASE col = 0
      <4>1. TablePrefix'
        <5>1. col' = 1 /\ left' = {pk} /\ tables' = tables
          BY <1>1, <2>1, <2>2, <3>2
        <5>2. db'[<<"system.tables", pk, 0>>] = TableCell(pk, 0)
          BY <2>1, <3>1, <3>2 DEF TableCell, TableRow
        <5>3. QED
          BY <5>1, <5>2 DEF TablePrefix, TableCell, TableRow
      <4>2. WriteThrough'
        <5>1. \A t \in UserTables, c \in 0 .. 1 : t # pk =>
                 db'[<<"system.tables", t, c>>] = db[<<"system.tables", t, c>>]
          BY <3>1
        <5>2. SUFFICES ASSUME NEW t \in UserTables, t # pk, IsTable(t)',
                              <<"system.tables", t>> \notin torn'
                       PROVE  \A c \in 0 .. 1 :
                                 db'[<<"system.tables", t, c>>]
                                     = TableCell(t, c)'
          BY <1>1, <1>3, <2>1, <2>2, <3>2 DEF WriteThrough
        <5>3. QED
          BY <1>1, <1>3, <2>1, <2>3, <5>1, <5>2
          DEF WriteThroughInv, WriteThrough
      <4>3. QED
        BY <4>1, <4>2
    <3>3. CASE col = 1
      <4>1. torn' = torn
        BY <2>5, <3>3 DEF PutColumn
      <4>2. ASSUME <<"system.tables", pk>> \notin torn
            PROVE  \A c \in 0 .. 1 :
                      db'[<<"system.tables", pk, c>>] = TableCell(pk, c)
        <5>1. db'[<<"system.tables", pk, 1>>] = TableCell(pk, 1)
          BY <2>1, <3>1, <3>3 DEF TableCell, TableRow
        <5>2. db[<<"system.tables", pk, 0>>] = TableCell(pk, 0)
          BY <1>3, <2>1, <3>3, <4>2 DEF WriteThroughInv, TablePrefix
        <5>3. db'[<<"system.tables", pk, 0>>] = db[<<"system.tables", pk, 0>>]
          <6>1. pk \in UserTables /\ 0 \in 0 .. 1 /\ 0 # col
            BY <2>1, <3>3
          <6>2. QED
            BY <3>1, <6>1
        <5>4. QED
          BY <5>1, <5>2, <5>3 DEF TableCell, TableRow
      <4>3. QED
        BY <1>1, <1>3, <2>1, <2>2, <3>1, <3>3, <4>1, <4>2
        DEF WriteThroughInv, WriteThrough, TablePrefix
    <3>4. QED
      BY <2>1, <3>2, <3>3
  <2>6. QED
    BY <2>4, <2>5
<1>4. QED
  BY <1>1, <1>2, <1>3

LEMMA WriteThroughCreate ==
    ASSUME WriteThroughInv, NEW t \in UserTables, NEW columns \in ColumnLists,
           NEW c \in Clauses, CreateTable(t, columns, c)
    PROVE  WriteThrough' /\ TablePrefix'
<1>1. /\ pc' = "create" /\ left' = {t} /\ col' = 0
      /\ db' = db /\ torn' = torn /\ pc = "ready"
      /\ \A u \in UserTables : u # t => tables'[u] = tables[u]
  BY DEF CreateTable, StartWriting, WriteThroughInv, TypeOK
<1>2. TablePrefix'
  BY <1>1 DEF TablePrefix
<1>3. \A u \in UserTables : u # t =>
         /\ IsTable(u)' <=> IsTable(u)
         /\ \A i \in 0 .. 1 : TableCell(u, i)' = TableCell(u, i)
  BY <1>1 DEF IsTable, TableCell, TableRow
<1>4. WriteThrough'
  BY <1>1, <1>3 DEF WriteThroughInv, WriteThrough
<1>5. QED
  BY <1>2, <1>4

LEMMA WriteThroughStep ==
    WriteThroughInv /\ [Next]_vars => WriteThroughInv'
<1> SUFFICES ASSUME WriteThroughInv, [Next]_vars
             PROVE  WriteThrough' /\ TablePrefix'
  BY TypeStep DEF WriteThroughInv
<1> USE DEF cursor
<1>a. TypeOK /\ WriteThrough /\ tables \in [UserTables -> Table \cup {None}]
  BY DEF WriteThroughInv, TypeOK
<1>b. ASSUME tables' = tables, db' = db, torn' = torn,
             pc' # "create", pc # "create" \/ left = {}
      PROVE  WriteThrough' /\ TablePrefix'
  BY <1>a, <1>b, QuietStep DEF IsTable
<1>1. ASSUME NEW t \in UserTables, NEW columns \in ColumnLists,
             NEW c \in Clauses, CreateTable(t, columns, c)
      PROVE  WriteThrough' /\ TablePrefix'
  BY <1>1, WriteThroughCreate
<1>2. ASSUME NEW t \in UserTables, NEW known \in BOOLEAN,
             CreateTableFails(t, known)
      PROVE  WriteThrough' /\ TablePrefix'
  BY <1>2, <1>b DEF CreateTableFails, Answer
<1>3. ASSUME NEW t \in UserTables, DropTable(t)
      PROVE  WriteThrough' /\ TablePrefix'
  <2>1. \A u \in UserTables :
           IsTable(u)' => IsTable(u) /\ tables'[u].columns = tables[u].columns
    BY <1>3, <1>a DEF DropTable, IsTable
  <2>2. QED
    BY <1>3, <1>a, <2>1, QuietStep DEF DropTable, Answer
<1>4. ASSUME NEW t \in UserTables, NEW p \in Partitions,
             NEW vals \in ValueLists, AddListPartition(t, p, vals)
      PROVE  WriteThrough' /\ TablePrefix'
  <2>1. PICK u \in UserTables :
           /\ IsPartitioned(u)
           /\ tables' = WithSinglePartition(u, p,
                            [values |-> vals, constraints |-> NoConstraints])
           /\ StartWriting("partition", u, PartitionsOf(u) \cup {p})
    BY <1>4 DEF AddListPartition
  <2>2. QED
    BY <1>4, <1>a, <2>1, SinglePartitionTypes, SinglePartitionUpdate, QuietStep
    DEF AddListPartition, StartWriting
<1>5. CASE AddListPartitionFails
  BY <1>5, <1>b DEF AddListPartitionFails, Answer
<1>6. ASSUME NEW p \in Partitions, NEW k \in Keys, NEW v \in Values,
             AddPartitionConstraint(p, k, v)
      PROVE  WriteThrough' /\ TablePrefix'
  <2>1. PICK u \in UserTables :
           /\ Holds(u, p)
           /\ tables' = WithSinglePartition(u, p,
                 Constrained(tables[u].partition.partitions[p], k, v))
           /\ StartWriting("partition", u, PartitionsOf(u))
    BY <1>6 DEF AddPartitionConstraint
  <2>2. IsPartitioned(u)
    BY <2>1 DEF Holds
  <2>3. tables[u].partition \in ListPartition
    BY <1>a, <2>2 DEF IsPartitioned, IsTable, Table
  <2>4. tables[u].partition.partitions[p] \in SinglePartition
    BY <2>1, <2>3 DEF Holds, ListPartition
  <2>5. QED
    BY <1>6, <1>a, <2>1, <2>2, <2>4, SinglePartitionTypes,
       SinglePartitionUpdate, QuietStep
    DEF AddPartitionConstraint, StartWriting
<1>7. ASSUME NEW p \in Partitions, AddPartitionConstraintFails(p)
      PROVE  WriteThrough' /\ TablePrefix'
  BY <1>7, <1>b DEF AddPartitionConstraintFails, Answer
<1>8. ASSUME NEW s \in SystemTables, Select(s)
      PROVE  WriteThrough' /\ TablePrefix'
  BY <1>8, <1>b DEF Select, Answer
<1>9. CASE SelectFails
  BY <1>9, <1>b DEF SelectFails, Answer
<1>10. ASSUME NEW pk \in left, NEW stored \in BOOLEAN, PutColumn(pk, stored)
       PROVE  WriteThrough' /\ TablePrefix'
  BY <1>10, WriteThroughPut
<1>11. CASE FinishCreate
  <2>1. /\ db' = db /\ torn' = torn /\ pc' = "ready" /\ left = {}
        /\ subject \in UserTables /\ IsTable(subject)
    BY <1>11, <1>a DEF FinishCreate, SetPartition, Answer, TypeOK
  <2>2. CASE clause \in PartColumns /\ tables' = [tables EXCEPT
                 ![subject] = PartitionedBy(@, clause)]
    <3>1. [column |-> clause, partitions |-> NoPartitions] \in ListPartition
      BY <2>2 DEF ListPartition, NoPartitions
    <3>2. QED
      BY <1>a, <2>1, <2>2, <3>1, PartitionUpdate, QuietStep DEF PartitionedBy
  <2>3. CASE tables' = tables
    BY <2>1, <2>3, <1>b
  <2>4. QED
    BY <1>11, <2>2, <2>3 DEF FinishCreate, SetPartition
<1>12. CASE FinishPartition
  BY <1>12, <1>b DEF FinishPartition, Answer
<1>13. CASE Crash
  BY <1>13 DEF Crash, WriteThrough, TablePrefix, IsTable, EmptyTables
<1>14. CASE Restart
  BY <1>14, <1>b DEF Restart
<1>15. CASE UNCHANGED vars
  BY <1>15, <1>a DEF vars, WriteThroughInv, WriteThrough, TablePrefix, IsTable,
     TableCell, TableRow
<1>16. QED
  BY <1>1, <1>2, <1>3, <1>4, <1>5, <1>6, <1>7, <1>8, <1>9, <1>10, <1>11,
     <1>12, <1>13, <1>14, <1>15
  DEF Next, Statement, ServerStep, WriteColumn, LoseColumn

LEMMA WriteThroughInit == Init => WriteThroughInv
  BY TypeInit DEF Init, WriteThroughInv, WriteThrough, TablePrefix, IsTable,
     EmptyTables

\* The row of every table in memory is complete and current on disk unless it
\* is being written or a Put of it was lost (CreateTable, WriteRow).
THEOREM WriteThroughHolds == Spec => []WriteThrough
<1>1. WriteThroughInv => WriteThrough
  BY DEF WriteThroughInv
<1>2. QED
  BY <1>1, WriteThroughInit, WriteThroughStep, PTL DEF Spec

-----------------------------------------------------------------------------
(* The Put of one column, for both system tables.                          *)

Writing == pc \in {"create", "partition"}

\* The row the cursor is in.
Current(pk) == pk \in left /\ \A other \in left : pk <= other

\* The rows left have numbers for names, so there is one current row at most.
LEMMA CurrentIsUnique ==
    ASSUME TypeOK, Writing, NEW p \in left, NEW q \in left,
           Current(p), Current(q)
    PROVE  p = q
<1>1. p \in Nat /\ q \in Nat
  BY CellType DEF Writing, TypeOK
<1>2. p <= q /\ q <= p
  BY DEF Current
<1>3. QED
  BY <1>1, <1>2

\* A Put stores one cell that is not None, in the current row; what is torn
\* changes for this row only.
LEMMA PutCell ==
    ASSUME TypeOK, NEW pk \in left, NEW stored \in BOOLEAN,
           PutColumn(pk, stored)
    PROVE  /\ Writing /\ Writing' /\ Current(pk)
           /\ Scope' = Scope /\ Scope \in SystemTables
           /\ pk \in PrimaryKeys(Scope) /\ col \in 0 .. LastColumn(Scope)
           /\ Cell(pk) # None
           /\ \A s \in SystemTables : \A k \in PrimaryKeys(s) :
                 \A c \in 0 .. LastColumn(s) :
                     db'[<<s, k, c>>] =
                         IF stored /\ s = Scope /\ k = pk /\ c = col
                         THEN Cell(pk) ELSE db[<<s, k, c>>]
           /\ \A s \in SystemTables : \A k \in PrimaryKeys(s) :
                 <<s, k>> # <<Scope, pk>> =>
                     (<<s, k>> \in torn' <=> <<s, k>> \in torn)
           /\ ~stored => <<Scope, pk>> \in torn'
           /\ stored /\ col # 0 =>
                 (<<Scope, pk>> \in torn' <=> <<Scope, pk>> \in torn)
<1>1. /\ pc \in {"create", "partition"} /\ pc' = pc /\ Current(pk)
      /\ torn' = IF ~stored THEN torn \cup {<<Scope, pk>>}
                 ELSE IF col = 0 THEN torn \ {<<Scope, pk>>} ELSE torn
  BY DEF PutColumn, Current
<1>2. /\ Scope = IF pc = "create" THEN "system.tables" ELSE "system.partitions"
      /\ Scope' = Scope
  BY <1>1 DEF Scope
<1>3. /\ pk \in PrimaryKeys(Scope) /\ col \in 0 .. LastColumn(Scope)
      /\ Cell(pk) # None
  <2>1. CASE pc = "create"
    <3>1. pk \in UserTables /\ col \in {0, 1}
      BY <2>1, CellType
    <3>2. Cell(pk) \in UserTables \cup ColumnLists
      BY <2>1, <3>1, CellType
    <3>3. QED
      BY <1>2, <2>1, <3>1, <3>2 DEF PrimaryKeys, LastColumn
  <2>2. CASE pc = "partition"
    <3>1. pk \in Partitions /\ col \in {0, 1, 2, 3, 4}
      BY <2>2, CellType
    <3>2. Cell(pk) \in UserTables \cup Partitions
             \cup [Keys -> Values \cup {None}] \cup PartColumns \cup ValueLists
      BY <2>2, <3>1, CellType
    <3>3. Cell(pk) # None
      BY <3>2
    <3>4. QED
      BY <1>2, <2>2, <3>1, <3>3 DEF PrimaryKeys, LastColumn
  <2>3. QED
    BY <1>1, <2>1, <2>2
<1>4. ASSUME NEW s \in SystemTables, NEW k \in PrimaryKeys(s),
             NEW c \in 0 .. LastColumn(s)
      PROVE  db'[<<s, k, c>>] = IF stored /\ s = Scope /\ k = pk /\ c = col
                                THEN Cell(pk) ELSE db[<<s, k, c>>]
  <2>1. CASE ~stored
    BY <2>1 DEF PutColumn
  <2>2. CASE stored
    <3>1. PutColumn(pk, TRUE)
      BY <2>2 DEF PutColumn
    <3>2. CASE s = "system.tables"
      <4>1. k \in UserTables /\ c \in 0 .. 1
        BY <3>2 DEF PrimaryKeys, LastColumn
      <4>2. db'[<<"system.tables", k, c>>] =
                IF pc = "create" /\ k = pk /\ c = col
                THEN Cell(pk) ELSE db[<<"system.tables", k, c>>]
        BY <3>1, <4>1, PutEffect
      <4>3. QED
        BY <1>1, <1>2, <2>2, <3>2, <4>2
    <3>3. CASE s = "system.partitions"
      <4>1. k \in Partitions /\ c \in 0 .. 4
        BY <3>3 DEF PrimaryKeys, LastColumn
      <4>2. db'[<<"system.partitions", k, c>>] =
                IF pc = "partition" /\ k = pk /\ c = col
                THEN Cell(pk) ELSE db[<<"system.partitions", k, c>>]
        BY <3>1, <4>1, PutEffect
      <4>3. QED
        BY <1>1, <1>2, <2>2, <3>3, <4>2
    <3>4. QED
      BY <3>2, <3>3 DEF SystemTables
  <2>3. QED
    BY <2>1, <2>2
<1>5. QED
  BY <1>1, <1>2, <1>3, <1>4 DEF Writing, SystemTables

\* A partition a table holds is one.
LEMMA HeldPartitionType ==
    ASSUME TypeOK, NEW t \in UserTables, NEW p \in Partitions, Holds(t, p)
    PROVE  /\ tables[t] \in Table /\ tables[t].partition \in ListPartition
           /\ tables[t].partition.partitions[p] \in SinglePartition
<1>1. tables[t] \in Table /\ tables[t].partition \in ListPartition
  BY DEF TypeOK, Holds, IsPartitioned, IsTable, Table
<1>2. QED
  BY <1>1 DEF Holds, ListPartition

-----------------------------------------------------------------------------
(* No half rows.                                                           *)

\* A row is whole, not there at all, torn, or the cursor is inside it.
WholeOrTorn ==
    \A s \in SystemTables : \A pk \in PrimaryKeys(s) :
        \/ <<s, pk>> \in torn
        \/ s = Scope /\ Writing /\ Current(pk) /\ col > 0
        \/ \A c \in 1 .. LastColumn(s) :
              (db[<<s, pk, c>>] = None) <=> (db[<<s, pk, 0>>] = None)

\* The columns before the cursor are stored.
WrittenPrefix ==
    Writing =>
        \A pk \in left :
            Current(pk) /\ <<Scope, pk>> \notin torn =>
                \A c \in 0 .. LastColumn(Scope) :
                    c < col => db[<<Scope, pk, c>>] # None

HalfRowsInv == TypeOK /\ WholeOrTorn /\ WrittenPrefix

\* Steps that leave the disk alone and the cursor at the beginning of a row.
LEMMA HalfRowsQuiet ==
    ASSUME HalfRowsInv, db' = db, torn \subseteq torn', col' = 0,
           \A pk \in left : Writing /\ Current(pk) /\ col > 0
                                => <<Scope, pk>> \in torn'
    PROVE  WholeOrTorn' /\ WrittenPrefix'
<1>1. WholeOrTorn'
  BY DEF HalfRowsInv, WholeOrTorn, Current
<1>2. WrittenPrefix'
  BY DEF WrittenPrefix, LastColumn
<1>3. QED
  BY <1>1, <1>2

LEMMA HalfRowsPut ==
    ASSUME HalfRowsInv, NEW pk \in left, NEW stored \in BOOLEAN,
           PutColumn(pk, stored)
    PROVE  WholeOrTorn' /\ WrittenPrefix'
<1> DEFINE last == LastColumn(Scope)
<1>1. /\ TypeOK /\ Writing /\ Writing' /\ Current(pk)
      /\ Scope' = Scope /\ Scope \in SystemTables
      /\ pk \in PrimaryKeys(Scope) /\ col \in 0 .. last
      /\ Cell(pk) # None
  BY PutCell DEF HalfRowsInv
<1>2. \A s \in SystemTables : \A k \in PrimaryKeys(s) :
         \A c \in 0 .. LastColumn(s) :
             db'[<<s, k, c>>] =
                 IF stored /\ s = Scope /\ k = pk /\ c = col
                 THEN Cell(pk) ELSE db[<<s, k, c>>]
  BY <1>1, PutCell
<1>3. ASSUME NEW s \in SystemTables, NEW k \in PrimaryKeys(s),
             <<s, k>> # <<Scope, pk>>
      PROVE  <<s, k>> \in torn' <=> <<s, k>> \in torn
  BY <1>1, <1>3, PutCell
<1>4. /\ ~stored => <<Scope, pk>> \in torn'
      /\ stored /\ col # 0 =>
            (<<Scope, pk>> \in torn' <=> <<Scope, pk>> \in torn)
  BY <1>1, PutCell
<1>5. /\ col < last => col' = col + 1 /\ left' = left
      /\ col = last => col' = 0 /\ left' = left \ {pk}
      /\ last \in {1, 4}
  BY <1>1 DEF PutColumn, LastColumn
\* After the Put the columns up to the cursor are stored.
<1>6. ASSUME <<Scope, pk>> \notin torn', NEW c \in 0 .. last, c <= col
      PROVE  db'[<<Scope, pk, c>>] # None
  <2>1. CASE c = col
    BY <1>1, <1>2, <1>4, <1>6, <2>1
  <2>2. CASE c < col
    <3>1. <<Scope, pk>> \notin torn
      BY <1>1, <1>4, <1>5, <1>6, <2>2
    <3>2. db[<<Scope, pk, c>>] # None
      BY <1>1, <2>2, <3>1 DEF HalfRowsInv, WrittenPrefix
    <3>3. QED
      BY <1>1, <1>2, <2>2, <3>2
  <2>3. QED
    BY <1>1, <1>5, <1>6, <2>1, <2>2
<1>7. WholeOrTorn'
  <2> SUFFICES ASSUME NEW s \in SystemTables, NEW k \in PrimaryKeys(s),
                      <<s, k>> \notin torn'
               PROVE  \/ s = Scope /\ Current(k)' /\ col' > 0
                      \/ \A c \in 1 .. LastColumn(s) :
                            (db'[<<s, k, c>>] = None)
                                <=> (db'[<<s, k, 0>>] = None)
    BY <1>1 DEF WholeOrTorn
  <2>0. LastColumn(s) \in {1, 4}
    BY DEF LastColumn
  <2>1. CASE s = Scope /\ k = pk
    <3>1. CASE col < last
      BY <1>1, <1>5, <2>1, <3>1 DEF Current
    <3>2. CASE col = last
      BY <1>5, <1>6, <2>1, <3>2
    <3>3. QED
      BY <1>1, <1>5, <3>1, <3>2
  <2>2. CASE ~(s = Scope /\ k = pk)
    <3>1. <<s, k>> \notin torn
      BY <1>3, <2>2
    <3>2. ~(s = Scope /\ Current(k))
      BY <1>1, <2>2, CurrentIsUnique DEF Current
    <3>3. \A c \in 1 .. LastColumn(s) :
             (db[<<s, k, c>>] = None) <=> (db[<<s, k, 0>>] = None)
      BY <3>1, <3>2 DEF HalfRowsInv, WholeOrTorn
    <3>4. \A c \in 0 .. LastColumn(s) : db'[<<s, k, c>>] = db[<<s, k, c>>]
      BY <1>2, <2>2
    <3>5. QED
      BY <2>0, <3>3, <3>4
  <2>3. QED
    BY <2>1, <2>2
<1>8. WrittenPrefix'
  <2>1. CASE col = last
    BY <1>5, <2>1 DEF WrittenPrefix, LastColumn
  <2>2. CASE col < last
    <3> SUFFICES ASSUME NEW k \in left', Current(k)', <<Scope, k>> \notin torn',
                        NEW c \in 0 .. last, c < col'
                 PROVE  db'[<<Scope, k, c>>] # None
      BY <1>1 DEF WrittenPrefix
    <3>1. k = pk
      BY <1>1, <1>5, <2>2, CurrentIsUnique DEF Current
    <3>2. c <= col
      BY <1>1, <1>5, <2>2
    <3>3. QED
      BY <1>6, <3>1, <3>2
  <2>3. QED
    BY <1>1, <1>5, <2>1, <2>2
<1>9. QED
  BY <1>7, <1>8

LEMMA HalfRowsStep == HalfRowsInv /\ [Next]_vars => HalfRowsInv'
<1> SUFFICES ASSUME HalfRowsInv, [Next]_vars PROVE WholeOrTorn' /\ WrittenPrefix'
  BY TypeStep DEF HalfRowsInv
<1> USE DEF cursor
\* Before and after a statement that does not write, and at the beginning and
\* the end of one that does, no row is begun.
<1>a. ASSUME db' = db, torn' = torn, col' = 0, ~Writing \/ left = {}
      PROVE  WholeOrTorn' /\ WrittenPrefix'
  BY <1>a, HalfRowsQuiet
<1>b. /\ pc = "ready" => ~Writing /\ col = 0
      /\ pc = "down" => ~Writing /\ col = 0
  BY DEF HalfRowsInv, TypeOK, Writing
<1>1. CASE Statement
  <2>1. pc = "ready" /\ db' = db /\ torn' = torn /\ col' = 0
    BY <1>1, <1>b DEF Statement, CreateTable, CreateTableFails, DropTable,
       AddListPartition, AddListPartitionFails, AddPartitionConstraint,
       AddPartitionConstraintFails, Select, SelectFails, StartWriting
  <2>2. QED
    BY <1>a, <1>b, <2>1
<1>2. ASSUME NEW pk \in left, NEW stored \in BOOLEAN, PutColumn(pk, stored)
      PROVE  WholeOrTorn' /\ WrittenPrefix'
  BY <1>2, HalfRowsPut
<1>3. CASE FinishCreate
  BY <1>3, <1>a DEF FinishCreate, Idle
<1>4. CASE FinishPartition
  BY <1>4, <1>a DEF FinishPartition, Idle
<1>5. CASE Crash
  <2>1. db' = db /\ torn \subseteq torn' /\ col' = 0
    BY <1>5 DEF Crash, Idle
  <2>2. \A pk \in left : Current(pk) /\ col > 0 => <<Scope, pk>> \in torn'
    BY <1>5 DEF Crash, Current
  <2>3. QED
    BY <2>1, <2>2, HalfRowsQuiet
<1>6. CASE Restart
  BY <1>6, <1>a, <1>b DEF Restart
<1>7. CASE UNCHANGED vars
  BY <1>7 DEF vars, HalfRowsInv, WholeOrTorn, WrittenPrefix, Writing, Current,
     Scope
<1>8. QED
  BY <1>1, <1>2, <1>3, <1>4, <1>5, <1>6, <1>7
  DEF Next, ServerStep, WriteColumn, LoseColumn

LEMMA HalfRowsInit == Init => HalfRowsInv
<1> SUFFICES ASSUME Init PROVE WholeOrTorn /\ WrittenPrefix
  BY TypeInit DEF HalfRowsInv
<1>1. ASSUME NEW s \in SystemTables, NEW pk \in PrimaryKeys(s),
             NEW c \in 0 .. LastColumn(s)
      PROVE  db[<<s, pk, c>>] = None
  <2>1. <<s, pk, c>> \in DbKeys
    BY DEF SystemTables, PrimaryKeys, LastColumn, DbKeys
  <2>2. QED
    BY <2>1 DEF Init
<1>2. \A s \in SystemTables : LastColumn(s) \in {1, 4}
  BY DEF LastColumn
<1>3. QED
  BY <1>1, <1>2 DEF Init, WholeOrTorn, WrittenPrefix, Writing

\* No sequence of statements leaves half a row on disk, unless a Put of it was
\* lost to a crash or a failure (WriteRow, WritePartition).
THEOREM NoHalfRows == Spec => []HalfRowsAreTorn
<1>1. HalfRowsInv => HalfRowsAreTorn
  BY DEF HalfRowsInv, WholeOrTorn, HalfRowsAreTorn, BeingWritten, Writing,
     Current
<1>2. QED
  BY <1>1, HalfRowsInit, HalfRowsStep, PTL DEF Spec
-----------------------------------------------------------------------------
(* Partition rows are fresh.                                               *)

\* Of the partition row being written, the columns before the cursor agree
\* with the table the statement changes, unless one of them was lost.
PartitionPrefix ==
    pc = "partition" =>
        \A p \in left :
            Current(p) /\ <<"system.partitions", p>> \notin torn =>
                \A c \in 0 .. 4 :
                    c < col => db[<<"system.partitions", p, c>>]
                                   = PartitionCell(subject, p, c)

FreshInv == TypeOK /\ PartitionRowFresh /\ PartitionPrefix

ToBeWritten(p) == pc = "partition" /\ p \in left

\* Steps that leave the disk alone, put the cursor at the beginning of a row,
\* and change in memory only partitions whose rows are still to be written.
LEMMA FreshQuiet ==
    ASSUME FreshInv, db' = db, torn \subseteq torn', col' = 0,
           \A t \in UserTables, p \in Partitions :
              Holds(t, p)' /\ ~ToBeWritten(p)' =>
                 /\ Holds(t, p) /\ ~ToBeWritten(p)
                 /\ tables'[t] = tables[t]
    PROVE  PartitionRowFresh' /\ PartitionPrefix'
<1>1. PartitionPrefix'
  BY DEF PartitionPrefix
<1>2. ASSUME NEW t \in UserTables, NEW p \in Partitions,
             Holds(t, p)', ~ToBeWritten(p)',
             db'[<<"system.partitions", p, 0>>] = t,
             <<"system.partitions", p>> \notin torn'
      PROVE  \A c \in 0 .. 4 :
                db'[<<"system.partitions", p, c>>] = PartitionCell(t, p, c)'
  <2>1. Holds(t, p) /\ ~ToBeWritten(p) /\ tables'[t] = tables[t]
    BY <1>2
  <2>2. \A c \in 0 .. 4 :
           db[<<"system.partitions", p, c>>] = PartitionCell(t, p, c)
    BY <1>2, <2>1 DEF FreshInv, PartitionRowFresh, ToBeWritten
  <2>3. \A c \in 0 .. 4 : PartitionCell(t, p, c)' = PartitionCell(t, p, c)
    BY <2>1 DEF PartitionCell, PartitionRow
  <2>4. QED
    BY <2>2, <2>3
<1>3. PartitionRowFresh'
  BY <1>2 DEF PartitionRowFresh, ToBeWritten
<1>4. QED
  BY <1>1, <1>3

\* A Put brings the row forward by one column; with the last one the row is
\* that of the subject, and it belongs to no other table.
LEMMA FreshPut ==
    ASSUME FreshInv, NEW pk \in left, NEW stored \in BOOLEAN,
           PutColumn(pk, stored)
    PROVE  PartitionRowFresh' /\ PartitionPrefix'
<1>1. /\ TypeOK /\ Writing /\ Current(pk) /\ Scope' = Scope
      /\ pc' = pc /\ tables' = tables /\ subject' = subject
      /\ pk \in PrimaryKeys(Scope) /\ col \in 0 .. LastColumn(Scope)
  BY PutCell DEF FreshInv, PutColumn
<1>2. \A p \in Partitions, c \in 0 .. 4 :
         db'[<<"system.partitions", p, c>>] =
             IF stored /\ pc = "partition" /\ p = pk /\ c = col
             THEN PartitionCell(subject, pk, c)
             ELSE db[<<"system.partitions", p, c>>]
  <2>1. pc = "partition" => Cell(pk) = PartitionCell(subject, pk, col)
    BY DEF Cell
  <2>2. CASE stored
    <3>1. PutColumn(pk, TRUE)
      BY <2>2 DEF PutColumn
    <3>2. \A p \in Partitions, c \in 0 .. 4 :
             db'[<<"system.partitions", p, c>>] =
                 IF pc = "partition" /\ p = pk /\ c = col
                 THEN Cell(pk) ELSE db[<<"system.partitions", p, c>>]
      BY <1>1, <3>1, PutEffect
    <3>3. QED
      BY <2>1, <2>2, <3>2
  <2>3. CASE ~stored
    BY <2>3 DEF PutColumn
  <2>4. QED
    BY <2>2, <2>3
<1>3. \A t \in UserTables, p \in Partitions :
         /\ Holds(t, p)' <=> Holds(t, p)
         /\ \A c \in 0 .. 4 : PartitionCell(t, p, c)' = PartitionCell(t, p, c)
  BY <1>1 DEF Holds, IsPartitioned, IsTable, PartitionCell, PartitionRow
<1>4. CASE pc = "create"
  <2>1. Scope = "system.tables"
    BY <1>4 DEF Scope
  <2>2. \A p \in Partitions : <<"system.partitions", p>> \in torn'
                                  <=> <<"system.partitions", p>> \in torn
    BY <2>1 DEF PutColumn
  <2>3. \A p \in Partitions, c \in 0 .. 4 : db'[<<"system.partitions", p, c>>]
                                               = db[<<"system.partitions", p, c>>]
    BY <1>2, <1>4
  <2>4. PartitionRowFresh'
    <3> SUFFICES ASSUME NEW t \in UserTables, NEW p \in Partitions,
                        Holds(t, p), db'[<<"system.partitions", p, 0>>] = t,
                        <<"system.partitions", p>> \notin torn'
                 PROVE  \A c \in 0 .. 4 : db'[<<"system.partitions", p, c>>]
                                              = PartitionCell(t, p, c)
      BY <1>3 DEF PartitionRowFresh
    <3>1. db[<<"system.partitions", p, 0>>] = t
      BY <2>3, 0 \in 0 .. 4
    <3>2. QED
      BY <1>4, <2>2, <2>3, <3>1 DEF FreshInv, PartitionRowFresh
  <2>5. QED
    BY <1>1, <1>4, <2>4 DEF PartitionPrefix
<1>5. CASE pc = "partition"
  <2>1. /\ Scope = "system.partitions" /\ LastColumn(Scope) = 4
        /\ pk \in Partitions /\ subject \in UserTables /\ col \in 0 .. 4
    BY <1>1, <1>5 DEF Scope, LastColumn, PrimaryKeys, TypeOK
  <2>2. /\ \A p \in Partitions : p # pk =>
              (<<"system.partitions", p>> \in torn'
                   <=> <<"system.partitions", p>> \in torn)
        /\ ~stored => <<"system.partitions", pk>> \in torn'
        /\ stored /\ col # 0 =>
              (<<"system.partitions", pk>> \in torn'
                   <=> <<"system.partitions", pk>> \in torn)
    BY <2>1 DEF PutColumn
  <2>3. /\ col < 4 => col' = col + 1 /\ left' = left
        /\ col = 4 => col' = 0 /\ left' = left \ {pk}
    BY <2>1 DEF PutColumn
  <2>4. ASSUME <<"system.partitions", pk>> \notin torn',
               NEW c \in 0 .. 4, c <= col
        PROVE  db'[<<"system.partitions", pk, c>>]
                   = PartitionCell(subject, pk, c)
    <3>1. CASE c = col
      BY <1>2, <1>5, <2>1, <2>2, <2>4, <3>1
    <3>2. CASE c < col
      <4>1. <<"system.partitions", pk>> \notin torn
        BY <2>1, <2>2, <2>4, <3>2
      <4>2. db[<<"system.partitions", pk, c>>] = PartitionCell(subject, pk, c)
        BY <1>1, <1>5, <3>2, <4>1 DEF FreshInv, PartitionPrefix
      <4>3. QED
        BY <1>2, <2>1, <3>2, <4>2
    <3>3. QED
      BY <2>1, <2>4, <3>1, <3>2
  <2>5. PartitionPrefix'
    <3>1. CASE col = 4
      BY <2>3, <3>1 DEF PartitionPrefix
    <3>2. CASE col < 4
      <4> SUFFICES ASSUME NEW p \in left', Current(p)',
                          <<"system.partitions", p>> \notin torn',
                          NEW c \in 0 .. 4, c < col'
                   PROVE  db'[<<"system.partitions", p, c>>]
                              = PartitionCell(subject, p, c)'
        BY DEF PartitionPrefix
      <4>1. p = pk
        BY <1>1, <2>3, <3>2, CurrentIsUnique DEF Current
      <4>2. c <= col
        BY <2>1, <2>3, <3>2
      <4>3. PartitionCell(subject, pk, c)' = PartitionCell(subject, pk, c)
        BY <1>1 DEF PartitionCell, PartitionRow
      <4>4. QED
        BY <2>4, <4>1, <4>2, <4>3
    <3>3. QED
      BY <2>1, <3>1, <3>2
  <2>6. PartitionRowFresh'
    <3> SUFFICES ASSUME NEW t \in UserTables, NEW p \in Partitions,
                        Holds(t, p), ~(p \in left'),
                        db'[<<"system.partitions", p, 0>>] = t,
                        <<"system.partitions", p>> \notin torn',
                        NEW c \in 0 .. 4
                 PROVE  db'[<<"system.partitions", p, c>>]
                            = PartitionCell(t, p, c)
      BY <1>1, <1>3, <1>5 DEF PartitionRowFresh
    <3>1. CASE p = pk
      <4>1. col = 4
        BY <2>1, <2>3, <3>1
      <4>2. db'[<<"system.partitions", pk, 0>>] = subject
        BY <2>4, <3>1, <4>1 DEF PartitionCell, PartitionRow
      <4>3. QED
        BY <2>4, <3>1, <4>1, <4>2
    <3>2. CASE p # pk
      <4>1. /\ db[<<"system.partitions", p, 0>>] = t
            /\ db'[<<"system.partitions", p, c>>]
                   = db[<<"system.partitions", p, c>>]
        BY <1>2, <3>2, 0 \in 0 .. 4
      <4>2. <<"system.partitions", p>> \notin torn /\ p \notin left
        BY <2>1, <2>2, <2>3, <3>2
      <4>3. QED
        BY <4>1, <4>2 DEF FreshInv, PartitionRowFresh
    <3>3. QED
      BY <3>1, <3>2
  <2>7. QED
    BY <2>5, <2>6
<1>6. QED
  BY <1>1, <1>4, <1>5 DEF Writing

LEMMA FreshStep == FreshInv /\ [Next]_vars => FreshInv'
<1> SUFFICES ASSUME FreshInv, [Next]_vars
             PROVE  PartitionRowFresh' /\ PartitionPrefix'
  BY TypeStep DEF FreshInv
<1> USE DEF cursor
<1>a. /\ TypeOK /\ tables \in [UserTables -> Table \cup {None}]
      /\ pc \in {"ready", "down"} => left = {} /\ col = 0
      /\ left = {} => \A p \in Partitions : ~ToBeWritten(p)
  BY DEF FreshInv, TypeOK, ToBeWritten
\* No row is left to be written and nothing changes in memory.
<1>b. ASSUME db' = db, torn' = torn, col' = 0, left = {}, tables' = tables
      PROVE  PartitionRowFresh' /\ PartitionPrefix'
  <2>1. \A t \in UserTables, p \in Partitions : Holds(t, p)' => Holds(t, p)
    BY <1>b DEF Holds, IsPartitioned, IsTable
  <2>2. QED
    BY <1>a, <1>b, <2>1, FreshQuiet
\* No row is left to be written and some table changes to one that has no
\* partition.
<1>c. ASSUME db' = db, torn' = torn, col' = 0, left = {}, NEW t \in UserTables,
             \A u \in UserTables : u # t => tables'[u] = tables[u],
             \A p \in Partitions : ~Holds(t, p)'
      PROVE  PartitionRowFresh' /\ PartitionPrefix'
  <2>1. \A u \in UserTables, p \in Partitions :
           Holds(u, p)' => u # t /\ Holds(u, p)
    BY <1>c DEF Holds, IsPartitioned, IsTable
  <2>2. QED
    BY <1>a, <1>c, <2>1, FreshQuiet
\* A partition statement leaves every row of its table to be written.
<1>d. ASSUME pc = "ready", NEW u \in UserTables, IsPartitioned(u),
             NEW p \in Partitions, NEW part \in SinglePartition,
             tables' = WithSinglePartition(u, p, part),
             StartWriting("partition", u, PartitionsOf(u) \cup {p})
      PROVE  PartitionRowFresh' /\ PartitionPrefix'
  <2>1. /\ \A t \in UserTables : t # u => tables'[t] = tables[t]
        /\ PartitionsOf(u)' = PartitionsOf(u) \cup {p}
    BY <1>a, <1>d, SinglePartitionUpdate
  <2>2. /\ db' = db /\ torn' = torn /\ col' = 0
        /\ pc' = "partition" /\ left' = PartitionsOf(u)'
    BY <1>d, <2>1 DEF StartWriting
  <2>3. \A q \in Partitions : Holds(u, q)' => ToBeWritten(q)'
    BY <2>2 DEF ToBeWritten, PartitionsOf
  <2>4. \A t \in UserTables, q \in Partitions :
           t # u => (Holds(t, q)' <=> Holds(t, q))
    BY <2>1 DEF Holds, IsPartitioned, IsTable
  <2>5. \A q \in Partitions : ~ToBeWritten(q)
    BY <1>d DEF ToBeWritten
  <2>6. QED
    BY <2>1, <2>2, <2>3, <2>4, <2>5, FreshQuiet
<1>1. ASSUME NEW t \in UserTables, NEW columns \in ColumnLists,
             NEW c \in Clauses, CreateTable(t, columns, c)
      PROVE  PartitionRowFresh' /\ PartitionPrefix'
  <2>1. \A u \in UserTables : u # t => tables'[u] = tables[u]
    BY <1>1, <1>a DEF CreateTable
  <2>2. tables'[t] = [columns |-> columns, partition |-> None]
    BY <1>1, <1>a DEF CreateTable
  <2>3. \A p \in Partitions : ~Holds(t, p)'
    BY <2>2 DEF Holds, IsPartitioned
  <2>4. QED
    BY <1>1, <1>a, <1>c, <2>1, <2>3 DEF CreateTable, StartWriting
<1>2. ASSUME NEW t \in UserTables, NEW known \in BOOLEAN,
             CreateTableFails(t, known)
      PROVE  PartitionRowFresh' /\ PartitionPrefix'
  BY <1>2, <1>a, <1>b DEF CreateTableFails
<1>3. ASSUME NEW t \in UserTables, DropTable(t)
      PROVE  PartitionRowFresh' /\ PartitionPrefix'
  <2>1. /\ \A u \in UserTables : u # t => tables'[u] = tables[u]
        /\ tables'[t] = None
    BY <1>3, <1>a DEF DropTable
  <2>2. \A p \in Partitions : ~Holds(t, p)'
    BY <2>1 DEF Holds, IsPartitioned, IsTable
  <2>3. QED
    BY <1>3, <1>a, <1>c, <2>1, <2>2 DEF DropTable
<1>4. ASSUME NEW t \in UserTables, NEW p \in Partitions,
             NEW vals \in ValueLists, AddListPartition(t, p, vals)
      PROVE  PartitionRowFresh' /\ PartitionPrefix'
  BY <1>4, <1>d, SinglePartitionTypes DEF AddListPartition
<1>5. CASE AddListPartitionFails
  BY <1>5, <1>a, <1>b DEF AddListPartitionFails
<1>6. ASSUME NEW p \in Partitions, NEW k \in Keys, NEW v \in Values,
             AddPartitionConstraint(p, k, v)
      PROVE  PartitionRowFresh' /\ PartitionPrefix'
  <2>1. PICK u \in UserTables :
           /\ Holds(u, p)
           /\ tables' = WithSinglePartition(u, p,
                 Constrained(tables[u].partition.partitions[p], k, v))
           /\ StartWriting("partition", u, PartitionsOf(u))
    BY <1>6 DEF AddPartitionConstraint
  <2>2. IsPartitioned(u) /\ PartitionsOf(u) = PartitionsOf(u) \cup {p}
    BY <2>1 DEF Holds, PartitionsOf
  <2>3. tables[u].partition.partitions[p] \in SinglePartition
    BY <1>a, <2>1, HeldPartitionType
  <2>4. QED
    BY <1>6, <1>d, <2>1, <2>2, <2>3, SinglePartitionTypes
    DEF AddPartitionConstraint
<1>7. ASSUME NEW p \in Partitions, AddPartitionConstraintFails(p)
      PROVE  PartitionRowFresh' /\ PartitionPrefix'
  BY <1>7, <1>a, <1>b DEF AddPartitionConstraintFails
<1>8. ASSUME NEW s \in SystemTables, Select(s)
      PROVE  PartitionRowFresh' /\ PartitionPrefix'
  BY <1>8, <1>a, <1>b DEF Select
<1>9. CASE SelectFails
  BY <1>9, <1>a, <1>b DEF SelectFails
<1>10. ASSUME NEW pk \in left, NEW stored \in BOOLEAN, PutColumn(pk, stored)
       PROVE  PartitionRowFresh' /\ PartitionPrefix'
  BY <1>10, FreshPut
<1>11. CASE FinishCreate
  <2>1. db' = db /\ torn' = torn /\ col' = 0 /\ left = {}
    BY <1>11 DEF FinishCreate, Idle
  <2>2. CASE clause \in PartColumns /\ tables' = [tables EXCEPT
                 ![subject] = PartitionedBy(@, clause)]
    <3>1. PICK t \in UserTables : t = subject
      BY <1>11, <1>a DEF FinishCreate, TypeOK
    <3>2. /\ \A u \in UserTables : u # t => tables'[u] = tables[u]
          /\ tables'[t] = PartitionedBy(tables[t], clause)
      BY <1>a, <2>2, <3>1
    <3>3. tables'[t].partition.partitions = NoPartitions
      BY <3>2 DEF PartitionedBy, WithPartition
    <3>4. \A p \in Partitions : ~Holds(t, p)'
      BY <3>3 DEF Holds, NoPartitions
    <3>5. QED
      BY <2>1, <3>2, <3>4, <1>c
  <2>3. CASE tables' = tables
    BY <2>1, <2>3, <1>b
  <2>4. QED
    BY <1>11, <2>2, <2>3 DEF FinishCreate, SetPartition
<1>12. CASE FinishPartition
  BY <1>12, <1>b DEF FinishPartition, Idle
<1>13. CASE Crash
  BY <1>13 DEF Crash, PartitionRowFresh, PartitionPrefix, Holds, IsPartitioned,
     IsTable, EmptyTables
<1>14. CASE Restart
  BY <1>14, <1>a, <1>b DEF Restart
<1>15. CASE UNCHANGED vars
  BY <1>15 DEF vars, FreshInv, PartitionRowFresh, PartitionPrefix, Holds,
     IsPartitioned, IsTable, PartitionCell, PartitionRow, Current
<1>16. QED
  BY <1>1, <1>2, <1>3, <1>4, <1>5, <1>6, <1>7, <1>8, <1>9, <1>10, <1>11,
     <1>12, <1>13, <1>14, <1>15
  DEF Next, Statement, ServerStep, WriteColumn, LoseColumn

LEMMA FreshInit == Init => FreshInv
  BY TypeInit DEF Init, FreshInv, PartitionRowFresh, PartitionPrefix, Holds,
     IsPartitioned, IsTable, EmptyTables

\* The row of a partition says what its table has in memory, in each of its
\* columns, unless it is to be written by the running statement, says that it
\* belongs to another table, or lost a Put (WritePartition).
THEOREM PartitionRowsAreFresh == Spec => []PartitionRowFresh
<1>1. FreshInv => PartitionRowFresh
  BY DEF FreshInv
<1>2. QED
  BY <1>1, FreshInit, FreshStep, PTL DEF Spec
-----------------------------------------------------------------------------
(* Constraints.                                                            *)

\* What ConstraintsAreKept says of one step.
KeepsConstraints ==
    \A t \in UserTables, p \in Partitions, k \in Keys :
        Holds(t, p) /\ Holds(t, p)'
            => \/ ConstraintOf(t, p, k) = None
               \/ ConstraintOf(t, p, k)' \in {ConstraintOf(t, p, k), None}

\* Setting one partition of a table keeps all constraints if its own are kept.
LEMMA KeepsOnePartition ==
    ASSUME TypeOK, NEW u \in UserTables, IsPartitioned(u),
           NEW p \in Partitions, NEW part \in SinglePartition,
           tables' = WithSinglePartition(u, p, part),
           Holds(u, p) => \A k \in Keys :
               \/ ConstraintOf(u, p, k) = None
               \/ part.constraints[k] \in {ConstraintOf(u, p, k), None}
    PROVE  KeepsConstraints
<1> SUFFICES ASSUME NEW t \in UserTables, NEW q \in Partitions, NEW k \in Keys,
                    Holds(t, q)
             PROVE  \/ ConstraintOf(t, q, k) = None
                    \/ ConstraintOf(t, q, k)' \in {ConstraintOf(t, q, k), None}
  BY DEF KeepsConstraints
<1>1. tables \in [UserTables -> Table \cup {None}]
  BY DEF TypeOK
<1>2. CASE t # u
  <2>1. tables'[t] = tables[t]
    BY <1>1, <1>2, SinglePartitionUpdate
  <2>2. QED
    BY <2>1 DEF ConstraintOf
<1>3. CASE t = u
  <2>1. tables[u].partition.partitions
            \in [Partitions -> SinglePartition \cup {None}]
    BY <1>3, HeldPartitionType DEF ListPartition
  <2>2. tables'[u].partition.partitions
            = [tables[u].partition.partitions EXCEPT ![p] = part]
    BY <1>1 DEF WithSinglePartition, WithPartition
  <2>3. tables'[u].partition.partitions[q]
            = IF q = p THEN part ELSE tables[u].partition.partitions[q]
    BY <2>1, <2>2
  <2>4. CASE q = p
    BY <1>3, <2>3, <2>4 DEF ConstraintOf
  <2>5. CASE q # p
    BY <1>3, <2>3, <2>5 DEF ConstraintOf
  <2>6. QED
    BY <2>4, <2>5
<1>4. QED
  BY <1>2, <1>3

LEMMA ConstraintStep == TypeOK /\ [Next]_vars => KeepsConstraints
<1> SUFFICES ASSUME TypeOK, [Next]_vars PROVE KeepsConstraints
  OBVIOUS
<1>a. tables \in [UserTables -> Table \cup {None}]
  BY DEF TypeOK
<1>b. ASSUME tables' = tables PROVE KeepsConstraints
  BY <1>b DEF KeepsConstraints, ConstraintOf
\* One table changes, and holds nothing before or after.
<1>c. ASSUME NEW t \in UserTables,
             \A u \in UserTables : u # t => tables'[u] = tables[u],
             \A p \in Partitions : ~Holds(t, p) \/ ~Holds(t, p)'
      PROVE  KeepsConstraints
  BY <1>c DEF KeepsConstraints, ConstraintOf
<1>1. ASSUME NEW t \in UserTables, NEW columns \in ColumnLists,
             NEW c \in Clauses, CreateTable(t, columns, c)
      PROVE  KeepsConstraints
  <2>1. \A u \in UserTables : u # t => tables'[u] = tables[u]
    BY <1>1, <1>a DEF CreateTable
  <2>2. \A p \in Partitions : ~Holds(t, p)
    BY <1>1 DEF CreateTable, Holds, IsPartitioned
  <2>3. QED
    BY <1>c, <2>1, <2>2
<1>2. ASSUME NEW t \in UserTables, DropTable(t)
      PROVE  KeepsConstraints
  <2>1. /\ \A u \in UserTables : u # t => tables'[u] = tables[u]
        /\ tables'[t] = None
    BY <1>2, <1>a DEF DropTable
  <2>2. \A p \in Partitions : ~Holds(t, p)'
    BY <2>1 DEF Holds, IsPartitioned, IsTable
  <2>3. QED
    BY <1>c, <2>1, <2>2
<1>3. ASSUME NEW t \in UserTables, NEW p \in Partitions,
             NEW vals \in ValueLists, AddListPartition(t, p, vals)
      PROVE  KeepsConstraints
  <2> DEFINE part == [values |-> vals, constraints |-> NoConstraints]
  <2>1. PICK u \in UserTables :
           IsPartitioned(u) /\ tables' = WithSinglePartition(u, p, part)
    BY <1>3 DEF AddListPartition
  <2>2. part \in SinglePartition
    BY SinglePartitionTypes
  <2>3. \A k \in Keys : part.constraints[k] = None
    BY DEF NoConstraints
  <2> HIDE DEF part
  <2>4. QED
    BY <2>1, <2>2, <2>3, KeepsOnePartition
<1>4. ASSUME NEW p \in Partitions, NEW key \in Keys, NEW v \in Values,
             AddPartitionConstraint(p, key, v)
      PROVE  KeepsConstraints
  <2>1. PICK u \in UserTables :
           /\ Holds(u, p)
           /\ tables' = WithSinglePartition(u, p,
                 Constrained(tables[u].partition.partitions[p], key, v))
    BY <1>4 DEF AddPartitionConstraint
  <2> DEFINE old == tables[u].partition.partitions[p]
             part == Constrained(old, key, v)
  <2>2. old \in SinglePartition /\ part \in SinglePartition
    BY <2>1, HeldPartitionType, SinglePartitionTypes
  <2>3. \A k \in Keys : \/ old.constraints[k] = None
                        \/ part.constraints[k] = old.constraints[k]
    <3>1. part.constraints = Insert(old.constraints, key, v)
      BY DEF Constrained
    <3>2. old.constraints \in [Keys -> Values \cup {None}]
      BY <2>2 DEF SinglePartition
    <3>3. QED
      BY <3>1, <3>2 DEF Insert
  <2>4. \A k \in Keys : ConstraintOf(u, p, k) = old.constraints[k]
    BY DEF ConstraintOf
  <2>5. IsPartitioned(u) /\ tables' = WithSinglePartition(u, p, part)
    BY <2>1 DEF Holds
  <2> HIDE DEF old, part
  <2>6. QED
    BY <2>2, <2>3, <2>4, <2>5, KeepsOnePartition
<1>5. CASE FinishCreate
  <2>1. PICK t \in UserTables : t = subject
    BY <1>5 DEF FinishCreate, TypeOK
  <2>2. CASE clause \in PartColumns /\ tables' = [tables EXCEPT
                 ![subject] = PartitionedBy(@, clause)]
    <3>1. /\ \A u \in UserTables : u # t => tables'[u] = tables[u]
          /\ tables'[t] = PartitionedBy(tables[t], clause)
      BY <1>a, <2>1, <2>2
    <3>2. tables'[t].partition.partitions = NoPartitions
      BY <3>1 DEF PartitionedBy, WithPartition
    <3>3. \A p \in Partitions : ~Holds(t, p)'
      BY <3>2 DEF Holds, NoPartitions
    <3>4. QED
      BY <1>c, <3>1, <3>3
  <2>3. CASE tables' = tables
    BY <1>b, <2>3
  <2>4. QED
    BY <1>5, <2>2, <2>3 DEF FinishCreate, SetPartition
<1>6. CASE Crash
  BY <1>6 DEF Crash, KeepsConstraints, Holds, IsPartitioned, IsTable, EmptyTables
<1>7. ASSUME \/ \E t \in UserTables, known \in BOOLEAN : CreateTableFails(t, known)
             \/ AddListPartitionFails
             \/ \E p \in Partitions : AddPartitionConstraintFails(p)
             \/ \E s \in SystemTables : Select(s)
             \/ SelectFails
             \/ WriteColumn \/ LoseColumn \/ FinishPartition \/ Restart
             \/ UNCHANGED vars
      PROVE  KeepsConstraints
  <2>1. tables' = tables
    BY <1>7 DEF CreateTableFails, AddListPartitionFails,
       AddPartitionConstraintFails, Select, SelectFails, WriteColumn,
       LoseColumn, PutColumn, FinishPartition, Restart, vars
  <2>2. QED
    BY <1>b, <2>1
<1>8. QED
  BY <1>1, <1>2, <1>3, <1>4, <1>5, <1>6, <1>7 DEF Next, Statement, ServerStep

\* A constraint, once there, is never replaced by another (the insert of
\* std::unordered_map in AddPartitionConstraint).
THEOREM ConstraintsStay == Spec => ConstraintsAreKept
<1>1. TypeOK /\ [Next]_vars => [KeepsConstraints]_vars
  BY ConstraintStep
<1>2. QED
  BY <1>1, TypeCorrect, PTL DEF Spec, ConstraintsAreKept, KeepsConstraints
=============================================================================
